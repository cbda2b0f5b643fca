----------------------------- MODULE DriveProofs -----------------------------
(***************************************************************************)
(* What TLAPS proves of the way back from a path to its bytes: of          *)
(* DriveIndex, which finds the parts of a file, and of RemoteFile, which   *)
(* reads them.                                                             *)
(*                                                                         *)
(* Of DriveIndex, for any rows, requests, workers, terms and bounds:       *)
(*                                                                         *)
(*   DriveTypes     every variable keeps its type, whatever a request of   *)
(*                  a worker has found on its way;                         *)
(*   RecentAnswers  a cached listing that may be used is less than two     *)
(*                  terms old;                                             *)
(*   CachesAgree    a cached listing is what its folder holds, unless a    *)
(*                  change of the folder overlapped it, or is being made,  *)
(*                  or the bridge never learnt of one;                     *)
(*   ExactParts     the parts of a file are the messages its content was   *)
(*                  sent in, if only files of the main account are copied. *)
(*                                                                         *)
(* None is inductive, and each has an invariant of its own next to         *)
(* TypeInv.  AgeInv knows when a listing that a worker is about to keep    *)
(* was read.  CacheInv says what a cache holds while a change is being     *)
(* made: a deleted row goes from memory first and its listing from the     *)
(* disk after it, so memory is right but for the rows about to go (Dying), *)
(* and the disk while nothing is about to be dropped from it (Dropping);   *)
(* a listing under way has the first rows of each kind, in order.          *)
(* PartsInv knows what is left to register of a file, and that no two      *)
(* workers add to one row.                                                 *)
(*                                                                         *)
(* Of RemoteFile, for any parts, block and request sizes, heads, seeks and *)
(* expiring references, if media of another file does not have a size that *)
(* the check of _size_confirms takes for this one (~AlienFits):            *)
(*                                                                         *)
(*   ExactReads     a read returns exactly the bytes of the file that      *)
(*                  were asked for;                                        *)
(*   ExactBlocks    every cached block holds the bytes it stands for.      *)
(*                                                                         *)
(* ReaderInv carries them: a run that is being fetched holds the file from *)
(* its first block on and its pieces chain on to its end, a fetched run    *)
(* holds all of its blocks, and a document in hand or in the cache is of a *)
(* message that holds this file.  Most of its proof is arithmetic of where *)
(* parts, requests and blocks end, in lemmas about Before, Slice, Joined,  *)
(* MapRange and DocRead.                                                   *)
(*                                                                         *)
(* The operators are about rows, tables and tasks given as parameters, so  *)
(* that one lemma serves a state and the next.                             *)
(***************************************************************************)
EXTENDS DriveIndex, RemoteFile, FiniteSetTheorems, WellFoundedInduction, TLAPS

-----------------------------------------------------------------------------
(* Numbers in order *)

\* A set of natural numbers that is not empty has a least element.
LEMMA Least ==
    ASSUME NEW T \in SUBSET Nat, T # {}
    PROVE  \E x \in T : \A y \in T : x <= y
<1> DEFINE intervals == {1 .. n : n \in T}
           R == StrictSubsetOrdering(Nat)
<1>1. intervals \subseteq FiniteSubsetsOf(Nat) /\ intervals # {}
  <2>1. \A n \in T : IsFiniteSet(1 .. n) /\ 1 .. n \in SUBSET Nat
    BY FS_Interval
  <2> QED BY <2>1 DEF FiniteSubsetsOf
<1>2. IsWellFoundedOn(R, FiniteSubsetsOf(Nat))
  BY FS_StrictSubsetOrderingWellFounded
<1> HIDE DEF intervals, R
<1>3. \E X \in intervals : \A Y \in intervals : ~(<<Y, X>> \in R)
  BY <1>1, <1>2, WFMin
<1>4. PICK m \in T : \A y \in T : ~(<<1 .. y, 1 .. m>> \in R)
  BY <1>3 DEF intervals
<1>5. ASSUME NEW y \in T, y < m
      PROVE  <<1 .. y, 1 .. m>> \in R
  <2>1. 1 .. y \in SUBSET Nat /\ 1 .. m \in SUBSET Nat /\ 1 .. y \subseteq 1 .. m
    BY <1>5
  <2>2. m \in 1 .. m /\ m \notin 1 .. y
    BY <1>5
  <2> QED BY <2>1, <2>2 DEF R, StrictSubsetOrdering
<1>6. \A y \in T : ~(y < m)
  BY <1>4, <1>5
<1> QED BY <1>6

\* A bounded set of numbers that is not empty has a greatest one.
LEMMA MaxFacts ==
    ASSUME NEW n \in Nat, NEW S \in SUBSET (1 .. n), S # {}
    PROVE  Max(S) \in S
<1> DEFINE Above == {k \in Nat : \A x \in S : x <= k}
<1>0. \A x \in S : x \in Nat /\ x <= n
  OBVIOUS
<1>1. n \in Above /\ Above \in SUBSET Nat
  BY <1>0
<1>2. PICK k \in Above : \A y \in Above : k <= y
  BY <1>1, Least
<1>3. k \in S
  <2> SUFFICES ASSUME k \notin S PROVE FALSE
    OBVIOUS
  <2>1. k \in Nat /\ \A x \in S : x <= k /\ x # k
    BY <1>2
  <2>2. \A x \in S : x <= k - 1
    BY <1>0, <2>1
  <2>3. k - 1 \in Nat
    <3>1. PICK x \in S : TRUE
      OBVIOUS
    <3>2. x \in Nat /\ x <= k - 1
      BY <1>0, <2>2, <3>1
    <3> QED BY <2>1, <3>2
  <2>4. k - 1 \in Above
    BY <2>2, <2>3
  <2> QED BY <1>2, <2>1, <2>4
<1>4. k \in S /\ \A y \in S : k >= y
  BY <1>0, <1>2, <1>3
<1> QED BY <1>4 DEF Max

\* The sequence s lists S from the least to the greatest.
Lists(s, S) ==
    /\ s \in [1 .. Cardinality(S) -> S]
    /\ \A i, j \in 1 .. Cardinality(S) : i < j => s[i] < s[j]

\* Bounded sets of numbers are finite.
LEMMA Finite ==
    ASSUME NEW n \in Nat, NEW S \in SUBSET (0 .. n)
    PROVE  IsFiniteSet(S) /\ Cardinality(S) \in Nat
<1>1. IsFiniteSet(0 .. n)
  BY FS_Interval
<1>2. IsFiniteSet(S)
  BY <1>1, FS_Subset
<1> QED BY <1>2, FS_CardinalityType

\* The sets without such a list: a least bound of one leads to a contradiction.
LEMMA ListExists ==
    ASSUME NEW n \in Nat, NEW S \in SUBSET (0 .. n)
    PROVE  \E s : Lists(s, S)
<1> DEFINE Bad == {m \in Nat : \E T \in SUBSET (0 .. m - 1) : ~\E s : Lists(s, T)}
<1>a. (~\E s : Lists(s, S)) => n + 1 \in Bad
  <2>1. S \in SUBSET (0 .. (n + 1) - 1) /\ n + 1 \in Nat
    OBVIOUS
  <2> QED BY <2>1
<1> SUFFICES ASSUME Bad # {} PROVE FALSE
  BY <1>a
<1>0. Bad \in SUBSET Nat
  OBVIOUS
<1>1. PICK m \in Bad : \A k \in Bad : m <= k
  BY <1>0, Least
<1>2. PICK T \in SUBSET (0 .. m - 1) : ~\E s : Lists(s, T)
  BY <1>1
<1>m. m \in Nat /\ (\A x \in T : x \in Nat /\ x <= m - 1)
  BY <1>0, <1>2
<1>b. ASSUME NEW U \in SUBSET (0 .. m - 2), m - 1 \in Nat PROVE \E s : Lists(s, U)
  <2>1. (~\E s : Lists(s, U)) => m - 1 \in Bad
    <3>1. (m - 1) - 1 = m - 2
      BY <1>m
    <3> QED BY <1>b, <3>1
  <2> HIDE DEF Bad
  <2>2. m - 1 \in Bad => FALSE
    BY <1>1, <1>m
  <2> QED BY <2>1, <2>2
<1> HIDE DEF Bad
<1>3. CASE m = 0 \/ m - 1 \notin T
  <2>1. CASE T = {}
    <3>1. Cardinality(T) = 0
      BY <2>1, FS_EmptySet
    <3>2. [i \in 1 .. 0 |-> 0] \in [1 .. 0 -> T]
      OBVIOUS
    <3>3. Lists([i \in 1 .. 0 |-> 0], T)
      BY <3>1, <3>2 DEF Lists
    <3> QED BY <1>2, <3>3
  <2>2. CASE T # {}
    <3>1. PICK x \in T : TRUE
      BY <2>2
    <3>2. m - 1 \in Nat /\ m # 0
      BY <3>1, <1>m
    <3>3. \A y \in T : y \in 0 .. m - 2
      BY <1>m, <1>3, <3>2
    <3>4. T \in SUBSET (0 .. m - 2)
      BY <3>3
    <3> QED BY <1>b, <1>2, <3>2, <3>4
  <2> QED BY <2>1, <2>2
<1>4. CASE m # 0 /\ m - 1 \in T
  <2> DEFINE U == T \ {m - 1}
  <2>0. m - 1 \in Nat /\ \A y \in U : y \in 0 .. m - 2
    BY <1>m, <1>4
  <2>1. U \in SUBSET (0 .. m - 2)
    BY <2>0
  <2>3. PICK s : Lists(s, U)
    BY <1>b, <2>0, <2>1
  <2>4. IsFiniteSet(T) /\ Cardinality(T) \in Nat
    <3>1. T \in SUBSET (0 .. m)
      BY <1>m
    <3> QED BY <3>1, <1>m, Finite
  <2>4a. Cardinality(U) \in Nat
    <3>1. U \in SUBSET (0 .. m)
      BY <1>m
    <3> QED BY <3>1, <1>m, Finite
  <2>5. Cardinality(U) = Cardinality(T) - 1
    BY <1>4, <2>4, FS_RemoveElement
  <2> DEFINE c == Cardinality(T)
             d == Cardinality(U)
             t == [i \in 1 .. c |-> IF i = c THEN m - 1 ELSE s[i]]
  <2>5a. c \in Nat /\ d \in Nat /\ c = d + 1
    BY <2>4, <2>4a, <2>5
  <2>5b. s \in [1 .. d -> U] /\ \A i, j \in 1 .. d : i < j => s[i] < s[j]
    BY <2>3 DEF Lists
  <2>U. \A y \in U : y \in T /\ y \in Nat /\ y < m - 1
    BY <2>0, <1>m
  <2> HIDE DEF c, d, U
  <2>6. \A i \in 1 .. c : i # c => i \in 1 .. d /\ s[i] \in U
    BY <2>5a, <2>5b
  <2>7. t \in [1 .. c -> T]
    BY <2>6, <2>U, <1>4
  <2>8. ASSUME NEW i \in 1 .. c, NEW j \in 1 .. c, i < j PROVE t[i] < t[j]
    <3>0. i # c /\ t[i] = s[i]
      BY <2>8, <2>5a
    <3>1. CASE j = c
      <4>1. t[i] \in U /\ t[j] = m - 1
        BY <2>6, <3>0, <3>1
      <4> QED BY <2>U, <4>1
    <3>2. CASE j # c
      <4>1. t[j] = s[j] /\ i \in 1 .. d /\ j \in 1 .. d
        BY <2>6, <3>0, <3>2
      <4> QED BY <3>0, <4>1, <2>8, <2>5b
    <3> QED BY <3>1, <3>2
  <2> HIDE DEF t
  <2>9. Lists(t, T)
    BY <2>7, <2>8 DEF Lists, c
  <2> QED BY <1>2, <2>9
<1> QED BY <1>3, <1>4

\* It has every member of S, and each once.
Counts(s, S) ==
    /\ \A i, j \in 1 .. Cardinality(S) : s[i] = s[j] => i = j
    /\ \A x \in S : \E i \in 1 .. Cardinality(S) : s[i] = x

\* Such a list has every member, and each once.
LEMMA ListFacts ==
    ASSUME NEW n \in Nat, NEW S \in SUBSET (0 .. n), NEW s, Lists(s, S)
    PROVE  Counts(s, S)
<1> DEFINE c == Cardinality(S)
<1>1. IsFiniteSet(S) /\ c \in Nat
  BY Finite
<1>2. s \in [1 .. c -> S] /\ \A i, j \in 1 .. c : i < j => s[i] < s[j]
  BY DEF Lists
<1>2a. \A x \in S : x \in Nat
  OBVIOUS
<1>2b. Cardinality(1 .. c) = c /\ IsFiniteSet(1 .. c)
  BY <1>1, FS_Interval
<1>2c. Cardinality(1 .. c) = Cardinality(S)
  BY <1>2b
<1>2d. s \in Injection(1 .. c, S) => s \in Surjection(1 .. c, S)
  BY <1>1, <1>2b, <1>2c, FS_Injection
<1> HIDE DEF c
<1>3. ASSUME NEW i \in 1 .. c, NEW j \in 1 .. c, s[i] = s[j] PROVE i = j
  <2>1. s[i] \in Nat /\ s[j] \in Nat
    BY <1>2, <1>2a
  <2>2. ~(i < j) /\ ~(j < i)
    BY <1>2, <1>3, <2>1
  <2> QED BY <1>1, <2>2
<1>4. s \in Injection(1 .. c, S)
  BY <1>2, <1>3 DEF Injection, IsInjective
<1>6. s \in Surjection(1 .. c, S)
  BY <1>4, <1>2d
<1>7. \A x \in S : \E i \in 1 .. c : s[i] = x
  BY <1>6 DEF Surjection
<1> QED BY <1>3, <1>7 DEF c, Counts

\* There is only one.
LEMMA ListUnique ==
    ASSUME NEW n \in Nat, NEW S \in SUBSET (0 .. n), NEW s, Lists(s, S), NEW t, Lists(t, S)
    PROVE  s = t
<1>0. Counts(s, S) /\ Counts(t, S)
  BY ListFacts
<1>a. /\ \A i, j \in 1 .. Cardinality(S) : s[i] = s[j] => i = j
      /\ \A x \in S : \E i \in 1 .. Cardinality(S) : s[i] = x
  BY <1>0 DEF Counts
<1>b. /\ \A i, j \in 1 .. Cardinality(S) : t[i] = t[j] => i = j
      /\ \A x \in S : \E i \in 1 .. Cardinality(S) : t[i] = x
  BY <1>0 DEF Counts
<1> DEFINE c == Cardinality(S)
           Bad == {i \in 1 .. c : s[i] # t[i]}
<1>1. c \in Nat
  BY Finite
<1>2. s \in [1 .. c -> S] /\ \A i, j \in 1 .. c : i < j => s[i] < s[j]
  BY DEF Lists
<1>3. t \in [1 .. c -> S] /\ \A i, j \in 1 .. c : i < j => t[i] < t[j]
  BY DEF Lists
<1>4. \A x \in S : x \in Nat
  OBVIOUS
<1>5. /\ \A i, j \in 1 .. c : s[i] = s[j] => i = j
      /\ \A x \in S : \E i \in 1 .. c : s[i] = x
  BY <1>a
<1>6. /\ \A i, j \in 1 .. c : t[i] = t[j] => i = j
      /\ \A x \in S : \E i \in 1 .. c : t[i] = x
  BY <1>b
<1> HIDE DEF c
<1>7. Bad = {}
  <2> SUFFICES ASSUME Bad # {} PROVE FALSE
    OBVIOUS
  <2>0. Bad \in SUBSET Nat
    BY <1>1
  <2>1. PICK i \in Bad : \A j \in Bad : i <= j
    BY <2>0, Least
  <2>i. i \in 1 .. c /\ s[i] # t[i] /\ s[i] \in S /\ t[i] \in S /\ s[i] \in Nat /\ t[i] \in Nat
    BY <1>2, <1>3, <1>4, <2>1
  <2>2. PICK j \in 1 .. c : t[j] = s[i]
    BY <2>i, <1>6
  <2>3. PICK k \in 1 .. c : s[k] = t[i]
    BY <2>i, <1>5
  <2>4. j \notin Bad => j = i
    BY <2>2, <2>i, <1>5
  <2>5. k \notin Bad => k = i
    BY <2>3, <2>i, <1>6
  <2>6. j > i /\ k > i
    BY <2>1, <2>2, <2>3, <2>4, <2>5, <2>i, <1>1
  <2>7. t[i] < t[j] /\ s[i] < s[k]
    BY <1>2, <1>3, <2>6, <2>i
  <2> QED BY <2>2, <2>3, <2>7, <2>i
<1>8. \A i \in 1 .. c : s[i] = t[i]
  BY <1>7
<1>9. s = [i \in 1 .. c |-> s[i]] /\ t = [i \in 1 .. c |-> t[i]]
  BY <1>2, <1>3
<1>10. [i \in 1 .. c |-> s[i]] = [i \in 1 .. c |-> t[i]]
  BY <1>8
<1> QED BY <1>9, <1>10

\* InOrder lists its set.
LEMMA InOrderFacts ==
    ASSUME NEW n \in Nat, NEW S \in SUBSET (0 .. n)
    PROVE  /\ Cardinality(S) \in Nat
           /\ Lists(InOrder(S), S)
           /\ DOMAIN InOrder(S) = 1 .. Cardinality(S)
           /\ Len(InOrder(S)) = Cardinality(S)
           /\ \A i \in 1 .. Cardinality(S) : InOrder(S)[i] \in S
           /\ \A x \in S : \E i \in 1 .. Cardinality(S) : InOrder(S)[i] = x
           /\ \A i, j \in 1 .. Cardinality(S) : InOrder(S)[i] = InOrder(S)[j] => i = j
<1>1. Cardinality(S) \in Nat
  BY Finite
<1>2. PICK s : Lists(s, S)
  BY ListExists
<1>3. s \in [1 .. Cardinality(S) -> S] /\ \A i, j \in DOMAIN s : i < j => s[i] < s[j]
  BY <1>2 DEF Lists
<1>4. /\ InOrder(S) \in [1 .. Cardinality(S) -> S]
      /\ \A i, j \in DOMAIN InOrder(S) : i < j => InOrder(S)[i] < InOrder(S)[j]
  BY <1>3 DEF InOrder
<1>4a. DOMAIN InOrder(S) = 1 .. Cardinality(S)
  BY <1>4
<1>5. Lists(InOrder(S), S)
  BY <1>4, <1>4a DEF Lists
<1>6. Len(InOrder(S)) = Cardinality(S)
  BY <1>1, <1>4a
<1>7. /\ \A x \in S : \E i \in 1 .. Cardinality(S) : InOrder(S)[i] = x
      /\ \A i, j \in 1 .. Cardinality(S) : InOrder(S)[i] = InOrder(S)[j] => i = j
  <2>1. Counts(InOrder(S), S)
    BY <1>5, ListFacts
  <2> QED BY <2>1 DEF Counts
<1>8. \A i \in 1 .. Cardinality(S) : InOrder(S)[i] \in S
  BY <1>4
<1> QED BY <1>1, <1>4a, <1>5, <1>6, <1>7, <1>8

\* Its members stand as they are ordered.
LEMMA InOrderSteps ==
    ASSUME NEW n \in Nat, NEW S \in SUBSET (0 .. n),
           NEW i \in 1 .. Cardinality(S), NEW j \in 1 .. Cardinality(S)
    PROVE  /\ i < j => InOrder(S)[i] < InOrder(S)[j]
           /\ InOrder(S)[i] < InOrder(S)[j] => i < j
<1>1. Lists(InOrder(S), S)
  BY InOrderFacts
<1>2. /\ Cardinality(S) \in Nat /\ InOrder(S) \in [1 .. Cardinality(S) -> S]
      /\ \A k, l \in 1 .. Cardinality(S) : k < l => InOrder(S)[k] < InOrder(S)[l]
  BY <1>1, InOrderFacts DEF Lists
<1>2a. \A x \in S : x \in Nat
  OBVIOUS
<1>3. InOrder(S)[i] \in Nat /\ InOrder(S)[j] \in Nat
  <2>1. InOrder(S)[i] \in S /\ InOrder(S)[j] \in S
    BY <1>2
  <2> QED BY <1>2a, <2>1
<1>4. i \in Nat /\ j \in Nat
  BY <1>2
<1>5. ~(i < j) => i = j \/ j < i
  BY <1>4
<1> QED BY <1>2, <1>3, <1>5

LEMMA FromOne ==
    ASSUME NEW n \in Nat, NEW S \in SUBSET (1 .. n)
    PROVE  S \in SUBSET (0 .. n)
<1>1. \A i \in 1 .. n : i \in 0 .. n
  OBVIOUS
<1> QED BY <1>1

-----------------------------------------------------------------------------
(* Types, and what is known of a request at each place *)

Looking == {"disk", "pages", "persist"}
Walking == {"walk"} \cup Looking
Changes == {"post", "pop", "unlink"}
Busy == Walking \cup Changes \cup {"parts", "table", "group"}

Entry == [row : Nat, name : STRING]
ListingType == [at : Nat, names : SUBSET Entry, read : Nat, suspect : BOOLEAN]
TaskType ==
  [pc : Busy, ask : Asks \cup {WebAsk}, leg : {"source", "dest"}, path : Seq(STRING),
   at : Folders, source : Folders, from : Folders, into : Folders, touched : SUBSET Folders,
   names : SUBSET Entry, start : Nat, read : Nat, clean : BOOLEAN,
   page : [Kinds -> Nat \ {0}], count : [Kinds -> Nat], more : SUBSET Kinds,
   left : Seq(Part), whole : Seq(Part), new : Folders]

\* What the file of a request sends: the parts of an upload, or of a copied file.
Sends(t, R) == t.ask.kind = "put" \/ (t.ask.kind = "copy" /\ ~R[t.source].dir)

\* The numbers of a request are rows of R or the root.
RowsKnown(t, R) ==
  /\ t.at <= Len(R) /\ t.source <= Len(R) /\ t.from <= Len(R)
  /\ t.into <= Len(R) /\ t.new <= Len(R)
  /\ \A p \in t.touched : p <= Len(R)
  /\ \A e \in t.names : e.row \in DOMAIN R

\* A request on its way to a row.
WalkInv(t) ==
  t.pc \in Walking \cup {"group", "parts"} =>
    /\ t.touched = {} /\ t.new = Root
    /\ t.ask.kind # "web"
    /\ t.ask.kind # "put" => t.left = <<>>
    /\ t.ask.kind = "put" => t.left = t.ask.parts /\ t.whole = t.ask.parts /\ t.leg = "dest"
    /\ t.pc \in Walking => t.path # <<>>
    /\ t.leg = "dest" => t.ask.kind \in {"move", "copy", "mkcol", "put"}
    /\ t.leg = "dest" /\ t.ask.kind \in {"move", "copy"} => t.source # Root
    /\ t.pc = "group" => t.ask.kind = "copy" /\ t.source # Root

\* A request that changes something.
ChangeInv(t, R) ==
  /\ t.pc \in {"parts", "table", "group"} => t.source # Root /\ ~R[t.source].dir
  /\ t.pc \in Changes =>
       /\ t.ask.kind # "get"
       /\ t.ask.kind \in {"delete", "move", "copy"} => t.source # Root
       /\ t.left # <<>> => Sends(t, R)
       /\ t.ask.kind = "web" => t.pc # "post"
  /\ t.pc = "post" /\ Sends(t, R) => t.left # <<>>
  /\ t.pc = "pop" /\ t.ask.kind = "delete" => ~R[t.source].live
  /\ t.pc \in {"pop", "unlink"} /\ t.ask.kind \in {"put", "copy", "mkcol"} =>
       t.touched = {t.into}

TaskOK(t, R) == t = Idle \/ (t \in TaskType /\ RowsKnown(t, R) /\ WalkInv(t) /\ ChangeInv(t, R))

NamesOK(names, R) == names \in SUBSET Entry /\ \A e \in names : e.row \in DOMAIN R
ListingOK(c, R) == c = NoListing \/ (c \in ListingType /\ NamesOK(c.names, R))
CacheOK(cache, R) ==
  /\ DOMAIN cache = Folders
  /\ \A p \in Folders : ListingOK(cache[p], R) /\ (p > Len(R) => cache[p] = NoListing)

RowsOK(R) ==
  /\ R \in Seq(RowType) /\ Len(R) <= MaxRows
  /\ \A i \in DOMAIN R : /\ R[i].parent <= Len(R)
                         /\ ~R[i].dir => R[i].parts # <<>>

TypeInv ==
  /\ RowsOK(rows) /\ CacheOK(memory, rows) /\ CacheOK(disk, rows)
  /\ tables \in [1 .. MaxRows -> [parts : Seq(Part), whole : BOOLEAN]]
  /\ DOMAIN task = Workers /\ \A w \in Workers : TaskOK(task[w], rows)
  /\ clock \in Nat /\ asked \in Nat /\ restarts \in Nat /\ lost \in Nat

\* Root is a folder, and a row of R is a folder number.
LEMMA FolderFacts ==
    /\ Root = 0 /\ Root \in Folders
    /\ \A x : x \in Folders <=> x \in Nat /\ x <= MaxRows
    /\ TTL \in Nat /\ TTL > 0 /\ PAGE_SIZE \in Nat /\ PAGE_SIZE > 0 /\ MaxRows \in Nat
BY DriveAssumption DEF Root, Folders

\* What the assumption says of a request.
LEMMA AskFacts ==
    ASSUME NEW ask \in Asks
    PROVE  /\ ask.kind \in {"get", "delete", "move", "copy", "mkcol", "put"}
           /\ ask.path \in Seq(STRING) /\ ask.path # <<>> /\ ask.fresh \in BOOLEAN
           /\ ask.kind \in {"move", "copy"} => ask.dest \in Seq(STRING) /\ ask.dest # <<>>
           /\ ask.kind = "put" => ask.parts \in Seq(Part) /\ ask.parts # <<>>
           /\ ask.kind = "put" => IsInjective(ask.parts)
BY DriveAssumption

\* The front and the tail of a path are paths, and its ends are names.
LEMMA PathFacts ==
    ASSUME NEW path \in Seq(STRING), path # <<>>
    PROVE  /\ Front(path) \in Seq(STRING)
           /\ Last(path) \in STRING
           /\ Head(path) \in STRING
           /\ Tail(path) \in Seq(STRING)
           /\ Len(path) > 1 => Tail(path) # <<>>
           /\ Len(path) = 1 \/ Len(path) > 1
           /\ Len(path) = 1 => Front(path) = <<>>
           /\ Len(path) > 1 => Front(path) # <<>>
<1>1. Len(path) \in Nat /\ Len(path) > 0
  OBVIOUS
<1> DEFINE n == Len(path) - 1
<1>a. n \in Nat /\ n <= Len(path) /\ Front(path) = SubSeq(path, 1, n)
  BY <1>1 DEF Front
<1>b. SubSeq(path, 1, n) \in Seq(STRING) /\ Len(SubSeq(path, 1, n)) = n
  <2> HIDE DEF n
  <2> QED BY <1>a, <1>1
<1>2. Front(path) \in Seq(STRING) /\ Len(Front(path)) = Len(path) - 1
  BY <1>a, <1>b
<1>3. Last(path) \in STRING
  BY <1>1 DEF Last
<1>4. Tail(path) \in Seq(STRING) /\ Head(path) \in STRING /\ Len(Tail(path)) = Len(path) - 1
  BY <1>1
<1> HIDE DEF n
<1>5. Len(path) = 1 => Front(path) = <<>>
  BY <1>2
<1>6. Len(path) > 1 => Front(path) # <<>> /\ Tail(path) # <<>>
  BY <1>2, <1>4
<1> QED BY <1>1, <1>2, <1>3, <1>4, <1>5, <1>6

\* Looking a name up in a listing gives a row, or the root.
LEMMA NewestFacts ==
    ASSUME NEW R, RowsOK(R), NEW names, NamesOK(names, R), NEW name
    PROVE  Newest(names, name) \in Nat /\ Newest(names, name) <= Len(R)
<1> DEFINE ids == {e.row : e \in {x \in names : x.name = name}}
<1>1. Len(R) \in Nat /\ DOMAIN R = 1 .. Len(R)
  BY DEF RowsOK
<1>2. ids \in SUBSET (1 .. Len(R))
  BY <1>1 DEF NamesOK
<1>3. Newest(names, name) = IF ids = {} THEN Root ELSE Max(ids)
  BY DEF Newest
<1> HIDE DEF ids
<1>4. CASE ids = {}
  BY <1>1, <1>3, <1>4, FolderFacts
<1>5. CASE ids # {}
  <2>1. Max(ids) \in ids
    BY <1>1, <1>2, <1>5, MaxFacts
  <2>2. \A x \in ids : x \in Nat /\ x <= Len(R)
    BY <1>1, <1>2
  <2> QED BY <1>3, <1>5, <2>1, <2>2
<1> QED BY <1>4, <1>5

\* A row of the table.
LEMMA RowFacts ==
    ASSUME NEW R, RowsOK(R), NEW i \in Nat, i # Root, i <= Len(R)
    PROVE  /\ i \in DOMAIN R /\ R[i] \in RowType
           /\ R[i].parent \in Nat /\ R[i].parent <= Len(R) /\ R[i].parent \in Folders
           /\ R[i].name \in STRING /\ R[i].dir \in BOOLEAN /\ R[i].live \in BOOLEAN
           /\ R[i].split \in BOOLEAN /\ R[i].parts \in Seq(Part) /\ R[i].whole \in Seq(Part)
           /\ ~R[i].dir => R[i].parts # <<>>
<1>1. i \in DOMAIN R /\ R[i] \in RowType
  BY FolderFacts DEF RowsOK
<1>2. R[i].parent <= Len(R) /\ (~R[i].dir => R[i].parts # <<>>)
  BY <1>1 DEF RowsOK
<1> QED BY <1>1, <1>2, FolderFacts DEF RowType

-----------------------------------------------------------------------------
(* Walking a path *)

\* What becomes of a request that walks on: it ends, or waits at its next place.
Went(t, r, R) ==
  r # Idle =>
    /\ r.pc \in {"walk", "group", "post", "parts"} /\ r.ask = t.ask /\ r.new = Root
    /\ t.ask.kind = "put" => r.left = t.left /\ r.whole = t.whole
    /\ r.pc = "post" /\ t.ask.kind = "copy" /\ ~R[r.source].dir =>
         /\ ~R[r.source].split
         /\ r.left = << <<0, R[r.source].parts[1][2]>> >>
         /\ r.whole = R[r.source].parts

\* The folder a change goes to is known.
LEMMA ReadyFacts ==
    ASSUME RowsOK(rows), NEW t \in TaskType, RowsKnown(t, rows), WalkInv(t),
           t.pc = "walk", t.leg = "dest" \/ t.ask.kind # "put",
           t.ask.kind \in {"move", "copy", "mkcol", "put"},
           t.ask.kind \in {"move", "copy"} => t.source # Root,
           NEW folder \in Nat, folder <= Len(rows)
    PROVE  TaskOK(Ready(t, folder), rows) /\ Went(t, Ready(t, folder), rows)
<1> DEFINE file == t.ask.kind = "copy" /\ ~rows[t.source].dir
           u == [t EXCEPT !.into = folder, !.pc = "post"]
           g == [u EXCEPT !.pc = "group"]
           q == rows[t.source].parts
           l == << <<0, q[1][2]>> >>
           o == [u EXCEPT !.left = l, !.whole = q]
<1>1. folder \in Folders
  BY FolderFacts DEF RowsOK
<1>2. u \in TaskType /\ g \in TaskType
  BY <1>1 DEF TaskType, Busy, Changes, Walking
<1>3. file => q \in Seq(Part) /\ q # <<>> /\ t.source \in DOMAIN rows
  <2>1. t.source \in Nat /\ t.source <= Len(rows)
    BY FolderFacts DEF TaskType, RowsKnown
  <2> QED BY <2>1, RowFacts
<1>4. file => l \in Seq(Part) /\ l # <<>>
  BY <1>3 DEF Part
<1>5. file => o \in TaskType
  <2> HIDE DEF u, l, q, file
  <2> QED BY <1>2, <1>3, <1>4 DEF TaskType
<1> DEFINE v == Ready(t, folder)
<1>6. v = IF file THEN (IF rows[t.source].split THEN g ELSE o) ELSE u
  BY DEF Ready
<1>7. /\ u.pc = "post" /\ u.ask = t.ask /\ u.leg = t.leg /\ u.path = t.path /\ u.at = t.at
      /\ u.source = t.source /\ u.from = t.from /\ u.into = folder /\ u.new = t.new
      /\ u.touched = t.touched /\ u.names = t.names /\ u.left = t.left /\ u.whole = t.whole
  BY DEF TaskType
<1>8. /\ g.pc = "group" /\ g.ask = t.ask /\ g.leg = t.leg /\ g.path = t.path /\ g.at = t.at
      /\ g.source = t.source /\ g.from = t.from /\ g.into = folder /\ g.new = t.new
      /\ g.touched = t.touched /\ g.names = t.names /\ g.left = t.left /\ g.whole = t.whole
  BY DEF TaskType
<1>9. /\ o.pc = "post" /\ o.ask = t.ask /\ o.leg = t.leg /\ o.path = t.path /\ o.at = t.at
      /\ o.source = t.source /\ o.from = t.from /\ o.into = folder /\ o.new = t.new
      /\ o.touched = t.touched /\ o.names = t.names /\ o.left = l /\ o.whole = q
  <2> HIDE DEF l, q
  <2> QED BY DEF TaskType
<1>10. /\ t.touched = {} /\ t.new = Root /\ t.ask.kind # "web"
       /\ t.ask.kind # "put" => t.left = <<>>
       /\ t.ask.kind = "put" => t.left = t.ask.parts /\ t.whole = t.ask.parts /\ t.leg = "dest"
  BY DEF WalkInv, Walking
<1>11. t.ask.kind = "put" => t.left # <<>>
  <2>1. t.ask.kind = "put" => t.ask \in Asks
    BY DEF TaskType, WebAsk
  <2> QED BY <2>1, <1>10, AskFacts
<1>12. ASSUME NEW x \in {u, g, o} PROVE RowsKnown(x, rows)
  <2> HIDE DEF u, g, o
  <2> QED BY <1>7, <1>8, <1>9 DEF RowsKnown
<1> HIDE DEF u, g, o, l, q
<1>13. CASE ~file
  <2>1. v = u
    BY <1>6, <1>13
  <2>2. WalkInv(u) /\ ChangeInv(u, rows)
    BY <1>7, <1>10, <1>11, <1>13 DEF WalkInv, ChangeInv, Walking, Looking, Changes, Sends
  <2> QED BY <1>2, <1>7, <1>10, <1>12, <1>13, <2>1, <2>2 DEF TaskOK, Went
<1>14. CASE file /\ rows[t.source].split
  <2>1. v = g
    BY <1>6, <1>14
  <2>2. WalkInv(g) /\ ChangeInv(g, rows)
    BY <1>8, <1>10, <1>11, <1>14 DEF WalkInv, ChangeInv, Walking, Looking, Changes, Sends
  <2> QED BY <1>2, <1>8, <1>10, <1>12, <1>14, <2>1, <2>2 DEF TaskOK, Went
<1>15. CASE file /\ ~rows[t.source].split
  <2>1. v = o
    BY <1>6, <1>15
  <2>2. WalkInv(o) /\ ChangeInv(o, rows)
    BY <1>4, <1>9, <1>10, <1>11, <1>15 DEF WalkInv, ChangeInv, Walking, Looking, Changes, Sends
  <2>3. TaskOK(o, rows) /\ o # Idle
    BY <1>5, <1>9, <1>12, <1>15, <2>2 DEF TaskOK, Idle
  <2> QED BY <1>9, <1>10, <1>15, <2>1, <2>3 DEF l, q, Went
<1> QED BY <1>13, <1>14, <1>15

\* The path has led to a row, or to none.
LEMMA ArriveFacts ==
    ASSUME RowsOK(rows), NEW t \in TaskType, RowsKnown(t, rows), WalkInv(t), t.pc = "walk",
           NEW row \in Nat, row <= Len(rows)
    PROVE  TaskOK(Arrive(t, row), rows) /\ Went(t, Arrive(t, row), rows)
<1> DEFINE kind == t.ask.kind
           t2 == [t EXCEPT !.source = row, !.from = t.at]
           dest == Front(IF kind = "mkcol" THEN t.ask.path ELSE t.ask.dest)
           parent == IF row # Root /\ rows[row].dir THEN row ELSE Root
           a == Arrive(t, row)
           parts == [t2 EXCEPT !.pc = "parts"]
           post == [t2 EXCEPT !.pc = "post"]
           on == [t2 EXCEPT !.leg = "dest", !.path = dest, !.at = Root, !.pc = "walk"]
<1>1. row \in Folders /\ Root \in Nat /\ Root <= Len(rows) /\ Root \in Folders
  BY FolderFacts DEF RowsOK
<1>2. t2 \in TaskType /\ parts \in TaskType /\ post \in TaskType
  BY <1>1 DEF TaskType, Busy, Changes, Walking
<1>3. t.ask \in Asks /\ kind \in {"get", "delete", "move", "copy", "mkcol", "put"}
  <2>1. t.ask \in Asks
    BY DEF TaskType, WebAsk, WalkInv, Walking
  <2> QED BY <2>1, AskFacts
<1>4. kind \in {"move", "copy", "mkcol"} => dest \in Seq(STRING)
  BY <1>3, AskFacts, PathFacts
<1>5. kind \in {"move", "copy", "mkcol"} => on \in TaskType
  <2> HIDE DEF t2, dest
  <2>1. ASSUME dest \in Seq(STRING) PROVE on \in TaskType
    BY <1>1, <1>2, <2>1 DEF TaskType, Busy, Changes, Walking
  <2> QED BY <1>4, <2>1
<1>6. /\ t.touched = {} /\ t.new = Root
      /\ kind # "put" => t.left = <<>>
      /\ kind = "put" => t.left = t.ask.parts /\ t.whole = t.ask.parts /\ t.leg = "dest"
      /\ t.leg = "dest" => kind \in {"move", "copy", "mkcol", "put"}
      /\ t.leg = "dest" /\ kind \in {"move", "copy"} => t.source # Root
      /\ t.leg \in {"source", "dest"}
  BY DEF WalkInv, Walking, TaskType
<1>7. /\ t2.pc = "walk" /\ t2.ask = t.ask /\ t2.leg = t.leg /\ t2.path = t.path /\ t2.at = t.at
      /\ t2.source = row /\ t2.from = t.at /\ t2.into = t.into /\ t2.new = t.new
      /\ t2.touched = t.touched /\ t2.names = t.names /\ t2.left = t.left /\ t2.whole = t.whole
  BY DEF TaskType
<1> DEFINE Good(x) == TaskOK(x, rows) /\ Went(t, x, rows)
<1> SUFFICES Good(a)
  OBVIOUS
<1>8. Good(Idle)
  BY DEF TaskOK, Went
<1>9. ASSUME NEW folder \in Nat, folder <= Len(rows),
             t.leg = "dest", kind \in {"move", "copy", "mkcol", "put"}
      PROVE  Good(Ready(t, folder))
  BY <1>6, <1>9, ReadyFacts
<1>10. CASE t.leg = "dest"
  <2>1. CASE kind \in {"move", "copy"}
    <3>1. a = Ready(t, row)
      BY <1>10, <2>1 DEF Arrive
    <3> QED BY <1>9, <1>10, <2>1, <3>1
  <2>2. CASE kind \in {"mkcol", "put"}
    <3>1. a = IF parent = Root THEN Idle ELSE Ready(t, parent)
      BY <1>10, <2>2 DEF Arrive
    <3>2. parent \in Nat /\ parent <= Len(rows)
      BY <1>1
    <3> HIDE DEF parent, Good, a
    <3> QED BY <1>8, <1>9, <1>10, <2>2, <3>1, <3>2
  <2> QED BY <1>6, <1>10, <2>1, <2>2
<1>11. CASE t.leg = "source" /\ (IF kind = "mkcol" THEN row # Root ELSE row = Root)
  <2>1. a = Idle
    BY <1>11 DEF Arrive
  <2> QED BY <1>8, <2>1
<1> HIDE DEF t2
<1>12. RowsKnown(t2, rows)
  BY <1>7 DEF RowsKnown
<1> HIDE DEF dest
<1>13. CASE t.leg = "source" /\ (IF kind = "mkcol" THEN row = Root ELSE row # Root) /\ kind = "get"
  <2>1. a = IF rows[row].dir THEN Idle ELSE parts
    BY <1>13 DEF Arrive, t2
  <2>2. ASSUME ~rows[row].dir PROVE Good(parts)
    <3>1. /\ parts.pc = "parts" /\ parts.ask = t.ask /\ parts.leg = t.leg /\ parts.at = t.at
          /\ parts.source = row /\ parts.from = t.at /\ parts.into = t.into /\ parts.new = t.new
          /\ parts.touched = t.touched /\ parts.names = t.names /\ parts.left = t.left
      BY <1>2, <1>7 DEF TaskType
    <3> HIDE DEF parts
    <3>2. RowsKnown(parts, rows)
      BY <1>7, <1>12, <3>1 DEF RowsKnown
    <3>3. WalkInv(parts) /\ ChangeInv(parts, rows)
      BY <1>6, <1>13, <2>2, <3>1 DEF WalkInv, ChangeInv, Walking, Looking, Changes
    <3> QED BY <1>2, <1>6, <1>13, <3>1, <3>2, <3>3 DEF TaskOK, Went
  <2> HIDE DEF Good, parts, a
  <2> QED BY <1>8, <2>1, <2>2
<1>14. CASE /\ t.leg = "source" /\ kind = "delete"
            /\ IF kind = "mkcol" THEN row = Root ELSE row # Root
  <2>1. a = post
    BY <1>14 DEF Arrive, t2
  <2>2. Good(post)
    <3>1. /\ post.pc = "post" /\ post.ask = t.ask /\ post.leg = t.leg /\ post.at = t.at
          /\ post.source = row /\ post.from = t.at /\ post.into = t.into /\ post.new = t.new
          /\ post.touched = t.touched /\ post.names = t.names /\ post.left = t.left
      BY <1>2, <1>7 DEF TaskType
    <3> HIDE DEF post
    <3>2. RowsKnown(post, rows)
      BY <1>7, <1>12, <3>1 DEF RowsKnown
    <3>3. WalkInv(post) /\ ChangeInv(post, rows)
      BY <1>6, <1>14, <3>1 DEF WalkInv, ChangeInv, Walking, Looking, Changes, Sends
    <3> QED BY <1>2, <1>6, <1>14, <3>1, <3>2, <3>3 DEF TaskOK, Went
  <2> QED BY <2>1, <2>2
<1>15. CASE /\ t.leg = "source" /\ (IF kind = "mkcol" THEN row = Root ELSE row # Root)
            /\ kind \in {"move", "copy", "mkcol"}
  <2>1. a = IF dest = <<>> THEN Ready(t2, Root) ELSE on
    BY <1>15 DEF Arrive, t2, dest
  <2>2. WalkInv(t2)
    <3>1. t.path # <<>>
      BY DEF WalkInv, Walking
    <3> QED BY <1>6, <1>7, <1>15, <3>1 DEF WalkInv, Walking, Looking
  <2>3. Good(Ready(t2, Root))
    <3>1. TaskOK(Ready(t2, Root), rows) /\ Went(t2, Ready(t2, Root), rows)
      BY <1>1, <1>2, <1>7, <1>12, <1>15, <2>2, ReadyFacts
    <3> QED BY <1>7, <3>1 DEF Went
  <2>4. ASSUME dest # <<>> PROVE Good(on)
    <3>1. /\ on.pc = "walk" /\ on.ask = t.ask /\ on.leg = "dest" /\ on.at = Root
          /\ on.source = row /\ on.from = t.at /\ on.into = t.into /\ on.new = t.new
          /\ on.touched = t.touched /\ on.names = t.names /\ on.left = t.left
          /\ on.path = dest
      BY <1>2, <1>7 DEF TaskType
    <3>0. on \in TaskType
      BY <1>5, <1>15
    <3> HIDE DEF on
    <3>2. RowsKnown(on, rows)
      BY <1>1, <1>7, <1>12, <3>1 DEF RowsKnown
    <3>3. WalkInv(on) /\ ChangeInv(on, rows)
      BY <1>6, <1>15, <2>4, <3>1 DEF WalkInv, ChangeInv, Walking, Looking, Changes
    <3> QED BY <1>6, <1>15, <3>0, <3>1, <3>2, <3>3 DEF TaskOK, Went
  <2> HIDE DEF Good, on, a
  <2> QED BY <2>1, <2>3, <2>4
<1> QED BY <1>3, <1>6, <1>10, <1>11, <1>13, <1>14, <1>15

\* The listing of the folder at hand has been read.
LEMMA DescendFacts ==
    ASSUME RowsOK(rows), NEW t, TaskOK(t, rows), t # Idle, t.pc \in {"walk", "disk", "persist"},
           NEW names, NamesOK(names, rows)
    PROVE  TaskOK(Descend(t, names), rows) /\ Went(t, Descend(t, names), rows)
<1> DEFINE row == Newest(names, Head(t.path))
           t2 == [t EXCEPT !.pc = "walk", !.names = {}, !.start = 0, !.read = 0, !.clean = TRUE,
                           !.page = NoPage.page, !.count = NoPage.count]
           on == [t2 EXCEPT !.path = Tail(t.path), !.at = row]
           d == Descend(t, names)
<1>1. t \in TaskType /\ RowsKnown(t, rows) /\ WalkInv(t)
  BY DEF TaskOK
<1>2. NoPage.page \in [Kinds -> Nat \ {0}] /\ NoPage.count \in [Kinds -> Nat]
  BY DEF NoPage
<1>3. t2 \in TaskType
  <2> DEFINE a == NoPage.page b == NoPage.count
  <2> HIDE DEF a, b
  <2>1. [t EXCEPT !.pc = "walk", !.names = {}, !.start = 0, !.read = 0, !.clean = TRUE,
                  !.page = a, !.count = b] \in TaskType
    BY <1>1, <1>2 DEF TaskType, Busy, Walking, a, b
  <2> QED BY <2>1 DEF a, b
<1>4. /\ t2.pc = "walk" /\ t2.ask = t.ask /\ t2.leg = t.leg /\ t2.path = t.path /\ t2.at = t.at
      /\ t2.source = t.source /\ t2.from = t.from /\ t2.into = t.into /\ t2.new = t.new
      /\ t2.touched = t.touched /\ t2.names = {} /\ t2.left = t.left /\ t2.whole = t.whole
  BY <1>1 DEF TaskType
<1> HIDE DEF t2
<1>5. t.path \in Seq(STRING) /\ t.path # <<>> /\ t.ask.kind # "web"
  BY <1>1 DEF TaskType, WalkInv, Walking, Looking
<1>6. row \in Nat /\ row <= Len(rows)
  BY NewestFacts
<1>7. RowsKnown(t2, rows)
  BY <1>1, <1>4 DEF RowsKnown
<1>8. WalkInv(t2)
  BY <1>1, <1>4, <1>5 DEF WalkInv, Walking, Looking
<1>9. ASSUME NEW x \in Nat, x <= Len(rows)
      PROVE  TaskOK(Arrive(t2, x), rows) /\ Went(t, Arrive(t2, x), rows)
  <2>1. TaskOK(Arrive(t2, x), rows) /\ Went(t2, Arrive(t2, x), rows)
    BY <1>3, <1>4, <1>7, <1>8, <1>9, ArriveFacts
  <2> QED BY <1>4, <2>1 DEF Went
<1>10. Root \in Nat /\ Root <= Len(rows)
  BY FolderFacts DEF RowsOK
<1>11. CASE Len(t.path) = 1
  <2>1. d = Arrive(t2, row)
    BY <1>11 DEF Descend, t2
  <2> QED BY <1>6, <1>9, <2>1
<1>12. CASE Len(t.path) > 1 /\ row # Root /\ rows[row].dir
  <2>1. d = on
    BY <1>12 DEF Descend, t2
  <2>2. row \in Folders /\ Tail(t.path) \in Seq(STRING) /\ Tail(t.path) # <<>>
    <3> HIDE DEF row
    <3>1. row <= MaxRows
      BY <1>6, FolderFacts DEF RowsOK
    <3> QED BY <1>5, <1>6, <1>12, <3>1, PathFacts, FolderFacts
  <2> HIDE DEF row
  <2>3. on \in TaskType
    BY <1>3, <2>2 DEF TaskType
  <2>4. /\ on.pc = "walk" /\ on.ask = t.ask /\ on.leg = t.leg /\ on.path = Tail(t.path)
        /\ on.at = row /\ on.source = t.source /\ on.from = t.from /\ on.into = t.into
        /\ on.new = t.new /\ on.touched = t.touched /\ on.names = {} /\ on.left = t.left
        /\ on.whole = t.whole
    BY <1>3, <1>4 DEF TaskType
  <2> HIDE DEF on
  <2>5. RowsKnown(on, rows)
    BY <1>4, <1>6, <1>7, <2>4 DEF RowsKnown
  <2>6. WalkInv(on)
    BY <1>4, <1>8, <2>2, <2>4 DEF WalkInv, Walking, Looking
  <2>7. ChangeInv(on, rows)
    BY <2>4 DEF ChangeInv, Changes
  <2>8. Went(t, on, rows)
    BY <1>4, <1>8, <2>4 DEF Went, WalkInv, Walking
  <2> QED BY <2>1, <2>3, <2>5, <2>6, <2>7, <2>8 DEF TaskOK
<1>13. CASE ~(Len(t.path) = 1) /\ ~(Len(t.path) > 1 /\ row # Root /\ rows[row].dir)
  <2>1. d = Arrive(t2, Root)
    BY <1>13 DEF Descend, t2
  <2> QED BY <1>9, <1>10, <2>1
<1> QED BY <1>11, <1>12, <1>13

-----------------------------------------------------------------------------
(* What a call does to the rows *)

Folder(R, p) == p = Root \/ (p \in DOMAIN R /\ R[p].dir /\ R[p].live)
Kids(R, p) == {i \in DOMAIN R : R[i].live /\ R[i].parent = p}

\* Rows are added at the end, and none changes what it is or comes back to life.
Grows(R, E) ==
  /\ RowsOK(E) /\ Len(R) <= Len(E) /\ Len(E) <= Len(R) + 1
  /\ \A i \in DOMAIN R : /\ E[i].dir = R[i].dir /\ E[i].split = R[i].split
                         /\ E[i].whole = R[i].whole /\ (E[i].live => R[i].live)

\* Only the folders in S show the change.
Stays(R, E, S) ==
  \A p \in Folders :
    p <= Len(R) /\ p \notin S /\ Folder(E, p) =>
      /\ Folder(R, p) /\ Kids(E, p) = Kids(R, p)
      /\ \A i \in Kids(R, p) : E[i].name = R[i].name

\* A row is thrown away, with the rows under it.
LEMMA KillFacts ==
    ASSUME RowsOK(rows), NEW k \in DOMAIN rows, NEW E,
           E = [i \in DOMAIN rows |-> IF i \in Subtree(k) THEN [rows[i] EXCEPT !.live = FALSE]
                                      ELSE rows[i]]
    PROVE  /\ Grows(rows, E) /\ Stays(rows, E, {rows[k].parent})
           /\ ~E[k].live /\ Len(E) = Len(rows)
           /\ \A i \in DOMAIN rows : E[i].parts = rows[i].parts
           /\ Folder(E, rows[k].parent) =>
                /\ Folder(rows, rows[k].parent)
                /\ Kids(E, rows[k].parent) = Kids(rows, rows[k].parent) \ {k}
                /\ \A i \in Kids(rows, rows[k].parent) : E[i].name = rows[i].name
<1>1. rows \in Seq(RowType) /\ Len(rows) \in Nat /\ DOMAIN rows = 1 .. Len(rows)
  BY DEF RowsOK
<1>2. \A i \in DOMAIN rows :
        /\ rows[i] \in RowType
        /\ E[i] = IF i = k \/ rows[i].parent = k THEN [rows[i] EXCEPT !.live = FALSE] ELSE rows[i]
  BY <1>1 DEF Subtree
<1>3. ASSUME NEW i \in DOMAIN rows
      PROVE  /\ E[i] \in RowType
             /\ E[i].dir = rows[i].dir /\ E[i].split = rows[i].split /\ E[i].whole = rows[i].whole
             /\ E[i].parts = rows[i].parts /\ E[i].name = rows[i].name
             /\ E[i].parent = rows[i].parent
             /\ E[i].live <=> (rows[i].live /\ i # k /\ rows[i].parent # k)
  <2>1. rows[i] \in RowType
    BY <1>2
  <2>2. CASE i = k \/ rows[i].parent = k
    <3>1. E[i] = [rows[i] EXCEPT !.live = FALSE]
      BY <1>2, <2>2
    <3> QED BY <2>1, <2>2, <3>1 DEF RowType
  <2>3. CASE i # k /\ rows[i].parent # k
    <3>1. E[i] = rows[i]
      BY <1>2, <2>3
    <3> QED BY <2>1, <2>3, <3>1 DEF RowType
  <2> QED BY <2>2, <2>3
<1>4. E \in Seq(RowType) /\ Len(E) = Len(rows) /\ DOMAIN E = DOMAIN rows
  <2>1. E \in [1 .. Len(rows) -> RowType]
    BY <1>1, <1>3
  <2>2. E \in Seq(RowType)
    BY <1>1, <2>1
  <2> QED BY <1>1, <2>1, <2>2
<1>5. RowsOK(E)
  BY <1>3, <1>4 DEF RowsOK
<1>6. Grows(rows, E)
  BY <1>1, <1>3, <1>4, <1>5 DEF Grows
<1>7. ASSUME NEW p, Folder(E, p)
      PROVE  /\ p # k /\ Folder(rows, p)
             /\ Kids(E, p) = Kids(rows, p) \ {k}
  <2>0. ~E[k].live /\ k # Root
    <3>1. ~E[k].live
      BY <1>3
    <3>2. k # 0
      BY <1>1
    <3> QED BY <3>1, <3>2 DEF Root
  <2>1. p # k
    BY <1>7, <2>0 DEF Folder
  <2>2. Folder(rows, p)
    <3>1. CASE p = Root
      BY <3>1 DEF Folder
    <3>2. CASE p # Root
      <4>1. p \in DOMAIN rows /\ E[p].dir /\ E[p].live
        BY <1>4, <1>7, <3>2 DEF Folder
      <4>2. rows[p].dir /\ rows[p].live
        BY <1>3, <4>1
      <4> QED BY <4>1, <4>2 DEF Folder
    <3> QED BY <3>1, <3>2
  <2>3. \A i \in DOMAIN rows :
          E[i].live /\ E[i].parent = p <=> rows[i].live /\ rows[i].parent = p /\ i # k
    BY <1>3, <2>1
  <2> QED BY <1>4, <2>1, <2>2, <2>3 DEF Kids
<1>8. \A p : p # rows[k].parent => k \notin Kids(rows, p)
  BY DEF Kids
<1>9. \A p : \A i \in Kids(rows, p) : E[i].name = rows[i].name
  BY <1>3 DEF Kids
<1>10. Stays(rows, E, {rows[k].parent})
  BY <1>7, <1>8, <1>9 DEF Stays
<1> QED BY <1>3, <1>4, <1>6, <1>7, <1>9, <1>10

\* Row k gets a new name in the folder `into'.
Moved(E, k, into) ==
  /\ k \in DOMAIN rows /\ into \in Folders /\ into <= Len(rows)
  /\ \E name \in STRING :
       E = [rows EXCEPT ![k] = [rows[k] EXCEPT !.parent = into, !.name = name]]

\* A row is moved.
LEMMA MoveFacts ==
    ASSUME RowsOK(rows), NEW E, NEW k, NEW into, Moved(E, k, into)
    PROVE  /\ Grows(rows, E) /\ Stays(rows, E, {rows[k].parent, into}) /\ Len(E) = Len(rows)
           /\ \A i \in DOMAIN rows : E[i].parts = rows[i].parts
<1>0. k \in DOMAIN rows /\ into \in Folders /\ into <= Len(rows)
  BY DEF Moved
<1>n. PICK name \in STRING :
        E = [rows EXCEPT ![k] = [rows[k] EXCEPT !.parent = into, !.name = name]]
  BY DEF Moved
<1> DEFINE m == [rows[k] EXCEPT !.parent = into, !.name = name]
<1>2. E = [rows EXCEPT ![k] = m] /\ m = [rows[k] EXCEPT !.parent = into, !.name = name]
  BY <1>n
<1>1. rows \in Seq(RowType) /\ Len(rows) \in Nat /\ DOMAIN rows = 1 .. Len(rows)
  BY DEF RowsOK
<1>a. rows[k] \in RowType
  BY <1>0, <1>1
<1>3. m \in RowType
  BY <1>0, <1>a DEF RowType
<1> HIDE DEF m
<1>4. E \in Seq(RowType) /\ Len(E) = Len(rows) /\ DOMAIN E = DOMAIN rows
  BY <1>0, <1>1, <1>2, <1>3
<1>5. ASSUME NEW i \in DOMAIN rows
      PROVE  /\ E[i].dir = rows[i].dir /\ E[i].split = rows[i].split /\ E[i].whole = rows[i].whole
             /\ E[i].parts = rows[i].parts /\ E[i].live = rows[i].live
             /\ i # k => E[i].name = rows[i].name /\ E[i].parent = rows[i].parent
             /\ i = k => E[i].parent = into
  <2>1. rows[i] \in RowType
    BY <1>1
  <2>2. CASE i = k
    <3>1. E[i] = [rows[i] EXCEPT !.parent = into, !.name = name]
      BY <1>0, <1>1, <1>2, <2>2
    <3> QED BY <2>1, <2>2, <3>1 DEF RowType
  <2>3. CASE i # k
    <3>1. E[i] = rows[i]
      BY <1>0, <1>1, <1>2, <2>3
    <3> QED BY <2>3, <3>1
  <2> QED BY <2>2, <2>3
<1>6. RowsOK(E)
  BY <1>0, <1>4, <1>5 DEF RowsOK
<1>7. Grows(rows, E)
  BY <1>1, <1>4, <1>5, <1>6 DEF Grows
<1>8. ASSUME NEW p, p \notin {rows[k].parent, into}, Folder(E, p)
      PROVE  /\ Folder(rows, p) /\ Kids(E, p) = Kids(rows, p)
             /\ \A i \in Kids(rows, p) : E[i].name = rows[i].name
  <2>1. Folder(rows, p)
    BY <1>4, <1>5, <1>8 DEF Folder
  <2>2. \A i \in DOMAIN rows :
          /\ E[i].live /\ E[i].parent = p <=> rows[i].live /\ rows[i].parent = p
          /\ rows[i].parent = p => i # k
    BY <1>5, <1>8
  <2>3. Kids(E, p) = Kids(rows, p)
    BY <1>4, <2>2 DEF Kids
  <2>4. \A i \in Kids(rows, p) : E[i].name = rows[i].name
    BY <1>5, <2>2 DEF Kids
  <2> QED BY <2>1, <2>3, <2>4
<1>9. Stays(rows, E, {rows[k].parent, into})
  BY <1>8 DEF Stays
<1> QED BY <1>4, <1>5, <1>7, <1>9

\* A row is added.
LEMMA AddFacts ==
    ASSUME RowsOK(rows), NEW r \in RowType, r.parent <= Len(rows), ~r.dir => r.parts # <<>>,
           NEW E, E = Append(rows, r), Len(E) <= MaxRows
    PROVE  /\ Grows(rows, E) /\ Stays(rows, E, {r.parent}) /\ Len(E) = Len(rows) + 1
           /\ E[Len(E)] = r
           /\ \A i \in DOMAIN rows : E[i] = rows[i]
<1>1. rows \in Seq(RowType) /\ Len(rows) \in Nat /\ DOMAIN rows = 1 .. Len(rows)
  BY DEF RowsOK
<1>2. /\ E \in Seq(RowType) /\ Len(E) = Len(rows) + 1 /\ E[Len(rows) + 1] = r
      /\ \A i \in 1 .. Len(rows) : E[i] = rows[i]
  BY <1>1
<1>3. DOMAIN E = 1 .. Len(rows) + 1
  BY <1>2
<1>4. \A i \in DOMAIN E : i \in DOMAIN rows \/ (i = Len(rows) + 1 /\ i \notin DOMAIN rows)
  BY <1>1, <1>3
<1>5. RowsOK(E)
  <2>1. ASSUME NEW i \in DOMAIN E PROVE E[i].parent <= Len(E) /\ (~E[i].dir => E[i].parts # <<>>)
    <3>1. CASE i \in DOMAIN rows
      <4>1. /\ rows[i].parent \in Nat /\ rows[i].parent <= Len(rows)
            /\ ~rows[i].dir => rows[i].parts # <<>>
        <5>1. i \in Nat /\ i # Root /\ i <= Len(rows)
          BY <1>1, <3>1, FolderFacts
        <5> QED BY <5>1, RowFacts
      <4> QED BY <1>1, <1>2, <3>1, <4>1
    <3>2. CASE i = Len(rows) + 1
      <4>1. r.parent \in Nat
        BY FolderFacts DEF RowType
      <4> QED BY <1>1, <1>2, <3>2, <4>1
    <3> QED BY <1>4, <3>1, <3>2
  <2> QED BY <1>2, <2>1 DEF RowsOK
<1>6. Grows(rows, E)
  BY <1>1, <1>2, <1>5 DEF Grows
<1>7. ASSUME NEW p \in Folders, p <= Len(rows), p # r.parent, Folder(E, p)
      PROVE  /\ Folder(rows, p) /\ Kids(E, p) = Kids(rows, p)
             /\ \A i \in Kids(rows, p) : E[i].name = rows[i].name
  <2>0. p \in Nat /\ (p = Root \/ p \in DOMAIN rows)
    BY <1>1, <1>7, FolderFacts
  <2>1. Folder(rows, p)
    BY <1>1, <1>2, <1>7, <2>0 DEF Folder
  <2>2. Kids(E, p) = Kids(rows, p)
    <3>1. ASSUME NEW i \in Kids(E, p) PROVE i \in Kids(rows, p)
      <4>1. i \in DOMAIN rows
        BY <1>2, <1>4, <1>7, <3>1 DEF Kids
      <4> QED BY <1>1, <1>2, <3>1, <4>1 DEF Kids
    <3>2. ASSUME NEW i \in Kids(rows, p) PROVE i \in Kids(E, p)
      BY <1>1, <1>2, <1>3, <3>2 DEF Kids
    <3> QED BY <3>1, <3>2
  <2>3. \A i \in Kids(rows, p) : E[i].name = rows[i].name
    BY <1>1, <1>2 DEF Kids
  <2> QED BY <2>1, <2>2, <2>3
<1>8. Stays(rows, E, {r.parent})
  BY <1>7 DEF Stays
<1> QED BY <1>1, <1>2, <1>6, <1>8

\* A part is added to a file.
LEMMA PartFacts ==
    ASSUME RowsOK(rows), NEW k \in DOMAIN rows, NEW part \in Part, NEW S,
           NEW E, E = [rows EXCEPT ![k].parts = Append(@, part)]
    PROVE  /\ Grows(rows, E) /\ Stays(rows, E, S) /\ Len(E) = Len(rows)
           /\ E[k].parts = Append(rows[k].parts, part)
           /\ \A i \in DOMAIN rows : i # k => E[i] = rows[i]
<1>1. rows \in Seq(RowType) /\ Len(rows) \in Nat /\ DOMAIN rows = 1 .. Len(rows)
  BY DEF RowsOK
<1> DEFINE q == Append(rows[k].parts, part)
<1>a. rows[k] \in RowType
  BY <1>1
<1>b. rows[k].parts \in Seq(Part)
  BY <1>a DEF RowType
<1>2. q \in Seq(Part) /\ q # <<>>
  BY <1>b
<1>3. E = [rows EXCEPT ![k] = [rows[k] EXCEPT !.parts = q]]
  BY <1>1
<1> HIDE DEF q
<1>4. [rows[k] EXCEPT !.parts = q] \in RowType
  BY <1>a, <1>2 DEF RowType
<1>5. E \in Seq(RowType) /\ Len(E) = Len(rows) /\ DOMAIN E = DOMAIN rows
  BY <1>1, <1>3, <1>4
<1>6. ASSUME NEW i \in DOMAIN rows
      PROVE  /\ E[i].dir = rows[i].dir /\ E[i].split = rows[i].split /\ E[i].whole = rows[i].whole
             /\ E[i].live = rows[i].live /\ E[i].name = rows[i].name /\ E[i].parent = rows[i].parent
             /\ i # k => E[i] = rows[i]
             /\ i = k => E[i].parts = q
  <2>1. rows[i] \in RowType
    BY <1>1
  <2>2. CASE i = k
    <3>1. E[i] = [rows[i] EXCEPT !.parts = q]
      BY <1>1, <1>3, <2>2
    <3> QED BY <2>1, <2>2, <3>1 DEF RowType
  <2>3. CASE i # k
    <3>1. E[i] = rows[i]
      BY <1>1, <1>3, <2>3
    <3> QED BY <2>3, <3>1
  <2> QED BY <2>2, <2>3
<1>7. RowsOK(E)
  BY <1>2, <1>5, <1>6 DEF RowsOK
<1>8. Grows(rows, E)
  BY <1>1, <1>5, <1>6, <1>7 DEF Grows
<1>9. \A p : (Folder(E, p) => Folder(rows, p)) /\ Kids(E, p) = Kids(rows, p)
  BY <1>5, <1>6 DEF Folder, Kids
<1>10. \A p : \A i \in Kids(rows, p) : E[i].name = rows[i].name
  BY <1>6 DEF Kids
<1>11. Stays(rows, E, S)
  BY <1>9, <1>10 DEF Stays
<1> QED BY <1>5, <1>6, <1>8, <1>11 DEF q

\* The call of a request.
Kills(t, E) ==
  t.ask.kind = "delete" =>
    /\ Len(E) = Len(rows) /\ Effect(t).touched = {rows[t.source].parent}
    /\ ~E[t.source].live
    /\ Folder(E, rows[t.source].parent) =>
         /\ Folder(rows, rows[t.source].parent)
         /\ Kids(E, rows[t.source].parent) = Kids(rows, rows[t.source].parent) \ {t.source}
         /\ \A i \in Kids(rows, rows[t.source].parent) : E[i].name = rows[i].name
Registers(t, E) ==
  IF t.left = <<>> THEN \A i \in DOMAIN rows : E[i].parts = rows[i].parts
  ELSE IF t.new = Root
  THEN /\ Len(E) = Len(rows) + 1 /\ E[Len(E)] = FileRow(t, NewName(t))
       /\ \A i \in DOMAIN rows : E[i] = rows[i]
  ELSE /\ Len(E) = Len(rows) /\ E[t.new].parts = Append(rows[t.new].parts, Head(t.left))
       /\ \A i \in DOMAIN rows : i # t.new => E[i] = rows[i]
\* A new row that is not a file's has no parts to be exact about.
AddsDir(t, E) ==
  t.left = <<>> /\ Len(E) > Len(rows) => E[Len(E)].dir

\* Whatever is called: rows are added at the end, only the folders it touches show it, and
\* the parts of a file that is sent are added to its own row.
LEMMA EffectFacts ==
    ASSUME RowsOK(rows), NEW t, TaskOK(t, rows), t.pc = "post", Len(Effect(t).rows) <= MaxRows
    PROVE  /\ Grows(rows, Effect(t).rows) /\ Stays(rows, Effect(t).rows, Effect(t).touched)
           /\ Effect(t).touched \in SUBSET Folders
           /\ \A p \in Effect(t).touched : p <= Len(rows)
           /\ t.ask.kind \in {"put", "copy", "mkcol"} => Effect(t).touched = {t.into}
           /\ Kills(t, Effect(t).rows) /\ Registers(t, Effect(t).rows)
           /\ AddsDir(t, Effect(t).rows)
<1> DEFINE E == Effect(t).rows
           T == Effect(t).touched
           kind == t.ask.kind
<1>1. t \in TaskType /\ RowsKnown(t, rows) /\ ChangeInv(t, rows)
  BY DEF TaskOK, Idle
<1>2. t.ask \in Asks /\ kind \in {"delete", "move", "copy", "mkcol", "put"}
  <2>1. t.ask \in Asks
    BY <1>1 DEF TaskType, WebAsk, ChangeInv, Changes
  <2>2. kind # "get"
    BY <1>1 DEF ChangeInv, Changes
  <2> QED BY <2>1, <2>2, AskFacts
<1>3. /\ kind \in {"delete", "move", "copy"} => t.source # Root
      /\ t.left # <<>> => Sends(t, rows)
      /\ Sends(t, rows) => t.left # <<>>
  BY <1>1 DEF ChangeInv, Changes
<1>4. /\ t.source \in Nat /\ t.source <= Len(rows)
      /\ t.into \in Folders /\ t.into <= Len(rows)
      /\ t.new \in Nat /\ t.new <= Len(rows) /\ t.left \in Seq(Part) /\ t.whole \in Seq(Part)
  BY <1>1, FolderFacts DEF TaskType, RowsKnown
<1>5. kind \in {"delete", "move", "copy"} =>
        /\ t.source \in DOMAIN rows /\ rows[t.source].parent \in Folders
        /\ rows[t.source].parent <= Len(rows)
  BY <1>3, <1>4, RowFacts
<1>6. NewName(t) \in STRING \/ kind = "delete"
  BY <1>2, AskFacts, PathFacts DEF NewName
<1>7. CASE kind = "delete"
  <2>1. E = [i \in DOMAIN rows |-> IF i \in Subtree(t.source) THEN [rows[i] EXCEPT !.live = FALSE]
                                   ELSE rows[i]]
    BY <1>7 DEF Effect, NewDir
  <2>2. T = {rows[t.source].parent}
    BY <1>7 DEF Effect, NewDir
  <2>3. t.left = <<>>
    BY <1>3, <1>7 DEF Sends
  <2> HIDE DEF E
  <2>4. /\ Grows(rows, E) /\ Stays(rows, E, {rows[t.source].parent})
        /\ ~E[t.source].live /\ Len(E) = Len(rows)
        /\ \A i \in DOMAIN rows : E[i].parts = rows[i].parts
        /\ Folder(E, rows[t.source].parent) =>
             /\ Folder(rows, rows[t.source].parent)
             /\ Kids(E, rows[t.source].parent) = Kids(rows, rows[t.source].parent) \ {t.source}
             /\ \A i \in Kids(rows, rows[t.source].parent) : E[i].name = rows[i].name
    BY <1>5, <1>7, <2>1, KillFacts
  <2>5. Kills(t, E)
    BY <2>2, <2>4 DEF Kills
  <2>6. Registers(t, E) /\ AddsDir(t, E)
    BY <2>3, <2>4 DEF Registers, AddsDir, RowsOK
  <2>7. Stays(rows, E, T) /\ T \in SUBSET Folders /\ \A p \in T : p <= Len(rows)
    BY <1>5, <1>7, <2>2, <2>4
  <2> QED BY <1>7, <2>4, <2>5, <2>6, <2>7 DEF E
<1>8. CASE kind = "move"
  <2>1. E = [rows EXCEPT ![t.source] = [@ EXCEPT !.parent = t.into, !.name = NewName(t)]]
    BY <1>8 DEF Effect, NewDir
  <2>2. T = {rows[t.source].parent, t.into}
    BY <1>8 DEF Effect, NewDir
  <2>3. t.left = <<>>
    BY <1>3, <1>8 DEF Sends
  <2> HIDE DEF E
  <2>4. /\ Grows(rows, E) /\ Stays(rows, E, {rows[t.source].parent, t.into})
        /\ Len(E) = Len(rows)
        /\ \A i \in DOMAIN rows : E[i].parts = rows[i].parts
    <3>1. Moved(E, t.source, t.into)
      BY <1>4, <1>5, <1>6, <1>8, <2>1 DEF Moved
    <3> QED BY <3>1, MoveFacts
  <2>6. Registers(t, E) /\ AddsDir(t, E) /\ Kills(t, E)
    BY <1>8, <2>3, <2>4 DEF Registers, AddsDir, RowsOK, Kills
  <2>7. Stays(rows, E, T) /\ T \in SUBSET Folders /\ \A p \in T : p <= Len(rows)
    BY <1>4, <1>5, <1>8, <2>2, <2>4
  <2> QED BY <1>8, <2>4, <2>6, <2>7 DEF E
<1>9. CASE kind \in {"copy", "mkcol", "put"}
  <2>1. T = {t.into}
    BY <1>9 DEF Effect, NewDir
  <2>2. T \in SUBSET Folders /\ \A p \in T : p <= Len(rows)
    BY <1>4, <2>1
  <2>3. Kills(t, E)
    BY <1>9 DEF Kills
  <2>4. CASE NewDir(t)
    <3>1. E = Append(rows, DirRow(t, NewName(t)))
      BY <1>9, <2>4 DEF Effect
    <3>2. DirRow(t, NewName(t)) \in RowType /\ DirRow(t, NewName(t)).dir
          /\ DirRow(t, NewName(t)).parent = t.into
      BY <1>4, <1>6, <1>9 DEF DirRow, RowType
    <3>3. t.left = <<>>
      BY <1>3, <2>4 DEF NewDir, Sends
    <3> HIDE DEF E
    <3>4. /\ Grows(rows, E) /\ Stays(rows, E, {t.into}) /\ Len(E) = Len(rows) + 1
          /\ E[Len(E)] = DirRow(t, NewName(t))
          /\ \A i \in DOMAIN rows : E[i] = rows[i]
      <4>1. Len(E) <= MaxRows
        BY DEF E
      <4> QED BY <1>4, <3>1, <3>2, <4>1, AddFacts
    <3>5. Registers(t, E) /\ AddsDir(t, E)
      BY <3>2, <3>3, <3>4 DEF Registers, AddsDir
    <3> QED BY <1>9, <2>1, <2>2, <2>3, <3>4, <3>5 DEF E
  <2>5. CASE ~NewDir(t)
    <3>1. t.left # <<>>
      BY <1>3, <1>9, <2>5 DEF NewDir, Sends
    <3>2. Head(t.left) \in Part
      BY <1>4, <3>1
    <3>3. CASE t.new = Root
      <4>1. E = Append(rows, FileRow(t, NewName(t)))
        BY <1>9, <2>5, <3>3 DEF Effect
      <4>2. /\ FileRow(t, NewName(t)) \in RowType
            /\ FileRow(t, NewName(t)).parent = t.into
            /\ FileRow(t, NewName(t)).parts # <<>>
        <5>1. <<Head(t.left)>> \in Seq(Part) /\ <<Head(t.left)>> # <<>>
          BY <3>2
        <5>2. (Len(t.left) > 1) \in BOOLEAN
          OBVIOUS
        <5> QED BY <1>4, <1>6, <1>9, <5>1, <5>2 DEF FileRow, RowType
      <4> HIDE DEF E
      <4>3. /\ Grows(rows, E) /\ Stays(rows, E, {t.into}) /\ Len(E) = Len(rows) + 1
            /\ E[Len(E)] = FileRow(t, NewName(t))
            /\ \A i \in DOMAIN rows : E[i] = rows[i]
        <5>1. Len(E) <= MaxRows
          BY DEF E
        <5> QED BY <1>4, <4>1, <4>2, <5>1, AddFacts
      <4>4. Registers(t, E) /\ AddsDir(t, E)
        BY <3>1, <3>3, <4>3 DEF Registers, AddsDir
      <4> QED BY <1>9, <2>1, <2>2, <2>3, <4>3, <4>4 DEF E
    <3>4. CASE t.new # Root
      <4>1. E = [rows EXCEPT ![t.new].parts = Append(@, Head(t.left))]
        BY <1>9, <2>5, <3>4 DEF Effect
      <4>2. t.new \in DOMAIN rows
        BY <1>4, <3>4, RowFacts
      <4> HIDE DEF E
      <4>3. /\ Grows(rows, E) /\ Stays(rows, E, {t.into}) /\ Len(E) = Len(rows)
            /\ E[t.new].parts = Append(rows[t.new].parts, Head(t.left))
            /\ \A i \in DOMAIN rows : i # t.new => E[i] = rows[i]
        BY <3>2, <4>1, <4>2, PartFacts
      <4>4. Registers(t, E) /\ AddsDir(t, E)
        BY <3>1, <3>4, <4>3 DEF Registers, AddsDir
      <4> QED BY <1>9, <2>1, <2>2, <2>3, <4>3, <4>4 DEF E
    <3> QED BY <3>3, <3>4
  <2> QED BY <2>4, <2>5
<1> QED BY <1>2, <1>7, <1>8, <1>9

-----------------------------------------------------------------------------
(* Every action keeps the types *)

\* What a request keeps while it looks a folder up.
Keeps(t, u) ==
  /\ u.ask = t.ask /\ u.leg = t.leg /\ u.path = t.path /\ u.at = t.at /\ u.source = t.source
  /\ u.from = t.from /\ u.into = t.into /\ u.touched = t.touched /\ u.left = t.left
  /\ u.whole = t.whole /\ u.new = t.new
Only(w) == DOMAIN task' = Workers /\ \A v \in Workers : v # w => task'[v] = task[v]

\* The task of a worker.
LEMMA TaskFacts ==
    ASSUME TypeInv, NEW w \in Workers
    PROVE  /\ TaskOK(task[w], rows)
           /\ task[w].pc # "idle" => task[w] # Idle
           /\ task[w] # Idle => /\ task[w] \in TaskType /\ task[w].pc \in Busy
                                /\ RowsKnown(task[w], rows) /\ WalkInv(task[w])
                                /\ ChangeInv(task[w], rows)
<1>1. TaskOK(task[w], rows)
  BY DEF TypeInv
<1>2. Idle.pc = "idle"
  BY DEF Idle
<1>3. task[w] \in TaskType => task[w].pc \in Busy
  BY DEF TaskType
<1> QED BY <1>1, <1>2, <1>3 DEF TaskOK

\* A listing that is there.
LEMMA CacheFacts ==
    ASSUME NEW R, RowsOK(R), NEW cache, CacheOK(cache, R), NEW p \in Folders, cache[p] # NoListing
    PROVE  /\ cache[p] \in ListingType /\ NamesOK(cache[p].names, R)
           /\ cache[p].at \in Nat /\ cache[p].read \in Nat /\ cache[p].suspect \in BOOLEAN
           /\ p <= Len(R)
<1>1. cache[p] \in ListingType /\ NamesOK(cache[p].names, R) /\ ~(p > Len(R))
  BY DEF CacheOK, ListingOK
<1>2. cache[p].at \in Nat /\ cache[p].read \in Nat /\ cache[p].suspect \in BOOLEAN
  BY <1>1 DEF ListingType
<1>3. p \in Nat /\ Len(R) \in Nat
  BY FolderFacts DEF RowsOK
<1>4. p <= Len(R)
  BY <1>1, <1>3
<1> QED BY <1>1, <1>2, <1>4

\* A request that looks a folder up goes on doing so.
LEMMA LooksOn ==
    ASSUME NEW R, NEW t, TaskOK(t, R), t.pc \in Walking,
           NEW u \in TaskType, Keeps(t, u), u.pc \in Looking, NamesOK(u.names, R)
    PROVE  TaskOK(u, R)
<1>1. t # Idle /\ RowsKnown(t, R) /\ WalkInv(t)
  BY DEF TaskOK, Idle, Walking, Looking
<1>2. RowsKnown(u, R)
  BY <1>1 DEF RowsKnown, Keeps, NamesOK
<1>3. WalkInv(u)
  <2>1. u.pc \in Walking /\ u.pc # "group"
    BY DEF Walking, Looking
  <2> QED BY <1>1, <2>1 DEF WalkInv, Keeps
<1>4. ChangeInv(u, R)
  BY DEF ChangeInv, Changes, Looking
<1> QED BY <1>2, <1>3, <1>4 DEF TaskOK

\* A request comes in.
LEMMA BeginFacts ==
    ASSUME TypeInv, NEW w \in Workers, NEW ask \in Asks, Begin(w, ask)
    PROVE  /\ Only(w) /\ TaskOK(task'[w], rows) /\ task[w] = Idle
           /\ task'[w] # Idle /\ task'[w].pc \in {"walk", "post"} /\ task'[w].new = Root
           /\ task'[w].ask = ask
           /\ task'[w].pc = "post" => ask.kind = "put"
           /\ ask.kind = "put" => task'[w].left = ask.parts /\ task'[w].whole = ask.parts
<1> DEFINE s == Start(ask)
           p == [s EXCEPT !.pc = "post", !.left = ask.parts, !.whole = ask.parts]
           q == [s EXCEPT !.leg = "dest", !.path = Front(ask.path),
                          !.left = ask.parts, !.whole = ask.parts]
           u == IF ask.kind # "put" THEN s ELSE IF Len(ask.path) = 1 THEN p ELSE q
<1>1. /\ ask.kind \in {"get", "delete", "move", "copy", "mkcol", "put"}
      /\ ask.path \in Seq(STRING) /\ ask.path # <<>>
      /\ ask.kind = "put" => ask.parts \in Seq(Part) /\ ask.parts # <<>>
  BY AskFacts
<1>2. /\ Front(ask.path) \in Seq(STRING)
      /\ Len(ask.path) # 1 => Front(ask.path) # <<>>
  BY <1>1, PathFacts
<1>3. s \in TaskType
  <2>1. NoPage.page \in [Kinds -> Nat \ {0}] /\ NoPage.count \in [Kinds -> Nat]
    BY DEF NoPage
  <2> QED BY <1>1, <2>1, FolderFacts DEF Start, TaskType, Busy, Walking
<1>4. /\ s.pc = "walk" /\ s.ask = ask /\ s.leg = "source" /\ s.path = ask.path /\ s.at = Root
      /\ s.source = Root /\ s.from = Root /\ s.into = Root /\ s.touched = {} /\ s.names = {}
      /\ s.left = <<>> /\ s.whole = <<>> /\ s.new = Root
  BY DEF Start
<1> HIDE DEF s
<1>5. ask.kind = "put" => p \in TaskType /\ q \in TaskType
  <2>1. ASSUME ask.parts \in Seq(Part) PROVE p \in TaskType /\ q \in TaskType
    BY <1>2, <1>3, <2>1 DEF TaskType, Busy, Walking, Changes
  <2> QED BY <1>1, <2>1
<1>6. /\ p.pc = "post" /\ p.ask = ask /\ p.leg = "source" /\ p.path = ask.path /\ p.at = Root
      /\ p.source = Root /\ p.from = Root /\ p.into = Root /\ p.touched = {} /\ p.names = {}
      /\ p.left = ask.parts /\ p.whole = ask.parts /\ p.new = Root
  BY <1>3, <1>4 DEF TaskType
<1>7. /\ q.pc = "walk" /\ q.ask = ask /\ q.leg = "dest" /\ q.path = Front(ask.path)
      /\ q.at = Root /\ q.source = Root /\ q.from = Root /\ q.into = Root /\ q.touched = {}
      /\ q.names = {} /\ q.left = ask.parts /\ q.whole = ask.parts /\ q.new = Root
  BY <1>3, <1>4 DEF TaskType
<1>8. task' = [task EXCEPT ![w] = u] /\ task[w] = Idle
  BY DEF Begin, s
<1> HIDE DEF p, q
<1>9. \A x \in {s, p, q} : RowsKnown(x, rows)
  <2>1. Root <= Len(rows)
    BY DEF TypeInv, RowsOK, Root
  <2> QED BY <1>4, <1>6, <1>7, <2>1 DEF RowsKnown
<1>10. ask.kind # "put" => TaskOK(s, rows)
  <2>1. (WalkInv(s) /\ ChangeInv(s, rows)) \/ ask.kind = "put"
    <3>1. ask.kind # "web"
      BY <1>1
    <3> QED BY <1>1, <1>4, <3>1 DEF WalkInv, ChangeInv, Walking, Changes
  <2> QED BY <1>3, <1>9, <2>1 DEF TaskOK
<1>11. ask.kind = "put" => TaskOK(p, rows)
  <2>1. ask.kind = "put" => WalkInv(p) /\ ChangeInv(p, rows)
    BY <1>1, <1>6 DEF WalkInv, ChangeInv, Walking, Looking, Changes, Sends
  <2> QED BY <1>5, <1>9, <2>1 DEF TaskOK
<1>12. ask.kind = "put" /\ Len(ask.path) # 1 => TaskOK(q, rows)
  <2>1. ask.kind = "put" /\ Len(ask.path) # 1 => WalkInv(q) /\ ChangeInv(q, rows)
    BY <1>1, <1>2, <1>7 DEF WalkInv, ChangeInv, Walking, Looking, Changes, Sends
  <2> QED BY <1>5, <1>9, <2>1 DEF TaskOK
<1>13. task'[w] = u /\ Only(w)
  BY <1>8 DEF TypeInv, Only
<1>14. CASE ask.kind # "put"
  BY <1>4, <1>8, <1>10, <1>13, <1>14 DEF Idle
<1>15. CASE ask.kind = "put" /\ Len(ask.path) = 1
  BY <1>6, <1>8, <1>11, <1>13, <1>15 DEF Idle
<1>16. CASE ask.kind = "put" /\ Len(ask.path) # 1
  BY <1>7, <1>8, <1>12, <1>13, <1>16 DEF Idle
<1> QED BY <1>14, <1>15, <1>16

\* A request walks on, by a listing in memory, from the disk, or from the backend.
LEMMA WalkFacts ==
    ASSUME TypeInv, NEW w \in Workers, MemoryHit(w) \/ FillMemory(w) \/ Persist(w)
    PROVE  /\ Only(w) /\ task[w] # Idle
           /\ TaskOK(task'[w], rows) /\ Went(task[w], task'[w], rows)
<1> DEFINE t == task[w]
           names == IF t.pc = "walk" THEN memory[t.at].names ELSE t.names
<1>1. t.pc \in {"walk", "disk", "persist"} /\ task' = [task EXCEPT ![w] = Descend(t, names)]
  BY DEF MemoryHit, FillMemory, Persist
<1>2. t # Idle /\ TaskOK(t, rows) /\ t \in TaskType /\ RowsKnown(t, rows)
  BY <1>1, TaskFacts
<1>3. NamesOK(names, rows)
  <2>1. CASE t.pc = "walk"
    <3>1. memory[t.at] # NoListing
      BY <2>1 DEF MemoryHit, FillMemory, Persist, MemoryFresh
    <3>2. t.at \in Folders
      BY <1>2 DEF TaskType
    <3> QED BY <2>1, <3>1, <3>2, CacheFacts DEF TypeInv
  <2>2. CASE t.pc # "walk"
    BY <1>2, <2>2 DEF TaskType, RowsKnown, NamesOK
  <2> QED BY <2>1, <2>2
<1> HIDE DEF names
<1>4. TaskOK(Descend(t, names), rows) /\ Went(t, Descend(t, names), rows)
  BY <1>1, <1>2, <1>3, DescendFacts DEF TypeInv
<1>5. task'[w] = Descend(t, names) /\ Only(w)
  BY <1>1 DEF TypeInv, Only
<1> QED BY <1>2, <1>4, <1>5

\* A listing is taken from the disk.
LEMMA DiskHitFacts ==
    ASSUME TypeInv, NEW w \in Workers, DiskHit(w)
    PROVE  /\ Only(w) /\ TaskOK(task'[w], rows) /\ Keeps(task[w], task'[w])
           /\ task[w] # Idle /\ task[w].pc = "walk" /\ task'[w].pc = "disk"
           /\ task'[w].names = disk[task[w].at].names /\ task'[w].read = disk[task[w].at].read
           /\ task'[w].start = clock
           /\ task'[w].clean <=> ~disk[task[w].at].suspect /\ ~Changing(task[w].at)
           /\ task[w].at \in Folders /\ disk[task[w].at] # NoListing
<1> DEFINE t == task[w]
           n == disk[t.at].names
           r == disk[t.at].read
           c == ~disk[t.at].suspect /\ ~Changing(t.at)
           u == [t EXCEPT !.pc = "disk", !.names = n, !.read = r, !.start = clock, !.clean = c]
<1>1. t.pc = "walk" /\ disk[t.at] # NoListing /\ task' = [task EXCEPT ![w] = u]
  BY DEF DiskHit, DiskFresh
<1>2. t # Idle /\ TaskOK(t, rows) /\ t \in TaskType
  BY <1>1, TaskFacts
<1>3. t.at \in Folders
  BY <1>2 DEF TaskType
<1>4. n \in SUBSET Entry /\ NamesOK(n, rows) /\ r \in Nat /\ c \in BOOLEAN /\ clock \in Nat
  BY <1>1, <1>3, CacheFacts DEF TypeInv, NamesOK
<1>5. task'[w] = u /\ Only(w)
  BY <1>1 DEF TypeInv, Only
<1> HIDE DEF t, n, r, c
<1>6. u \in TaskType
  BY <1>2, <1>4 DEF TaskType, Busy, Walking, Looking
<1>7. /\ Keeps(t, u) /\ u.pc = "disk" /\ u.names = n /\ u.read = r /\ u.start = clock
      /\ u.clean = c
  BY <1>2 DEF TaskType, Keeps
<1>8. TaskOK(u, rows)
  <2> HIDE DEF u
  <2> QED BY <1>1, <1>2, <1>4, <1>6, <1>7, LooksOn DEF Walking, Looking
<1> QED BY <1>1, <1>2, <1>3, <1>5, <1>7, <1>8 DEF t, n, r, c

\* A page of a listing: the members from one place of an ordered list to another.
LEMMA PageFacts ==
    ASSUME RowsOK(rows), NEW p \in Folders, NEW kind \in Kinds, NEW n \in Nat
    PROVE  /\ OfKind(p, kind) \in SUBSET (1 .. Len(rows)) /\ Len(rows) \in Nat
           /\ Cardinality(OfKind(p, kind)) \in Nat
           /\ LET all == InOrder(OfKind(p, kind))
                  c == Cardinality(OfKind(p, kind))
                  to == IF n * PAGE_SIZE <= c THEN n * PAGE_SIZE ELSE c IN
              Page(p, kind, n) = SubSeq(all, (n - 1) * PAGE_SIZE + 1, to)
<1> DEFINE S == OfKind(p, kind)
           c == Cardinality(S)
<1>1. S \in SUBSET (1 .. Len(rows)) /\ Len(rows) \in Nat
  BY DEF RowsOK, OfKind, Children
<1> HIDE DEF S
<1>2. c \in Nat /\ Len(InOrder(S)) = c
  <2>1. S \in SUBSET (0 .. Len(rows))
    BY <1>1, FromOne
  <2> QED BY <1>1, <2>1, InOrderFacts
<1> HIDE DEF c
<1>3. n * PAGE_SIZE \in Nat
  BY FolderFacts
<1>4. Min({n * PAGE_SIZE, c}) = IF n * PAGE_SIZE <= c THEN n * PAGE_SIZE ELSE c
  <2> DEFINE m == n * PAGE_SIZE
  <2>1. m \in Nat
    BY <1>3
  <2> HIDE DEF m
  <2>2. Min({m, c}) = IF m <= c THEN m ELSE c
    BY <1>2, <2>1 DEF Min
  <2> QED BY <2>2 DEF m
<1>5. Page(p, kind, n) = SubSeq(InOrder(S), (n - 1) * PAGE_SIZE + 1, Min({n * PAGE_SIZE, c}))
  BY <1>2 DEF Page, S
<1> QED BY <1>1, <1>2, <1>4, <1>5 DEF S, c

\* How many of c rows are read before page n.
PageCount(n, c) == IF (n - 1) * PAGE_SIZE <= c THEN (n - 1) * PAGE_SIZE ELSE c
\* The batch is page n of the list, where got rows were read before.
Follows(batch, all, n, got, c) ==
  /\ got + Len(batch) = IF n * PAGE_SIZE <= c THEN n * PAGE_SIZE ELSE c
  /\ \A i : i \in ToSet(batch) <=> \E j \in (got + 1) .. (got + Len(batch)) : i = all[j]
  /\ Len(batch) < PAGE_SIZE \/ got + Len(batch) >= c => got + Len(batch) = c

\* The rows of a page, their number, and which page is the last.
LEMMA BatchFacts ==
    ASSUME RowsOK(rows), NEW p \in Folders, NEW kind \in Kinds, NEW n \in Nat, n >= 1,
           NEW got \in Nat, NEW c, c = Cardinality(OfKind(p, kind)), NEW batch,
           batch = Page(p, kind, n),
           NEW all, all = InOrder(OfKind(p, kind))
    PROVE  /\ Len(batch) \in Nat
           /\ ToSet(batch) \subseteq OfKind(p, kind)
           /\ got = PageCount(n, c) => Follows(batch, all, n, got, c)
<1> DEFINE S == OfKind(p, kind)
           a == (n - 1) * PAGE_SIZE
           b == n * PAGE_SIZE
           to == IF b <= c THEN b ELSE c
<1>1. S \in SUBSET (1 .. Len(rows)) /\ Len(rows) \in Nat /\ c \in Nat
      /\ batch = SubSeq(all, a + 1, to)
  BY PageFacts
<1>2. a \in Nat /\ b = a + PAGE_SIZE /\ PAGE_SIZE \in Nat /\ PAGE_SIZE > 0
  BY FolderFacts
<1> HIDE DEF S
<1>3. /\ all \in [1 .. c -> S] /\ Len(all) = c /\ DOMAIN all = 1 .. c
      /\ \A i \in 1 .. c : all[i] \in S
  <2>0. S \in SUBSET (0 .. Len(rows))
    BY <1>1, FromOne
  <2>1. Lists(all, S)
    BY <1>1, <2>0, InOrderFacts DEF S
  <2> QED BY <1>1, <2>1 DEF Lists, S
<1> HIDE DEF a, b, to
<1>4. to \in Nat /\ to <= c
  BY <1>1, <1>2 DEF to
<1>5. CASE to < a + 1
  <2>1. batch = <<>>
    BY <1>1, <1>2, <1>4, <1>5
  <2>2. Len(batch) = 0 /\ ToSet(batch) = {}
    BY <2>1 DEF ToSet
  <2>3. c < a + 1
    BY <1>1, <1>2, <1>5 DEF to
  <2>4. got = (IF a <= c THEN a ELSE c) => got = c /\ to = c
    BY <1>1, <1>2, <2>3 DEF to
  <2>6. got + Len(batch) = got /\ (got + 1) .. (got + Len(batch)) = {}
    BY <2>2
  <2>7. \A i : i \in ToSet(batch) <=> \E j \in (got + 1) .. (got + Len(batch)) : i = all[j]
    BY <2>2, <2>6
  <2>8. got = (IF a <= c THEN a ELSE c) => got + Len(batch) = c /\ got + Len(batch) = to
    BY <2>4, <2>6
  <2>9. Len(batch) \in Nat /\ ToSet(batch) \subseteq S
    BY <2>2
  <2> QED BY <2>7, <2>8, <2>9 DEF a, b, to, S, PageCount, Follows
<1>6. CASE to >= a + 1
  <2>1. /\ Len(batch) = to - a
        /\ \A j \in 1 .. to - a : batch[j] = all[a + j]
    <3>1. all \in Seq(S)
      BY <1>1, <1>3
    <3> QED BY <1>1, <1>2, <1>3, <1>4, <1>6, <3>1
  <2>2. DOMAIN batch = 1 .. to - a
    BY <1>1, <1>2, <1>3, <1>4, <1>6
  <2>3. \A i : i \in ToSet(batch) <=> \E j \in (a + 1) .. to : i = all[j]
    <3>1. ToSet(batch) = {batch[j] : j \in 1 .. to - a}
      BY <2>2 DEF ToSet
    <3>2. ASSUME NEW j \in 1 .. to - a PROVE \E i \in (a + 1) .. to : batch[j] = all[i]
      <4>1. a + j \in (a + 1) .. to
        BY <1>2, <1>4
      <4> QED BY <2>1, <4>1
    <3>3. ASSUME NEW i \in (a + 1) .. to PROVE \E j \in 1 .. to - a : batch[j] = all[i]
      <4>1. i - a \in 1 .. to - a /\ a + (i - a) = i
        BY <1>2, <1>4
      <4>2. batch[i - a] = all[i]
        BY <2>1, <4>1
      <4> QED BY <4>1, <4>2
    <3> QED BY <3>1, <3>2, <3>3
  <2>4. ToSet(batch) \subseteq S
    BY <1>2, <1>3, <1>4, <2>3
  <2>5. Len(batch) \in Nat
    BY <1>2, <1>4, <1>6, <2>1
  <2>6. got = (IF a <= c THEN a ELSE c) => got = a /\ got + Len(batch) = to
    BY <1>1, <1>2, <1>4, <1>6, <2>1
  <2>7. got = (IF a <= c THEN a ELSE c) /\ Len(batch) < PAGE_SIZE => to = c
    BY <1>1, <1>2, <1>4, <1>6, <2>1 DEF to
  <2>8. got = (IF a <= c THEN a ELSE c) /\ got + Len(batch) >= c => to = c
    BY <1>1, <1>2, <1>4, <2>6
  <2>9. got = PageCount(n, c) => Follows(batch, all, n, got, c)
    BY <2>3, <2>6, <2>7, <2>8 DEF a, b, to, PageCount, Follows
  <2> QED BY <2>4, <2>5, <2>9 DEF S
<1> QED BY <1>1, <1>2, <1>4, <1>5, <1>6

\* A folder is listed at the backend.
LEMMA MissFacts ==
    ASSUME TypeInv, NEW w \in Workers, Miss(w)
    PROVE  /\ Only(w) /\ TaskOK(task'[w], rows) /\ Keeps(task[w], task'[w])
           /\ task[w] # Idle /\ task[w].pc = "walk" /\ task'[w].pc = "pages"
           /\ task'[w].start = clock /\ task'[w].read = clock /\ task'[w].names = {}
           /\ task'[w].clean <=> ~Changing(task[w].at)
           /\ task'[w].more = Kinds
           /\ \A k \in Kinds : task'[w].page[k] = 1 /\ task'[w].count[k] = 0
<1> DEFINE t == task[w]
           c == ~Changing(t.at)
           pg == NoPage.page
           ct == NoPage.count
           u == [t EXCEPT !.pc = "pages", !.start = clock, !.read = clock, !.names = {},
                          !.clean = c, !.more = Kinds, !.page = pg, !.count = ct]
<1>1. t.pc = "walk" /\ task' = [task EXCEPT ![w] = u]
  BY DEF Miss
<1>2. t # Idle /\ TaskOK(t, rows) /\ t \in TaskType
  BY <1>1, TaskFacts
<1>3. /\ pg \in [Kinds -> Nat \ {0}] /\ ct \in [Kinds -> Nat] /\ c \in BOOLEAN /\ clock \in Nat
      /\ \A k \in Kinds : pg[k] = 1 /\ ct[k] = 0
  BY DEF NoPage, TypeInv
<1>4. task'[w] = u /\ Only(w)
  BY <1>1 DEF TypeInv, Only
<1> HIDE DEF t, c, pg, ct
<1>5. u \in TaskType
  BY <1>2, <1>3 DEF TaskType, Busy, Walking, Looking
<1>6. /\ Keeps(t, u) /\ u.pc = "pages" /\ u.names = {} /\ u.read = clock /\ u.start = clock
      /\ u.clean = c /\ u.more = Kinds /\ u.page = pg /\ u.count = ct
  BY <1>2 DEF TaskType, Keeps
<1>7. TaskOK(u, rows)
  <2> HIDE DEF u
  <2>1. NamesOK({}, rows)
    BY DEF NamesOK
  <2> QED BY <1>1, <1>2, <1>5, <1>6, <2>1, LooksOn DEF Walking, Looking
<1> HIDE DEF u
<1> QED BY <1>1, <1>2, <1>3, <1>4, <1>6, <1>7 DEF t, c

\* A page of the listing comes.
LEMMA ReadPageFacts ==
    ASSUME TypeInv, NEW w \in Workers, NEW kind \in Kinds, ReadPage(w, kind)
    PROVE  LET t == task[w]
               batch == Page(t.at, kind, t.page[kind])
               got == t.count[kind] + Len(batch)
               last == Len(batch) < PAGE_SIZE \/ got >= Cardinality(OfKind(t.at, kind)) IN
           /\ Only(w) /\ TaskOK(task'[w], rows) /\ Keeps(t, task'[w])
           /\ t # Idle /\ t.pc = "pages" /\ task'[w].pc = "pages" /\ t.at \in Folders
           /\ task'[w].start = t.start /\ task'[w].read = t.read /\ task'[w].clean = t.clean
           /\ \A e : e \in task'[w].names <=> e \in t.names \/ \E i \in ToSet(batch) : e = Name(i)
           /\ \A k \in Kinds :
                /\ task'[w].count[k] = IF k = kind THEN got ELSE t.count[k]
                /\ task'[w].page[k] = IF k = kind THEN t.page[kind] + 1 ELSE t.page[k]
           /\ task'[w].more = IF last THEN t.more \ {kind} ELSE t.more
<1> DEFINE t == task[w]
           batch == Page(t.at, kind, t.page[kind])
           got == t.count[kind] + Len(batch)
           last == Len(batch) < PAGE_SIZE \/ got >= Cardinality(OfKind(t.at, kind))
           n == t.names \cup {Name(i) : i \in ToSet(batch)}
           ct == [t.count EXCEPT ![kind] = got]
           pg == [t.page EXCEPT ![kind] = t.page[kind] + 1]
           m == IF last THEN t.more \ {kind} ELSE t.more
           u == [t EXCEPT !.names = n, !.count = ct, !.page = pg, !.more = m]
<1>1. t.pc = "pages" /\ task' = [task EXCEPT ![w] = u]
  BY DEF ReadPage
<1>2. t # Idle /\ TaskOK(t, rows) /\ t \in TaskType /\ RowsKnown(t, rows)
  BY <1>1, TaskFacts
<1>3. t.at \in Folders /\ t.count \in [Kinds -> Nat] /\ t.page \in [Kinds -> Nat \ {0}]
        /\ t.more \in SUBSET Kinds
      /\ t.names \in SUBSET Entry /\ t.count[kind] \in Nat /\ t.page[kind] \in Nat \ {0}
  BY <1>2 DEF TaskType
<1>4. task'[w] = u /\ Only(w)
  BY <1>1 DEF TypeInv, Only
<1>0. RowsOK(rows)
  BY DEF TypeInv
<1> HIDE DEF t
<1>5. Len(batch) \in Nat /\ ToSet(batch) \subseteq OfKind(t.at, kind)
  <2>1. t.page[kind] \in Nat /\ t.page[kind] >= 1
    BY <1>3
  <2> QED BY <1>0, <1>3, <2>1, BatchFacts
<1>6. n \in SUBSET Entry /\ NamesOK(n, rows)
  <2>1. ASSUME NEW i \in ToSet(batch) PROVE Name(i) \in Entry /\ Name(i).row \in DOMAIN rows
    <3>1. i \in DOMAIN rows
      BY <1>5 DEF OfKind, Children
    <3>2. i \in Nat /\ rows[i].name \in STRING
      <4>1. rows[i] \in RowType /\ i \in Nat
        BY <1>0, <3>1 DEF RowsOK
      <4> QED BY <4>1 DEF RowType
    <3> QED BY <3>1, <3>2 DEF Name, Entry
  <2>2. \A e \in t.names : e.row \in DOMAIN rows
    BY <1>2 DEF RowsKnown
  <2> HIDE DEF batch
  <2> QED BY <1>3, <2>1, <2>2 DEF NamesOK
<1>7. ct \in [Kinds -> Nat] /\ pg \in [Kinds -> Nat \ {0}] /\ m \in SUBSET Kinds
  <2>1. got \in Nat /\ t.page[kind] + 1 \in Nat \ {0}
    BY <1>3, <1>5
  <2> HIDE DEF got, last
  <2> QED BY <1>3, <2>1
<1>n. \A e : e \in n <=> e \in t.names \/ \E i \in ToSet(batch) : e = Name(i)
  OBVIOUS
<1>8. \A k \in Kinds : /\ ct[k] = IF k = kind THEN got ELSE t.count[k]
                       /\ pg[k] = IF k = kind THEN t.page[kind] + 1 ELSE t.page[k]
  BY <1>3
<1> HIDE DEF n, ct, pg, m
<1>9. u \in TaskType
  BY <1>2, <1>6, <1>7 DEF TaskType
<1>10. /\ Keeps(t, u) /\ u.pc = t.pc /\ u.names = n /\ u.read = t.read /\ u.start = t.start
       /\ u.clean = t.clean /\ u.more = m /\ u.page = pg /\ u.count = ct
  BY <1>2 DEF TaskType, Keeps
<1>11. TaskOK(u, rows)
  <2> HIDE DEF u
  <2> QED BY <1>1, <1>2, <1>6, <1>9, <1>10, LooksOn DEF Walking, Looking
<1> HIDE DEF u
<1> QED BY <1>1, <1>2, <1>3, <1>4, <1>n, <1>8, <1>10, <1>11 DEF t, m

\* The listing is kept in memory, and then on disk.
LEMMA KeepListingFacts ==
    ASSUME TypeInv, NEW w \in Workers, KeepListing(w)
    PROVE  /\ Only(w) /\ TaskOK(task'[w], rows) /\ Keeps(task[w], task'[w])
           /\ task[w] # Idle /\ task[w].pc = "pages" /\ task'[w].pc = "persist"
           /\ task'[w].start = task[w].start /\ task'[w].read = task[w].read
           /\ task'[w].clean = task[w].clean /\ task'[w].names = task[w].names
<1> DEFINE t == task[w]
           u == [t EXCEPT !.pc = "persist"]
<1>1. t.pc = "pages" /\ task' = [task EXCEPT ![w] = u]
  BY DEF KeepListing
<1>2. t # Idle /\ TaskOK(t, rows) /\ t \in TaskType /\ RowsKnown(t, rows)
  BY <1>1, TaskFacts
<1>3. task'[w] = u /\ Only(w)
  BY <1>1 DEF TypeInv, Only
<1> HIDE DEF t
<1>4. u \in TaskType
  BY <1>2 DEF TaskType, Busy, Walking, Looking
<1>5. /\ Keeps(t, u) /\ u.pc = "persist" /\ u.names = t.names /\ u.read = t.read
      /\ u.start = t.start /\ u.clean = t.clean
  BY <1>2 DEF TaskType, Keeps
<1>6. NamesOK(t.names, rows)
  BY <1>2 DEF TaskType, RowsKnown, NamesOK
<1>7. TaskOK(u, rows)
  <2> HIDE DEF u
  <2> QED BY <1>1, <1>2, <1>4, <1>5, <1>6, LooksOn DEF Walking, Looking
<1> QED BY <1>1, <1>2, <1>3, <1>5, <1>7 DEF t

\* A request ends without a change.
LEMMA EndFacts ==
    ASSUME TypeInv, NEW w \in Workers, PartsKnown(w) \/ KeepTable(w) \/ PostFails(w)
    PROVE  Only(w) /\ task'[w] = Idle /\ task[w] # Idle /\ task[w].pc \in {"parts", "table", "post"}
<1>1. task[w].pc \in {"parts", "table", "post"} /\ task' = [task EXCEPT ![w] = Idle]
  BY DEF PartsKnown, KeepTable, PostFails
<1> QED BY <1>1, TaskFacts DEF TypeInv, Only

\* The places whose key is new.
First(parts, keys) == {i \in DOMAIN parts : \A j \in 1 .. i - 1 : keys[j] # keys[i]}

\* The first part of every key is a list of parts, and not an empty one.
LEMMA DedupFacts ==
    ASSUME NEW parts \in Seq(Part), NEW keys
    PROVE  /\ First(parts, keys) \in SUBSET (1 .. Len(parts)) /\ Len(parts) \in Nat
           /\ Cardinality(First(parts, keys)) \in Nat
           /\ Lists(InOrder(First(parts, keys)), First(parts, keys))
           /\ DedupBy(parts, keys) \in Seq(Part)
           /\ Len(DedupBy(parts, keys)) = Cardinality(First(parts, keys))
           /\ \A n \in 1 .. Cardinality(First(parts, keys)) :
                DedupBy(parts, keys)[n] = parts[InOrder(First(parts, keys))[n]]
           /\ parts # <<>> => DedupBy(parts, keys) # <<>>
<1> DEFINE F == First(parts, keys)
           order == InOrder(F)
           d == DedupBy(parts, keys)
           c == Cardinality(F)
<1>1. Len(parts) \in Nat /\ DOMAIN parts = 1 .. Len(parts) /\ F \in SUBSET (1 .. Len(parts))
  BY DEF First
<1>2. parts # <<>> => 1 \in F
  BY <1>1 DEF First
<1>3. d = [n \in DOMAIN order |-> parts[order[n]]]
  BY DEF DedupBy, First
<1> HIDE DEF F, d
<1>4. /\ c \in Nat /\ Lists(order, F) /\ DOMAIN order = 1 .. c
      /\ \A i \in 1 .. c : order[i] \in F
      /\ \A x \in F : \E i \in 1 .. c : order[i] = x
  <2>0. Len(parts) \in Nat
    BY <1>1
  <2>1. F \in SUBSET (0 .. Len(parts))
    BY <1>1, FromOne
  <2> QED BY <2>0, <2>1, InOrderFacts
<1> HIDE DEF order, c
<1>5. \A n \in 1 .. c : order[n] \in 1 .. Len(parts)
  BY <1>1, <1>4
<1>6. \A n \in 1 .. c : parts[order[n]] \in Part
  BY <1>1, <1>5
<1>7. d \in [1 .. c -> Part]
  BY <1>3, <1>4, <1>6
<1>8. d \in Seq(Part) /\ Len(d) = c
  BY <1>4, <1>7
<1>9. \A n \in 1 .. c : d[n] = parts[order[n]]
  BY <1>3, <1>4
<1>10. parts # <<>> => c # 0
  <2>1. ASSUME parts # <<>> PROVE \E i \in 1 .. c : order[i] = 1
    BY <1>2, <1>4, <2>1
  <2> QED BY <2>1
<1>11. parts # <<>> => d # <<>>
  BY <1>8, <1>10
<1> QED BY <1>1, <1>4, <1>8, <1>9, <1>11 DEF F, order, d, c

\* The table of a split file is fetched.
LEMMA FetchPartsFacts ==
    ASSUME TypeInv, NEW w \in Workers, FetchParts(w)
    PROVE  /\ Only(w) /\ TaskOK(task'[w], rows)
           /\ task[w] # Idle /\ task[w].pc = "parts" /\ task'[w].pc = "table"
           /\ task'[w].source = task[w].source /\ task'[w].ask = task[w].ask
           /\ task'[w].new = task[w].new /\ task'[w].source \in DOMAIN rows
           /\ ~rows[task[w].source].dir
           /\ task'[w].clean <=> AllThere(task[w].source)
           /\ LET parts == rows[task[w].source].parts IN
              task'[w].left = DedupBy(parts, Identity(parts))
<1> DEFINE t == task[w]
           c == AllThere(t.source)
           parts == rows[t.source].parts
           l == DedupBy(parts, Identity(parts))
           u == [t EXCEPT !.pc = "table", !.clean = c, !.left = l]
<1>1. t.pc = "parts" /\ task' = [task EXCEPT ![w] = u]
  BY DEF FetchParts
<1>2. t # Idle /\ t \in TaskType /\ RowsKnown(t, rows) /\ WalkInv(t) /\ ChangeInv(t, rows)
  BY <1>1, TaskFacts
<1>3. task'[w] = u /\ Only(w)
  BY <1>1 DEF TypeInv, Only
<1>4. t.source # Root /\ ~rows[t.source].dir
  BY <1>1, <1>2 DEF ChangeInv
<1>5. t.source \in DOMAIN rows /\ parts \in Seq(Part)
  <2>1. t.source \in Nat /\ t.source <= Len(rows)
    BY <1>2, FolderFacts DEF TaskType, RowsKnown
  <2> QED BY <1>4, <2>1, RowFacts DEF TypeInv
<1>6. l \in Seq(Part)
  BY <1>5, DedupFacts
<1>7. c \in BOOLEAN
  BY DEF AllThere
<1> HIDE DEF t, c, l
<1>8. u \in TaskType
  BY <1>2, <1>6, <1>7 DEF TaskType, Busy, Walking, Looking
<1>9. u.pc = "table" /\ u.left = l /\ u.clean = c /\ u.names = t.names
  BY <1>2 DEF TaskType
<1>10. /\ u.ask = t.ask /\ u.at = t.at /\ u.source = t.source /\ u.from = t.from
       /\ u.into = t.into /\ u.touched = t.touched /\ u.new = t.new
  BY <1>2 DEF TaskType
<1> HIDE DEF u
<1>11. RowsKnown(u, rows) /\ WalkInv(u) /\ ChangeInv(u, rows)
  <2>1. RowsKnown(u, rows)
    BY <1>2, <1>9, <1>10 DEF RowsKnown
  <2>2. WalkInv(u) /\ ChangeInv(u, rows)
    BY <1>4, <1>9, <1>10 DEF WalkInv, ChangeInv, Walking, Looking, Changes
  <2> QED BY <2>1, <2>2
<1>12. TaskOK(u, rows)
  BY <1>8, <1>11 DEF TaskOK
<1> QED BY <1>1, <1>2, <1>3, <1>4, <1>5, <1>9, <1>10, <1>12 DEF t, c, l

\* The group of a split file is fetched to be copied.
LEMMA FetchGroupFacts ==
    ASSUME TypeInv, NEW w \in Workers, FetchGroup(w)
    PROVE  LET t == task[w]
               group == rows[t.source].parts
               numbers == DedupBy(group, Number(group)) IN
           /\ Only(w) /\ TaskOK(task'[w], rows)
           /\ t # Idle /\ t.pc = "group" /\ task'[w].pc = "post"
           /\ task'[w].source = t.source /\ task'[w].ask = t.ask /\ task'[w].new = Root
           /\ t.source \in DOMAIN rows /\ ~rows[t.source].dir /\ t.ask.kind = "copy"
           /\ task'[w].whole = DedupBy(group, Identity(group))
           /\ task'[w].left = [i \in DOMAIN numbers |-> <<0, numbers[i][2]>>]
<1> DEFINE t == task[w]
           group == rows[t.source].parts
           numbers == DedupBy(group, Number(group))
           h == DedupBy(group, Identity(group))
           l == [i \in DOMAIN numbers |-> <<0, numbers[i][2]>>]
           u == [t EXCEPT !.pc = "post", !.whole = h, !.left = l]
<1>1. t.pc = "group" /\ task' = [task EXCEPT ![w] = u]
  BY DEF FetchGroup
<1>2. t # Idle /\ t \in TaskType /\ RowsKnown(t, rows) /\ WalkInv(t) /\ ChangeInv(t, rows)
  BY <1>1, TaskFacts
<1>3. task'[w] = u /\ Only(w)
  BY <1>1 DEF TypeInv, Only
<1>4. /\ t.source # Root /\ ~rows[t.source].dir /\ t.ask.kind = "copy" /\ t.new = Root
      /\ t.touched = {}
  BY <1>1, <1>2 DEF ChangeInv, WalkInv
<1>5. t.source \in DOMAIN rows /\ group \in Seq(Part) /\ group # <<>>
  <2>1. t.source \in Nat /\ t.source <= Len(rows)
    BY <1>2, FolderFacts DEF TaskType, RowsKnown
  <2> QED BY <1>4, <2>1, RowFacts DEF TypeInv
<1>6. h \in Seq(Part) /\ numbers \in Seq(Part) /\ numbers # <<>>
  <2> HIDE DEF group
  <2> QED BY <1>5, DedupFacts
<1>7. l \in Seq(Part) /\ l # <<>>
  <2> HIDE DEF numbers
  <2>1. \A i \in DOMAIN numbers : <<0, numbers[i][2]>> \in Part
    <3>1. \A i \in DOMAIN numbers : numbers[i] \in Nat \X Nat
      BY <1>6 DEF Part
    <3>2. \A i \in DOMAIN numbers : numbers[i][2] \in Nat
      BY <3>1
    <3> QED BY <3>2 DEF Part
  <2>2. l \in [1 .. Len(numbers) -> Part] /\ Len(numbers) \in Nat /\ Len(numbers) # 0
    BY <1>6, <2>1
  <2>3. l \in Seq(Part) /\ Len(l) = Len(numbers)
    <3> HIDE DEF l
    <3> QED BY <2>2
  <2> HIDE DEF l
  <2> QED BY <2>2, <2>3
<1> HIDE DEF t, h, l
<1>8. u \in TaskType
  BY <1>2, <1>6, <1>7 DEF TaskType, Busy, Changes
<1>9. /\ u.pc = "post" /\ u.left = l /\ u.whole = h /\ u.names = t.names
      /\ u.ask = t.ask /\ u.at = t.at /\ u.source = t.source /\ u.from = t.from
      /\ u.into = t.into /\ u.touched = t.touched /\ u.new = t.new
  BY <1>2 DEF TaskType
<1> HIDE DEF u
<1>10. RowsKnown(u, rows)
  BY <1>2, <1>9 DEF RowsKnown
<1>11. WalkInv(u) /\ ChangeInv(u, rows)
  BY <1>4, <1>7, <1>9 DEF WalkInv, ChangeInv, Walking, Looking, Changes, Sends
<1>12. TaskOK(u, rows)
  BY <1>8, <1>10, <1>11 DEF TaskOK
<1> QED BY <1>1, <1>2, <1>3, <1>4, <1>5, <1>9, <1>12 DEF t, h, l

\* A change spoils the listings of its folders that are under way.
Spoiled(t, S) == IF t.pc \in Looking /\ t.at \in S THEN [t EXCEPT !.clean = FALSE] ELSE t
SameBut(t, u) ==
  /\ Keeps(t, u) /\ u.pc = t.pc /\ u.names = t.names /\ u.start = t.start /\ u.read = t.read
  /\ u.page = t.page /\ u.count = t.count /\ u.more = t.more

\* A spoiled request is what it was, but for a listing that is not clean any more.
LEMMA SpoilFacts ==
    ASSUME NEW R, NEW t, TaskOK(t, R), NEW S
    PROVE  /\ TaskOK(Spoiled(t, S), R)
           /\ Spoiled(t, S) = Idle <=> t = Idle
           /\ t # Idle => SameBut(t, Spoiled(t, S))
           /\ Spoiled(t, S).pc = t.pc
           /\ t.pc \notin Looking => Spoiled(t, S) = t
           /\ t.pc \in Looking /\ Spoiled(t, S).clean => t.at \notin S /\ Spoiled(t, S) = t
<1> DEFINE u == [t EXCEPT !.clean = FALSE]
<1>1. CASE ~(t.pc \in Looking /\ t.at \in S)
  <2>1. Spoiled(t, S) = t
    BY <1>1 DEF Spoiled
  <2> QED BY <1>1, <2>1 DEF SameBut, Keeps
<1>2. CASE t.pc \in Looking /\ t.at \in S
  <2>1. Spoiled(t, S) = u
    BY <1>2 DEF Spoiled
  <2>2. t # Idle /\ t \in TaskType /\ t.pc \in Walking
    BY <1>2 DEF TaskOK, Idle, Looking, Walking
  <2>3. u \in TaskType /\ SameBut(t, u) /\ u.clean = FALSE
    BY <2>2 DEF TaskType, SameBut, Keeps
  <2> HIDE DEF u
  <2>4. NamesOK(u.names, R)
    BY <2>2, <2>3 DEF TaskOK, RowsKnown, NamesOK, SameBut, TaskType
  <2>5. TaskOK(u, R)
    BY <1>2, <2>2, <2>3, <2>4, LooksOn DEF SameBut
  <2>6. u # Idle
    BY <1>2, <2>3 DEF SameBut, Idle, Looking
  <2> QED BY <1>2, <2>1, <2>2, <2>3, <2>5, <2>6 DEF SameBut
<1> QED BY <1>1, <1>2

\* A request at its place stays there as the table grows.
LEMMA TaskStays ==
    ASSUME NEW R, RowsOK(R), NEW E, Grows(R, E), NEW t, TaskOK(t, R)
    PROVE  TaskOK(t, E)
<1> SUFFICES ASSUME t # Idle PROVE TaskOK(t, E)
  BY DEF TaskOK
<1>1. t \in TaskType /\ RowsKnown(t, R) /\ WalkInv(t) /\ ChangeInv(t, R)
  BY DEF TaskOK
<1>2. /\ Len(R) \in Nat /\ Len(E) \in Nat /\ Len(R) <= Len(E)
      /\ DOMAIN R = 1 .. Len(R) /\ DOMAIN E = 1 .. Len(E)
  BY DEF RowsOK, Grows
<1>3. /\ t.at \in Nat /\ t.source \in Nat /\ t.from \in Nat /\ t.into \in Nat /\ t.new \in Nat
      /\ \A p \in t.touched : p \in Nat
  BY <1>1, FolderFacts DEF TaskType
<1>4. RowsKnown(t, E)
  BY <1>1, <1>2, <1>3 DEF RowsKnown
<1>5. t.source # Root => /\ E[t.source].dir = R[t.source].dir
                         /\ E[t.source].live => R[t.source].live
  <2>1. t.source # Root => t.source \in DOMAIN R
    BY <1>1, <1>2, <1>3, FolderFacts DEF RowsKnown
  <2> QED BY <2>1 DEF Grows
<1>6. ChangeInv(t, E)
  BY <1>1, <1>5 DEF ChangeInv, Sends, Changes
<1> QED BY <1>1, <1>4, <1>6 DEF TaskOK

\* So does a cache.
LEMMA CacheStays ==
    ASSUME NEW R, RowsOK(R), NEW E, Grows(R, E), NEW cache, CacheOK(cache, R)
    PROVE  CacheOK(cache, E)
<1>1. /\ Len(R) \in Nat /\ Len(E) \in Nat /\ Len(R) <= Len(E)
      /\ DOMAIN R = 1 .. Len(R) /\ DOMAIN E = 1 .. Len(E)
  BY DEF RowsOK, Grows
<1>2. \A p \in Folders : p \in Nat
  BY FolderFacts
<1>3. \A p \in Folders : p > Len(E) => p > Len(R)
  BY <1>1, <1>2
<1>4. \A c : ListingOK(c, R) => ListingOK(c, E)
  BY <1>1 DEF ListingOK, NamesOK
<1> QED BY <1>3, <1>4 DEF CacheOK

\* Doubt leaves a listing what it was.
LEMMA DoubtFacts ==
    ASSUME NEW R, NEW cache, CacheOK(cache, R), NEW S
    PROVE  /\ CacheOK(Doubt(cache, S), R)
           /\ \A p \in Folders :
                LET c == cache[p]  d == Doubt(cache, S)[p] IN
                /\ d = NoListing <=> c = NoListing
                /\ c # NoListing => /\ d.names = c.names /\ d.at = c.at /\ d.read = c.read
                                    /\ d.suspect <=> (c.suspect \/ p \in S)
                /\ p \notin S => d = c
<1>1. ASSUME NEW p \in Folders
      PROVE  LET c == cache[p]  d == Doubt(cache, S)[p] IN
             /\ ListingOK(d, R)
             /\ d = NoListing <=> c = NoListing
             /\ c # NoListing => /\ d.names = c.names /\ d.at = c.at /\ d.read = c.read
                                 /\ d.suspect <=> (c.suspect \/ p \in S)
             /\ p \notin S => d = c
  <2> DEFINE c == cache[p]  d == Doubt(cache, S)[p]
             m == [c EXCEPT !.suspect = TRUE]
  <2>1. d = IF p \in S /\ c # NoListing THEN m ELSE c
    BY DEF Doubt
  <2>2. ListingOK(c, R)
    BY DEF CacheOK
  <2> HIDE DEF c, d
  <2>3. CASE c = NoListing
    BY <2>1, <2>2, <2>3 DEF c, d
  <2>4. CASE c # NoListing
    <3>1. c \in ListingType /\ NamesOK(c.names, R)
      BY <2>2, <2>4 DEF ListingOK
    <3>2. /\ m \in ListingType /\ m.names = c.names /\ m.at = c.at /\ m.read = c.read
          /\ m.suspect = TRUE /\ m.at \in Nat
      BY <3>1 DEF ListingType
    <3>3. m # NoListing
      BY <3>2 DEF NoListing
    <3>4. ListingOK(m, R)
      BY <3>1, <3>2 DEF ListingOK
    <3> HIDE DEF m
    <3>5. CASE p \in S
      BY <2>1, <2>4, <3>2, <3>3, <3>4, <3>5 DEF c, d
    <3>6. CASE p \notin S
      BY <2>1, <2>2, <2>4, <3>6 DEF c, d
    <3> QED BY <3>5, <3>6
  <2> QED BY <2>3, <2>4
<1>2. DOMAIN Doubt(cache, S) = Folders
  BY DEF Doubt
<1>3. \A p \in Folders : p > Len(R) => Doubt(cache, S)[p] = NoListing
  BY <1>1 DEF CacheOK
<1>4. CacheOK(Doubt(cache, S), R)
  BY <1>1, <1>2, <1>3 DEF CacheOK
<1> QED BY <1>1, <1>4

\* What a change of the rows does to the requests of the others.
Disturbs(w, S) ==
  /\ DOMAIN task' = Workers
  /\ \A v \in Workers : v # w => task'[v] = Spoiled(task[v], S)

\* The backend makes a change.
LEMMA PostFacts ==
    ASSUME TypeInv, NEW w \in Workers, Post(w)
    PROVE  LET t == task[w]
               E == Effect(t).rows
               T == Effect(t).touched
               missed == IF t.ask.kind = "delete" THEN T \ {t.from} ELSE {} IN
           /\ Disturbs(w, T) /\ TaskOK(task'[w], E) /\ rows' = E /\ Len(E) <= MaxRows
           /\ memory' = Doubt(memory, missed) /\ disk' = Doubt(disk, missed)
           /\ t # Idle /\ t.pc = "post" /\ task'[w].pc = "pop" /\ task'[w] # Idle
           /\ task'[w].ask = t.ask /\ task'[w].source = t.source /\ task'[w].from = t.from
           /\ task'[w].into = t.into /\ task'[w].touched = T /\ task'[w].whole = t.whole
           /\ t.left # <<>> => /\ task'[w].left = Tail(t.left)
                               /\ task'[w].new = IF t.new = Root THEN Len(E) ELSE t.new
           /\ t.left = <<>> => task'[w].left = <<>> /\ task'[w].new = t.new
<1> DEFINE t == task[w]
           E == Effect(t).rows
           T == Effect(t).touched
           missed == IF t.ask.kind = "delete" THEN T \ {t.from} ELSE {}
           l == IF t.left # <<>> THEN Tail(t.left) ELSE t.left
           n == IF t.left # <<>> /\ t.new = Root THEN Len(E) ELSE t.new
           u == [t EXCEPT !.pc = "pop", !.touched = T, !.left = l, !.new = n]
<1>1. /\ t.pc = "post" /\ Len(E) <= MaxRows /\ rows' = E
      /\ memory' = Doubt(memory, missed) /\ disk' = Doubt(disk, missed)
      /\ task' = [Spoil(T) EXCEPT ![w] = u]
  BY DEF Post
<1>2. t # Idle /\ t \in TaskType /\ RowsKnown(t, rows) /\ ChangeInv(t, rows) /\ TaskOK(t, rows)
  BY <1>1, TaskFacts
<1>3. task'[w] = u /\ Disturbs(w, T)
  BY <1>1 DEF Spoil, Spoiled, Looking, Disturbs
<1>4. /\ Grows(rows, E) /\ T \in SUBSET Folders /\ \A p \in T : p <= Len(rows)
      /\ t.ask.kind \in {"put", "copy", "mkcol"} => T = {t.into}
      /\ t.ask.kind = "delete" => ~E[t.source].live
  <2>1. RowsOK(rows)
    BY DEF TypeInv
  <2>2. Kills(t, E)
    BY <1>1, <1>2, <2>1, EffectFacts
  <2> QED BY <1>1, <1>2, <2>1, <2>2, EffectFacts DEF Kills
<1>5. TaskOK(t, E)
  BY <1>2, <1>4, TaskStays DEF TypeInv
<1> HIDE DEF t, E, T
<1>6. l \in Seq(Part) /\ (l # <<>> => t.left # <<>>)
  BY <1>2 DEF TaskType
<1>7. n \in Folders /\ n <= Len(E)
  <2>1. Len(E) \in Folders /\ Len(E) <= Len(E)
    BY <1>4, FolderFacts DEF Grows, RowsOK
  <2>2. t.new \in Folders /\ t.new <= Len(E)
    BY <1>2, <1>5 DEF TaskOK, TaskType, RowsKnown
  <2> QED BY <2>1, <2>2
<1> HIDE DEF l, n
<1>8. u \in TaskType
  BY <1>2, <1>4, <1>6, <1>7 DEF TaskType, Busy, Changes
<1>9. /\ u.pc = "pop" /\ u.left = l /\ u.whole = t.whole /\ u.names = t.names
      /\ u.ask = t.ask /\ u.at = t.at /\ u.source = t.source /\ u.from = t.from
      /\ u.into = t.into /\ u.touched = T /\ u.new = n
  BY <1>2 DEF TaskType
<1> HIDE DEF u
<1>10. RowsKnown(u, E)
  <2>1. \A p \in T : p <= Len(E)
    <3>1. Len(rows) \in Nat /\ Len(E) \in Nat /\ Len(rows) <= Len(E)
      BY <1>4 DEF TypeInv, Grows, RowsOK
    <3>2. \A p \in T : p \in Nat
      BY <1>4, FolderFacts
    <3> QED BY <1>4, <3>1, <3>2
  <2> QED BY <1>2, <1>5, <1>7, <1>9, <2>1 DEF RowsKnown, TaskOK
<1>11. WalkInv(u)
  BY <1>9 DEF WalkInv, Walking, Looking
<1>12. ChangeInv(u, E)
  <2>1. /\ t.ask.kind # "get" /\ (t.ask.kind \in {"delete", "move", "copy"} => t.source # Root)
        /\ t.left # <<>> => Sends(t, E)
    BY <1>1, <1>2, <1>5 DEF TaskOK, ChangeInv, Changes
  <2> QED BY <1>4, <1>6, <1>9, <2>1 DEF ChangeInv, Changes, Sends
<1>13. TaskOK(u, E) /\ u # Idle
  BY <1>8, <1>9, <1>10, <1>11, <1>12 DEF TaskOK, Idle
<1> QED BY <1>1, <1>2, <1>3, <1>9, <1>13 DEF t, E, T, l, n

\* The backend makes a change and its answer is lost.
LEMMA PostLostFacts ==
    ASSUME TypeInv, NEW w \in Workers, PostLost(w)
    PROVE  LET t == task[w]
               E == Effect(t).rows
               T == Effect(t).touched IN
           /\ Disturbs(w, T) /\ task'[w] = Idle /\ rows' = E /\ Len(E) <= MaxRows
           /\ memory' = Doubt(memory, T) /\ disk' = Doubt(disk, T)
           /\ t # Idle /\ t.pc = "post"
<1> DEFINE t == task[w]
           E == Effect(t).rows
           T == Effect(t).touched
<1>1. /\ t.pc = "post" /\ Len(E) <= MaxRows /\ rows' = E
      /\ memory' = Doubt(memory, T) /\ disk' = Doubt(disk, T)
      /\ task' = [Spoil(T) EXCEPT ![w] = Idle]
  BY DEF PostLost
<1>2. t # Idle
  BY <1>1, TaskFacts
<1>3. task'[w] = Idle /\ Disturbs(w, T)
  BY <1>1 DEF Spoil, Spoiled, Looking, Disturbs
<1> QED BY <1>1, <1>2, <1>3

\* Somebody throws a row away at the web page.
LEMMA WebFacts ==
    ASSUME TypeInv, NEW w \in Workers, NEW k \in DOMAIN rows, WebChange(w, k)
    PROVE  /\ Disturbs(w, {rows[k].parent}) /\ TaskOK(task'[w], rows') /\ task[w] = Idle
           /\ Grows(rows, rows') /\ Stays(rows, rows', {rows[k].parent})
           /\ Len(rows') = Len(rows)
           /\ \A i \in DOMAIN rows : rows'[i].parts = rows[i].parts
           /\ task'[w] # Idle /\ task'[w].pc = "pop" /\ task'[w].ask = WebAsk
           /\ task'[w].touched = {rows[k].parent} /\ task'[w].left = <<>>
           /\ task'[w].new = Root
<1> DEFINE T == {rows[k].parent}
           s == Start(WebAsk)
           u == [s EXCEPT !.pc = "pop", !.touched = T]
           E == [i \in DOMAIN rows |-> IF i \in Subtree(k) THEN [rows[i] EXCEPT !.live = FALSE]
                                       ELSE rows[i]]
<1>0. RowsOK(rows)
  BY DEF TypeInv
<1>1. rows' = E /\ task[w] = Idle /\ task' = [Spoil(T) EXCEPT ![w] = u]
  BY DEF WebChange
<1>2. task'[w] = u /\ Disturbs(w, T)
  BY <1>1 DEF Spoil, Spoiled, Looking, Disturbs
<1>3. /\ Grows(rows, E) /\ Stays(rows, E, T) /\ Len(E) = Len(rows)
      /\ \A i \in DOMAIN rows : E[i].parts = rows[i].parts
  <2> DEFINE F == E
  <2>1. F = E
    OBVIOUS
  <2> HIDE DEF F
  <2>2. /\ Grows(rows, F) /\ Stays(rows, F, T) /\ Len(F) = Len(rows)
        /\ \A i \in DOMAIN rows : F[i].parts = rows[i].parts
    BY <1>0, <2>1, KillFacts
  <2> QED BY <2>2 DEF F
<1> HIDE DEF E
<1>4. T \in SUBSET Folders /\ \A p \in T : p <= Len(E)
  <2>1. k \in Nat /\ k # Root /\ k <= Len(rows)
    BY <1>0 DEF RowsOK, Root
  <2> QED BY <1>0, <1>3, <2>1, RowFacts
<1>5. s \in TaskType
  <2>1. NoPage.page \in [Kinds -> Nat \ {0}] /\ NoPage.count \in [Kinds -> Nat]
    BY DEF NoPage
  <2> QED BY <2>1, FolderFacts DEF Start, WebAsk, TaskType, Busy, Walking
<1>6. /\ s.ask = WebAsk /\ s.at = Root /\ s.source = Root /\ s.from = Root /\ s.into = Root
      /\ s.names = {} /\ s.left = <<>> /\ s.new = Root
  BY DEF Start
<1> HIDE DEF s, T
<1>7. u \in TaskType
  BY <1>4, <1>5 DEF TaskType, Busy, Changes
<1>8. /\ u.pc = "pop" /\ u.touched = T /\ u.ask = WebAsk /\ u.at = Root /\ u.source = Root
      /\ u.from = Root /\ u.into = Root /\ u.names = {} /\ u.left = <<>> /\ u.new = Root
  BY <1>5, <1>6 DEF TaskType
<1> HIDE DEF u
<1>9. RowsKnown(u, E)
  <2>1. Root <= Len(E)
    BY <1>3, FolderFacts DEF Grows, RowsOK
  <2> QED BY <1>4, <1>8, <2>1 DEF RowsKnown
<1>10. WalkInv(u) /\ ChangeInv(u, E)
  BY <1>8 DEF WalkInv, ChangeInv, Walking, Looking, Changes, WebAsk
<1>11. TaskOK(u, E) /\ u # Idle
  BY <1>7, <1>8, <1>9, <1>10 DEF TaskOK, Idle
<1> QED BY <1>1, <1>2, <1>3, <1>8, <1>11 DEF T

\* The worker drops the listings of its folders from memory.
LEMMA PopFacts ==
    ASSUME TypeInv, NEW w \in Workers, PopMemory(w)
    PROVE  /\ Only(w) /\ TaskOK(task'[w], rows)
           /\ task[w] # Idle /\ task[w].pc = "pop" /\ task'[w].pc = "unlink" /\ task'[w] # Idle
           /\ Keeps(task[w], task'[w])
<1> DEFINE t == task[w]
           u == [t EXCEPT !.pc = "unlink"]
<1>1. t.pc = "pop" /\ task' = [task EXCEPT ![w] = u]
  BY DEF PopMemory
<1>2. t # Idle /\ t \in TaskType /\ RowsKnown(t, rows) /\ ChangeInv(t, rows)
  BY <1>1, TaskFacts
<1>3. task'[w] = u /\ Only(w)
  BY <1>1 DEF TypeInv, Only
<1> HIDE DEF t
<1>4. u \in TaskType
  BY <1>2 DEF TaskType, Busy, Changes
<1>5. u.pc = "unlink" /\ Keeps(t, u) /\ u.names = t.names
  BY <1>2 DEF TaskType, Keeps
<1> HIDE DEF u
<1>6. RowsKnown(u, rows) /\ WalkInv(u)
  BY <1>2, <1>5 DEF RowsKnown, Keeps, WalkInv, Walking, Looking
<1>7. ChangeInv(u, rows)
  BY <1>1, <1>2, <1>5 DEF ChangeInv, Keeps, Changes, Sends
<1>8. TaskOK(u, rows) /\ u # Idle
  BY <1>4, <1>5, <1>6, <1>7 DEF TaskOK, Idle
<1> QED BY <1>1, <1>2, <1>3, <1>5, <1>8 DEF t

\* The worker drops them from the disk, and goes on with the next part of its file.
LEMMA UnlinkFacts ==
    ASSUME TypeInv, NEW w \in Workers, UnlinkDisk(w)
    PROVE  /\ Only(w) /\ TaskOK(task'[w], rows)
           /\ task[w] # Idle /\ task[w].pc = "unlink"
           /\ task[w].left = <<>> => task'[w] = Idle
           /\ task[w].left # <<>> => /\ task'[w].pc = "post" /\ Keeps(task[w], task'[w])
                                     /\ task'[w] # Idle
<1> DEFINE t == task[w]
           u == [t EXCEPT !.pc = "post"]
<1>1. t.pc = "unlink" /\ task' = [task EXCEPT ![w] = IF t.left = <<>> THEN Idle ELSE u]
  BY DEF UnlinkDisk
<1>2. t # Idle /\ t \in TaskType /\ RowsKnown(t, rows) /\ ChangeInv(t, rows)
  BY <1>1, TaskFacts
<1>3. task'[w] = (IF t.left = <<>> THEN Idle ELSE u) /\ Only(w)
  BY <1>1 DEF TypeInv, Only
<1> HIDE DEF t
<1>4. u \in TaskType
  BY <1>2 DEF TaskType, Busy, Changes
<1>5. u.pc = "post" /\ Keeps(t, u) /\ u.names = t.names
  BY <1>2 DEF TaskType, Keeps
<1> HIDE DEF u
<1>6. RowsKnown(u, rows) /\ WalkInv(u)
  BY <1>2, <1>5 DEF RowsKnown, Keeps, WalkInv, Walking, Looking
<1>7. t.left # <<>> => ChangeInv(u, rows)
  <2>1. t.left # <<>> => t.ask.kind # "web"
    BY <1>1, <1>2 DEF ChangeInv, Changes, Sends
  <2> QED BY <1>1, <1>2, <1>5, <2>1 DEF ChangeInv, Keeps, Changes, Sends
<1>8. t.left # <<>> => TaskOK(u, rows) /\ u # Idle
  BY <1>4, <1>5, <1>6, <1>7 DEF TaskOK, Idle
<1>9. TaskOK(Idle, rows)
  BY DEF TaskOK
<1>10. CASE t.left = <<>>
  BY <1>1, <1>2, <1>3, <1>9, <1>10 DEF t
<1>11. CASE t.left # <<>>
  BY <1>1, <1>2, <1>3, <1>5, <1>8, <1>11 DEF t
<1> QED BY <1>10, <1>11

\* A listing is put into a cache.
LEMMA PutFacts ==
    ASSUME NEW R, RowsOK(R), NEW cache, CacheOK(cache, R), NEW p \in Folders, p <= Len(R),
           NEW at \in Nat, NEW names, NamesOK(names, R), NEW read \in Nat, NEW suspect \in BOOLEAN
    PROVE  LET l == Listing(at, names, read, suspect)
               put == [cache EXCEPT ![p] = l] IN
           /\ CacheOK(put, R) /\ put[p] = l /\ l # NoListing
           /\ l.at = at /\ l.names = names /\ l.read = read /\ l.suspect = suspect
           /\ \A q \in Folders : q # p => put[q] = cache[q]
<1> DEFINE l == Listing(at, names, read, suspect)
           put == [cache EXCEPT ![p] = l]
<1>1. /\ l.at = at /\ l.names = names /\ l.read = read /\ l.suspect = suspect
      /\ l \in ListingType
  BY DEF Listing, ListingType, NamesOK
<1> HIDE DEF l
<1>2. l # NoListing
  BY <1>1 DEF NoListing
<1>3. ListingOK(l, R)
  BY <1>1 DEF ListingOK
<1>4. DOMAIN cache = Folders /\ \A q \in Folders : ListingOK(cache[q], R)
  BY DEF CacheOK
<1>5. /\ put[p] = l /\ \A q \in Folders : q # p => put[q] = cache[q]
      /\ DOMAIN put = Folders
  BY <1>4
<1> HIDE DEF put
<1>6. ~(p > Len(R))
  BY FolderFacts DEF RowsOK
<1>7. CacheOK(put, R)
  BY <1>3, <1>5, <1>6 DEF CacheOK
<1> QED BY <1>1, <1>2, <1>5, <1>7 DEF put, l

\* The listing a worker has read goes to memory or to the disk.
LEMMA KeptFacts ==
    ASSUME TypeInv, NEW w \in Workers, task[w].pc \in Looking
    PROVE  LET t == task[w] IN
           /\ t # Idle /\ t.at \in Folders /\ t.at <= Len(rows) /\ t.start \in Nat
           /\ NamesOK(t.names, rows) /\ t.read \in Nat /\ t.clean \in BOOLEAN
           /\ (~t.clean) \in BOOLEAN
<1>1. task[w] # Idle
  BY TaskFacts DEF Looking
<1>2. task[w] \in TaskType /\ RowsKnown(task[w], rows)
  BY <1>1, TaskFacts
<1> QED BY <1>1, <1>2 DEF TaskType, RowsKnown, NamesOK

\* The listing a worker has read is what memory holds of the folder then.
LEMMA MemoryFilled ==
    ASSUME TypeInv, NEW w \in Workers, FillMemory(w) \/ KeepListing(w)
    PROVE  LET t == task[w]  l == memory'[t.at] IN
           /\ t.pc \in Looking /\ t.at \in Folders /\ l.at = t.start /\ l.read = t.read
           /\ l.names = t.names /\ (l.suspect <=> ~t.clean)
           /\ \A q \in Folders : q # t.at => memory'[q] = memory[q]
<1> DEFINE t == task[w]
           l == Listing(t.start, t.names, t.read, ~t.clean)
<1>1. t.pc \in Looking /\ memory' = [memory EXCEPT ![t.at] = l]
  BY DEF FillMemory, KeepListing, Looking
<1>2. t.at \in Folders
  BY <1>1, KeptFacts
<1>3. l.at = t.start /\ l.read = t.read /\ l.names = t.names /\ (l.suspect <=> ~t.clean)
  BY DEF Listing
<1>4. DOMAIN memory = Folders
  BY DEF TypeInv, CacheOK
<1> HIDE DEF l
<1>5. memory'[t.at] = l /\ \A q \in Folders : q # t.at => memory'[q] = memory[q]
  BY <1>1, <1>2, <1>4
<1> QED BY <1>1, <1>2, <1>3, <1>5

\* And what the disk holds of it.
LEMMA DiskFilled ==
    ASSUME TypeInv, NEW w \in Workers, Persist(w)
    PROVE  LET t == task[w]  l == disk'[t.at] IN
           /\ t.pc \in Looking /\ t.at \in Folders /\ l.at = t.start /\ l.read = t.read
           /\ l.names = t.names /\ (l.suspect <=> ~t.clean)
           /\ \A q \in Folders : q # t.at => disk'[q] = disk[q]
<1> DEFINE t == task[w]
           l == Listing(t.start, t.names, t.read, ~t.clean)
<1>1. t.pc \in Looking /\ disk' = [disk EXCEPT ![t.at] = l]
  BY DEF Persist, Looking
<1>2. t.at \in Folders
  BY <1>1, KeptFacts
<1>3. l.at = t.start /\ l.read = t.read /\ l.names = t.names /\ (l.suspect <=> ~t.clean)
  BY DEF Listing
<1>4. DOMAIN disk = Folders
  BY DEF TypeInv, CacheOK
<1> HIDE DEF l
<1>5. disk'[t.at] = l /\ \A q \in Folders : q # t.at => disk'[q] = disk[q]
  BY <1>1, <1>2, <1>4
<1> QED BY <1>1, <1>2, <1>3, <1>5

\* What dropping a row or a listing leaves.
LEMMA PopCache ==
    ASSUME TypeInv, NEW w \in Workers, PopMemory(w)
    PROVE  /\ CacheOK(memory', rows)
           /\ \A p \in Folders :
                /\ memory'[p] # NoListing =>
                     /\ memory[p] # NoListing /\ memory'[p].at = memory[p].at
                     /\ memory'[p].read = memory[p].read /\ memory'[p].suspect = memory[p].suspect
                     /\ memory'[p].names = IF task[w].ask.kind = "delete" /\ task[w].from = p
                                           THEN {e \in memory[p].names : e.row # task[w].source}
                                           ELSE memory[p].names
                /\ task[w].ask.kind # "delete" /\ p \in Dropped(task[w]) => memory'[p] = NoListing
<1> DEFINE t == task[w]
<1>1. CacheOK(memory, rows)
  BY DEF TypeInv
<1>2. ASSUME NEW p \in Folders
      PROVE  /\ ListingOK(memory'[p], rows)
             /\ memory'[p] # NoListing =>
                  /\ memory[p] # NoListing /\ memory'[p].at = memory[p].at
                  /\ memory'[p].read = memory[p].read /\ memory'[p].suspect = memory[p].suspect
                  /\ memory'[p].names = IF t.ask.kind = "delete" /\ t.from = p
                                        THEN {e \in memory[p].names : e.row # t.source}
                                        ELSE memory[p].names
             /\ t.ask.kind # "delete" /\ p \in Dropped(t) => memory'[p] = NoListing
  <2>1. ListingOK(memory[p], rows)
    BY <1>1 DEF CacheOK
  <2>2. CASE t.ask.kind = "delete" /\ t.from = p
    <3>1. memory'[p] = Without(memory[p], t.source)
      BY <1>1, <2>2 DEF PopMemory, CacheOK
    <3>2. CASE memory[p] = NoListing
      BY <2>1, <2>2, <3>1, <3>2 DEF Without
    <3>3. CASE memory[p] # NoListing
      <4> DEFINE c == memory[p]
                 n == {e \in c.names : e.row # t.source}
                 m == [c EXCEPT !.names = n]
      <4>1. memory'[p] = m
        BY <3>1, <3>3 DEF Without
      <4>2. c \in ListingType /\ NamesOK(c.names, rows)
        BY <2>1, <3>3 DEF ListingOK
      <4>3. NamesOK(n, rows) /\ n \in SUBSET Entry
        BY <4>2 DEF NamesOK
      <4> HIDE DEF n
      <4>4. /\ m \in ListingType /\ m.names = n /\ m.at = c.at /\ m.read = c.read
            /\ m.suspect = c.suspect
        BY <4>2, <4>3 DEF ListingType
      <4> HIDE DEF m
      <4>5. ListingOK(memory'[p], rows)
        BY <4>1, <4>3, <4>4 DEF ListingOK
      <4> QED BY <2>2, <3>3, <4>1, <4>4, <4>5 DEF n
    <3> QED BY <3>2, <3>3
  <2>3. CASE t.ask.kind = "delete" /\ t.from # p
    <3>1. memory'[p] = memory[p]
      BY <1>1, <2>3 DEF PopMemory, CacheOK
    <3> QED BY <2>1, <2>3, <3>1
  <2>4. CASE t.ask.kind # "delete"
    <3>1. memory'[p] = IF p \in Dropped(t) THEN NoListing ELSE memory[p]
      BY <2>4 DEF PopMemory
    <3>2. ListingOK(NoListing, rows)
      BY DEF ListingOK
    <3> QED BY <2>1, <2>4, <3>1, <3>2
  <2> QED BY <2>2, <2>3, <2>4
<1>3. DOMAIN memory' = Folders
  BY <1>1 DEF PopMemory, CacheOK
<1>4. \A p \in Folders : p > Len(rows) => memory'[p] = NoListing
  BY <1>1, <1>2 DEF CacheOK
<1>5. CacheOK(memory', rows)
  BY <1>2, <1>3, <1>4 DEF CacheOK
<1> QED BY <1>2, <1>5

\* And what dropping one leaves on the disk.
LEMMA UnlinkCache ==
    ASSUME TypeInv, NEW w \in Workers, UnlinkDisk(w)
    PROVE  /\ CacheOK(disk', rows)
           /\ \A p \in Folders :
                /\ disk'[p] # NoListing => disk'[p] = disk[p]
                /\ disk'[p] # NoListing =>
                     p \notin IF task[w].ask.kind = "delete" THEN {task[w].from}
                              ELSE Dropped(task[w])
<1> DEFINE gone == IF task[w].ask.kind = "delete" THEN {task[w].from} ELSE Dropped(task[w])
<1>1. disk' = [p \in Folders |-> IF p \in gone THEN NoListing ELSE disk[p]]
  BY DEF UnlinkDisk
<1>2. CacheOK(disk, rows)
  BY DEF TypeInv
<1> HIDE DEF gone
<1>3. /\ DOMAIN disk' = Folders
      /\ \A p \in Folders : disk'[p] = IF p \in gone THEN NoListing ELSE disk[p]
  BY <1>1
<1>4. ListingOK(NoListing, rows)
  BY DEF ListingOK
<1>5. CacheOK(disk', rows)
  BY <1>2, <1>3, <1>4 DEF CacheOK
<1> QED BY <1>3, <1>5 DEF gone

\* The bridge starts with what is on the drive.
LEMMA TypeInit == Init => TypeInv
<1> SUFFICES ASSUME Init PROVE TypeInv
  OBVIOUS
<1>1. RowsOK(rows)
  <2>1. rows = InitialRows /\ rows \in Seq(RowType) /\ Len(rows) <= MaxRows /\ Len(rows) \in Nat
    BY DriveAssumption DEF Init
  <2>2. ASSUME NEW i \in DOMAIN rows
        PROVE  rows[i].parent <= Len(rows) /\ (~rows[i].dir => rows[i].parts # <<>>)
    <3>1. rows[i].parent \in Root .. Len(rows) /\ (~rows[i].dir => rows[i].parts # <<>>)
      BY <2>1, DriveAssumption
    <3> QED BY <2>1, <3>1 DEF Root
  <2> QED BY <2>1, <2>2 DEF RowsOK
<1>2. CacheOK([p \in Folders |-> NoListing], rows)
  BY DEF CacheOK, ListingOK
<1>3. CacheOK(disk, rows)
  <2> SUFFICES ASSUME disk = [p \in Folders |-> IF IsFolder(p) THEN Listing(0, Now(p), 0, FALSE)
                                                ELSE NoListing]
               PROVE  CacheOK(disk, rows)
    BY <1>2 DEF Init
  <2>1. ASSUME NEW p \in Folders
        PROVE  ListingOK(disk[p], rows) /\ (p > Len(rows) => disk[p] = NoListing)
    <3>1. CASE ~IsFolder(p)
      BY <3>1 DEF ListingOK
    <3>2. CASE IsFolder(p)
      <4>1. NamesOK(Now(p), rows)
        <5>1. ASSUME NEW i \in Children(p) PROVE Name(i) \in Entry /\ Name(i).row \in DOMAIN rows
          <6>1. i \in DOMAIN rows /\ i \in Nat /\ rows[i] \in RowType
            BY <1>1 DEF Children, RowsOK
          <6>2. rows[i].name \in STRING
            BY <6>1 DEF RowType
          <6> QED BY <6>1, <6>2 DEF Name, Entry
        <5> QED BY <5>1 DEF Now, NamesOK
      <4>2. Listing(0, Now(p), 0, FALSE) \in ListingType
        BY <4>1 DEF Listing, ListingType, NamesOK
      <4>3. Listing(0, Now(p), 0, FALSE).names = Now(p)
        BY DEF Listing
      <4>4. ~(p > Len(rows))
        BY <1>1, <3>2, FolderFacts DEF IsFolder, RowsOK
      <4>5. disk[p] = Listing(0, Now(p), 0, FALSE)
        BY <3>2
      <4> QED BY <4>1, <4>2, <4>3, <4>4, <4>5 DEF ListingOK
    <3> QED BY <3>1, <3>2
  <2> QED BY <2>1 DEF CacheOK
<1>4. tables \in [1 .. MaxRows -> [parts : Seq(Part), whole : BOOLEAN]]
  BY DEF Init, NoTable
<1>5. DOMAIN task = Workers /\ \A w \in Workers : TaskOK(task[w], rows)
  BY DEF Init, TaskOK
<1> QED BY <1>1, <1>2, <1>3, <1>4, <1>5 DEF Init, TypeInv

\* The requests of all workers, once that of one is known.
LEMMA OnlyFacts ==
    ASSUME TypeInv, NEW w \in Workers, Only(w), TaskOK(task'[w], rows), rows' = rows
    PROVE  DOMAIN task' = Workers /\ \A v \in Workers : TaskOK(task'[v], rows')
BY DEF TypeInv, Only

\* The requests of all workers after a change that spoils listings.
LEMMA DisturbFacts ==
    ASSUME TypeInv, NEW w \in Workers, NEW S, Disturbs(w, S), Grows(rows, rows'),
           TaskOK(task'[w], rows')
    PROVE  DOMAIN task' = Workers /\ \A v \in Workers : TaskOK(task'[v], rows')
<1>1. ASSUME NEW v \in Workers, v # w PROVE TaskOK(task'[v], rows')
  <2>1. TaskOK(Spoiled(task[v], S), rows)
    BY SpoilFacts DEF TypeInv
  <2>2. TaskOK(Spoiled(task[v], S), rows')
    BY <2>1, TaskStays DEF TypeInv
  <2> QED BY <1>1, <2>2 DEF Disturbs
<1> QED BY <1>1 DEF Disturbs

\* Every step keeps the types.
LEMMA TypeStep == TypeInv /\ [Next]_vars => TypeInv'
<1> SUFFICES ASSUME TypeInv, [Next]_vars PROVE TypeInv'
  OBVIOUS
<1> DEFINE Tables(t) == t \in [1 .. MaxRows -> [parts : Seq(Part), whole : BOOLEAN]]
           Tasks == DOMAIN task' = Workers /\ \A w \in Workers : TaskOK(task'[w], rows')
           Same == rows' = rows /\ clock' = clock /\ bounds' = bounds
<1>0. /\ RowsOK(rows) /\ CacheOK(memory, rows) /\ CacheOK(disk, rows) /\ Tables(tables)
      /\ clock \in Nat /\ asked \in Nat /\ restarts \in Nat /\ lost \in Nat
  BY DEF TypeInv
<1>a. TaskOK(Idle, rows)
  BY DEF TaskOK
<1>b. ASSUME Same, Tasks, CacheOK(memory', rows), CacheOK(disk', rows), Tables(tables')
      PROVE  TypeInv'
  BY <1>0, <1>b DEF TypeInv, bounds
<1> HIDE DEF Tables
<1>1. ASSUME NEW w \in Workers, NEW ask \in Asks, Begin(w, ask) PROVE TypeInv'
  <2>1. Tasks
    BY <1>1, BeginFacts, OnlyFacts DEF Begin
  <2>2. /\ rows' = rows /\ memory' = memory /\ disk' = disk /\ tables' = tables /\ clock' = clock
        /\ asked' = asked + 1 /\ restarts' = restarts /\ lost' = lost
    BY <1>1 DEF Begin
  <2> QED BY <1>0, <2>1, <2>2 DEF TypeInv, Tables
<1>2. ASSUME NEW w \in Workers, NEW row \in DOMAIN rows, WebChange(w, row) PROVE TypeInv'
  <2>1. Grows(rows, rows') /\ TaskOK(task'[w], rows') /\ Disturbs(w, {rows[row].parent})
    BY <1>2, WebFacts
  <2>2. Tasks
    BY <2>1, DisturbFacts
  <2>3. /\ memory' = memory /\ disk' = disk /\ tables' = tables /\ clock' = clock
        /\ asked' = asked + 1 /\ restarts' = restarts /\ lost' = lost
    BY <1>2 DEF WebChange
  <2>4. RowsOK(rows') /\ CacheOK(memory, rows') /\ CacheOK(disk, rows')
    BY <1>0, <2>1, CacheStays DEF Grows
  <2> QED BY <1>0, <2>2, <2>3, <2>4 DEF TypeInv, Tables
<1>3. ASSUME NEW w \in Workers, MemoryHit(w) PROVE TypeInv'
  <2>1. Same /\ memory' = memory /\ disk' = disk /\ tables' = tables
    BY <1>3 DEF MemoryHit
  <2>2. Tasks
    BY <1>3, <2>1, WalkFacts, OnlyFacts
  <2> QED BY <1>0, <1>b, <2>1, <2>2
<1>4. ASSUME NEW w \in Workers, DiskHit(w) PROVE TypeInv'
  <2>1. Same /\ memory' = memory /\ disk' = disk /\ tables' = tables
    BY <1>4 DEF DiskHit
  <2>2. Tasks
    BY <1>4, <2>1, DiskHitFacts, OnlyFacts
  <2> QED BY <1>0, <1>b, <2>1, <2>2
<1>5. ASSUME NEW w \in Workers, FillMemory(w) \/ KeepListing(w) PROVE TypeInv'
  <2> DEFINE t == task[w]
  <2>1. /\ Same /\ disk' = disk /\ tables' = tables /\ t.pc \in Looking
        /\ memory' = [memory EXCEPT ![t.at] = Listing(t.start, t.names, t.read, ~t.clean)]
    BY <1>5 DEF FillMemory, KeepListing, Looking
  <2>2. Tasks
    BY <1>5, <2>1, WalkFacts, KeepListingFacts, OnlyFacts
  <2>3. CacheOK(memory', rows)
    BY <1>0, <2>1, KeptFacts, PutFacts
  <2> QED BY <1>0, <1>b, <2>1, <2>2, <2>3
<1>6. ASSUME NEW w \in Workers, Miss(w) PROVE TypeInv'
  <2>1. Same /\ memory' = memory /\ disk' = disk /\ tables' = tables
    BY <1>6 DEF Miss
  <2>2. Tasks
    BY <1>6, <2>1, MissFacts, OnlyFacts
  <2> QED BY <1>0, <1>b, <2>1, <2>2
<1>7. ASSUME NEW w \in Workers, NEW kind \in Kinds, ReadPage(w, kind) PROVE TypeInv'
  <2>1. Same /\ memory' = memory /\ disk' = disk /\ tables' = tables
    BY <1>7 DEF ReadPage
  <2>2. Tasks
    BY <1>7, <2>1, ReadPageFacts, OnlyFacts
  <2> QED BY <1>0, <1>b, <2>1, <2>2
<1>8. ASSUME NEW w \in Workers, Persist(w) PROVE TypeInv'
  <2> DEFINE t == task[w]
  <2>1. /\ Same /\ memory' = memory /\ tables' = tables /\ t.pc \in Looking
        /\ disk' = [disk EXCEPT ![t.at] = Listing(t.start, t.names, t.read, ~t.clean)]
    BY <1>8 DEF Persist, Looking
  <2>2. Tasks
    BY <1>8, <2>1, WalkFacts, OnlyFacts
  <2>3. CacheOK(disk', rows)
    BY <1>0, <2>1, KeptFacts, PutFacts
  <2> QED BY <1>0, <1>b, <2>1, <2>2, <2>3
<1>9. ASSUME NEW w \in Workers, PartsKnown(w) \/ PostFails(w) PROVE TypeInv'
  <2>1. Same /\ memory' = memory /\ disk' = disk /\ tables' = tables
    BY <1>9 DEF PartsKnown, PostFails
  <2>2. Tasks
    BY <1>9, <1>a, <2>1, EndFacts, OnlyFacts
  <2> QED BY <1>0, <1>b, <2>1, <2>2
<1>10. ASSUME NEW w \in Workers, KeepTable(w) PROVE TypeInv'
  <2> DEFINE t == task[w]
  <2>1. /\ Same /\ memory' = memory /\ disk' = disk /\ t.pc = "table"
        /\ tables' = [tables EXCEPT ![t.source] = [parts |-> t.left, whole |-> t.clean]]
    BY <1>10 DEF KeepTable
  <2>2. Tasks
    BY <1>10, <1>a, <2>1, EndFacts, OnlyFacts
  <2>3. [parts |-> t.left, whole |-> t.clean] \in [parts : Seq(Part), whole : BOOLEAN]
    <3>1. t \in TaskType
      BY <2>1, TaskFacts
    <3> QED BY <3>1 DEF TaskType
  <2>4. Tables(tables')
    <3> DEFINE r == [parts |-> t.left, whole |-> t.clean]
    <3> HIDE DEF r
    <3>1. tables' = [tables EXCEPT ![t.source] = r]
      BY <2>1 DEF r
    <3>2. r \in [parts : Seq(Part), whole : BOOLEAN]
      BY <2>3 DEF r
    <3> QED BY <1>0, <3>1, <3>2 DEF Tables
  <2> QED BY <1>0, <1>b, <2>1, <2>2, <2>4
<1>11. ASSUME NEW w \in Workers, FetchParts(w) PROVE TypeInv'
  <2>1. Same /\ memory' = memory /\ disk' = disk /\ tables' = tables
    BY <1>11 DEF FetchParts
  <2>2. Tasks
    BY <1>11, <2>1, FetchPartsFacts, OnlyFacts
  <2> QED BY <1>0, <1>b, <2>1, <2>2
<1>12. ASSUME NEW w \in Workers, FetchGroup(w) PROVE TypeInv'
  <2>1. Same /\ memory' = memory /\ disk' = disk /\ tables' = tables
    BY <1>12 DEF FetchGroup
  <2>2. Tasks
    BY <1>12, <2>1, FetchGroupFacts, OnlyFacts
  <2> QED BY <1>0, <1>b, <2>1, <2>2
<1>13. ASSUME NEW w \in Workers, Post(w) \/ PostLost(w) PROVE TypeInv'
  <2> DEFINE t == task[w]
             E == Effect(t).rows
             T == Effect(t).touched
  <2>1. t.pc = "post" /\ rows' = E /\ Len(E) <= MaxRows /\ Disturbs(w, T)
        /\ (TaskOK(task'[w], E) \/ task'[w] = Idle)
        /\ (\E S : memory' = Doubt(memory, S)) /\ (\E S : disk' = Doubt(disk, S))
    <3>1. CASE Post(w)
      BY <3>1, PostFacts
    <3>2. CASE PostLost(w)
      BY <3>2, PostLostFacts
    <3> QED BY <1>13, <3>1, <3>2
  <2>2. tables' = tables /\ clock' = clock /\ asked' \in Nat /\ restarts' \in Nat /\ lost' \in Nat
    BY <1>0, <1>13 DEF Post, PostLost, bounds
  <2>3. t # Idle /\ TaskOK(t, rows)
    BY <2>1, TaskFacts
  <2>4. Grows(rows, E)
    BY <1>0, <2>1, <2>3, EffectFacts
  <2> HIDE DEF t, E, T
  <2>5. TaskOK(task'[w], rows')
    BY <2>1 DEF TaskOK
  <2>6. Tasks
    BY <2>1, <2>4, <2>5, DisturbFacts
  <2>7. CacheOK(memory', rows') /\ CacheOK(disk', rows')
    <3>1. CacheOK(memory', rows) /\ CacheOK(disk', rows)
      BY <1>0, <2>1, DoubtFacts
    <3> QED BY <1>0, <2>1, <2>4, <3>1, CacheStays
  <2>8. RowsOK(rows')
    BY <2>1, <2>4 DEF Grows
  <2> QED BY <1>0, <2>2, <2>6, <2>7, <2>8 DEF TypeInv, Tables
<1>14. ASSUME NEW w \in Workers, PopMemory(w) PROVE TypeInv'
  <2>1. Same /\ disk' = disk /\ tables' = tables
    BY <1>14 DEF PopMemory
  <2>2. Tasks
    BY <1>14, <2>1, PopFacts, OnlyFacts
  <2>3. CacheOK(memory', rows)
    BY <1>14, PopCache
  <2> QED BY <1>0, <1>b, <2>1, <2>2, <2>3
<1>15. ASSUME NEW w \in Workers, UnlinkDisk(w) PROVE TypeInv'
  <2>1. Same /\ memory' = memory /\ tables' = tables
    BY <1>15 DEF UnlinkDisk
  <2>2. Tasks
    BY <1>15, <2>1, UnlinkFacts, OnlyFacts
  <2>3. CacheOK(disk', rows)
    BY <1>15, UnlinkCache
  <2> QED BY <1>0, <1>b, <2>1, <2>2, <2>3
<1>16. CASE Tick
  BY <1>0, <1>16 DEF Tick, TypeInv, bounds, Tables
<1>17. CASE Restart
  <2>1. /\ rows' = rows /\ tables' = tables /\ clock' = clock /\ asked' = asked /\ lost' = lost
        /\ restarts' = restarts + 1 /\ memory' = [p \in Folders |-> NoListing]
        /\ \E S : disk' = Doubt(disk, S)
        /\ task' = [w \in Workers |-> Idle]
    BY <1>17 DEF Restart
  <2>2. Tasks
    BY <1>a, <2>1
  <2>3. CacheOK(memory', rows)
    BY <2>1 DEF CacheOK, ListingOK
  <2>4. CacheOK(disk', rows)
    BY <1>0, <2>1, DoubtFacts
  <2> QED BY <1>0, <2>1, <2>2, <2>3, <2>4 DEF TypeInv, Tables
<1>18. CASE UNCHANGED vars
  BY <1>18 DEF vars, TypeInv
<1> QED BY <1>1, <1>2, <1>3, <1>4, <1>5, <1>6, <1>7, <1>8, <1>9, <1>10, <1>11, <1>12, <1>13,
           <1>14, <1>15, <1>16, <1>17, <1>18 DEF Next

\* The types hold in every state: rows, caches, part tables, and where every
\* request of a worker may be.
LEMMA Typed == Spec => []TypeInv
BY TypeInit, TypeStep, PTL DEF Spec

-----------------------------------------------------------------------------
(* The age of an answer *)

\* When the backend was read for a listing in memory, for one on disk, and for the
\* one a request is about to keep.
AgeMemory(l, now) ==
  l # NoListing => l.at - l.read <= TTL /\ l.at <= now /\ l.read <= now
AgeDisk(l, now) == l # NoListing => l.at = l.read /\ l.at <= now
AgeTask(t, now) ==
  /\ t.pc = "disk" => t.start - t.read <= TTL /\ t.start <= now /\ t.read <= now
  /\ t.pc \in {"pages", "persist"} => t.start = t.read /\ t.start <= now
AgeInv ==
  /\ \A p \in Folders : AgeMemory(memory[p], clock) /\ AgeDisk(disk[p], clock)
  /\ \A w \in Workers : AgeTask(task[w], clock)

\* A listing on the disk as the bridge starts is of no age.
LEMMA AgeInit == Init => AgeInv
<1> SUFFICES ASSUME Init PROVE AgeInv
  OBVIOUS
<1>1. ASSUME NEW p \in Folders PROVE AgeMemory(memory[p], clock)
  BY DEF Init, AgeMemory
<1>2. ASSUME NEW p \in Folders PROVE AgeDisk(disk[p], clock)
  BY DEF Init, AgeDisk, Listing
<1>3. ASSUME NEW w \in Workers PROVE AgeTask(task[w], clock)
  BY DEF Init, AgeTask, Idle
<1> QED BY <1>1, <1>2, <1>3 DEF AgeInv

\* A spoiled listing is as old as it was.
LEMMA AgeSpoiled ==
    ASSUME NEW R, NEW t, TaskOK(t, R), NEW S, NEW now, AgeTask(t, now)
    PROVE  AgeTask(Spoiled(t, S), now)
<1>1. CASE t = Idle
  BY <1>1, SpoilFacts
<1>2. CASE t # Idle
  <2>1. SameBut(t, Spoiled(t, S))
    BY <1>2, SpoilFacts
  <2> QED BY <2>1 DEF AgeTask, SameBut
<1> QED BY <1>1, <1>2

\* A request that ends or walks on has no listing.
LEMMA AgeNone ==
    ASSUME NEW t, t.pc \notin Looking, NEW now
    PROVE  AgeTask(t, now)
BY DEF AgeTask, Looking

\* Every step: a listing is kept under the time it was asked for, and one from the disk
\* gets a new term while it is at most a term old.
LEMMA AgeStep == TypeInv /\ AgeInv /\ [Next]_vars => AgeInv'
<1> SUFFICES ASSUME TypeInv, AgeInv, [Next]_vars PROVE AgeInv'
  OBVIOUS
<1> DEFINE Mem == \A p \in Folders : AgeMemory(memory'[p], clock')
           Dsk == \A p \in Folders : AgeDisk(disk'[p], clock')
           Tsk == \A w \in Workers : AgeTask(task'[w], clock')
<1>q. Mem /\ Dsk /\ Tsk => AgeInv'
  BY DEF AgeInv
<1>0. /\ \A p \in Folders : AgeMemory(memory[p], clock) /\ AgeDisk(disk[p], clock)
      /\ \A w \in Workers : AgeTask(task[w], clock)
      /\ clock \in Nat
  BY DEF AgeInv, TypeInv
<1>i. Idle.pc \notin Looking
  BY DEF Idle, Looking
<1>m. memory' = memory /\ clock' = clock => Mem
  BY <1>0
<1>d. disk' = disk /\ clock' = clock => Dsk
  BY <1>0
<1>o. ASSUME NEW w \in Workers, Only(w), AgeTask(task'[w], clock), clock' = clock PROVE Tsk
  <2>1. ASSUME NEW v \in Workers PROVE AgeTask(task'[v], clock)
    <3>1. CASE v = w
      BY <1>o, <3>1
    <3>2. CASE v # w
      BY <1>0, <1>o, <3>2 DEF Only
    <3> QED BY <3>1, <3>2
  <2> QED BY <1>o, <2>1
<1>s. ASSUME NEW w \in Workers, NEW S, Disturbs(w, S), AgeTask(task'[w], clock), clock' = clock
      PROVE  Tsk
  <2>1. ASSUME NEW v \in Workers PROVE AgeTask(task'[v], clock)
    <3>1. CASE v = w
      BY <1>s, <3>1
    <3>2. CASE v # w
      <4>1. TaskOK(task[v], rows)
        BY TaskFacts
      <4> QED BY <1>0, <1>s, <3>2, <4>1, AgeSpoiled DEF Disturbs
    <3> QED BY <3>1, <3>2
  <2> QED BY <1>s, <2>1
<1>u. ASSUME (\E S : memory' = Doubt(memory, S)), clock' = clock PROVE Mem
  <2>1. PICK S : memory' = Doubt(memory, S)
    BY <1>u
  <2>2. ASSUME NEW p \in Folders PROVE AgeMemory(memory'[p], clock)
    <3> DEFINE c == memory[p]  e == memory'[p]
    <3>1. /\ e = NoListing <=> c = NoListing
          /\ c # NoListing => e.at = c.at /\ e.read = c.read
      BY <2>1, DoubtFacts DEF TypeInv
    <3> QED BY <1>0, <3>1 DEF AgeMemory
  <2> QED BY <1>u, <2>2
<1>v. ASSUME (\E S : disk' = Doubt(disk, S)), clock' = clock PROVE Dsk
  <2>1. PICK S : disk' = Doubt(disk, S)
    BY <1>v
  <2>2. ASSUME NEW p \in Folders PROVE AgeDisk(disk'[p], clock)
    <3> DEFINE c == disk[p]  e == disk'[p]
    <3>1. /\ e = NoListing <=> c = NoListing
          /\ c # NoListing => e.at = c.at /\ e.read = c.read
      BY <2>1, DoubtFacts DEF TypeInv
    <3> QED BY <1>0, <3>1 DEF AgeDisk
  <2> QED BY <1>v, <2>2
<1>w. ASSUME NEW w \in Workers, task'[w] = Idle \/ Went(task[w], task'[w], rows)
      PROVE  AgeTask(task'[w], clock)
  <2>1. task'[w].pc \notin Looking
    BY <1>i, <1>w DEF Went, Looking
  <2> QED BY <2>1, AgeNone
<1> HIDE DEF Mem, Dsk, Tsk
<1>1. ASSUME NEW w \in Workers, NEW ask \in Asks, Begin(w, ask) PROVE AgeInv'
  <2>1. memory' = memory /\ disk' = disk /\ clock' = clock
    BY <1>1 DEF Begin
  <2>2. AgeTask(task'[w], clock) /\ Only(w)
    BY <1>1, BeginFacts, AgeNone DEF Looking
  <2> QED BY <1>q, <1>m, <1>d, <1>o, <2>1, <2>2
<1>2. ASSUME NEW w \in Workers, NEW row \in DOMAIN rows, WebChange(w, row) PROVE AgeInv'
  <2>1. memory' = memory /\ disk' = disk /\ clock' = clock
    BY <1>2 DEF WebChange
  <2>2. AgeTask(task'[w], clock) /\ Disturbs(w, {rows[row].parent})
    BY <1>2, WebFacts, AgeNone DEF Looking
  <2> QED BY <1>q, <1>m, <1>d, <1>s, <2>1, <2>2
<1>3. ASSUME NEW w \in Workers, MemoryHit(w) PROVE AgeInv'
  <2>1. memory' = memory /\ disk' = disk /\ clock' = clock
    BY <1>3 DEF MemoryHit, bounds
  <2>2. AgeTask(task'[w], clock) /\ Only(w)
    BY <1>3, <1>w, WalkFacts
  <2> QED BY <1>q, <1>m, <1>d, <1>o, <2>1, <2>2
<1>4. ASSUME NEW w \in Workers, DiskHit(w) PROVE AgeInv'
  <2>1. memory' = memory /\ disk' = disk /\ clock' = clock
    BY <1>4 DEF DiskHit, bounds
  <2>2. Only(w)
    BY <1>4, DiskHitFacts
  <2>3. AgeTask(task'[w], clock)
    <3> DEFINE l == disk[task[w].at]
    <3>1. /\ task'[w].pc = "disk" /\ task'[w].start = clock /\ task'[w].read = l.read
          /\ task[w].at \in Folders /\ l # NoListing
      BY <1>4, DiskHitFacts
    <3>2. clock - l.at <= TTL
      BY <1>4 DEF DiskHit, DiskFresh
    <3>3. l.at = l.read /\ l.at <= clock /\ l.read \in Nat
      BY <1>0, <3>1, CacheFacts DEF AgeDisk, TypeInv
    <3> HIDE DEF l
    <3> QED BY <1>0, <3>1, <3>2, <3>3 DEF AgeTask
  <2> QED BY <1>q, <1>m, <1>d, <1>o, <2>1, <2>2, <2>3
<1>5. ASSUME NEW w \in Workers, FillMemory(w) \/ KeepListing(w) PROVE AgeInv'
  <2> DEFINE t == task[w]
  <2>1. /\ clock' = clock /\ disk' = disk /\ t.pc \in {"disk", "pages"}
        /\ memory' = [memory EXCEPT ![t.at] = Listing(t.start, t.names, t.read, ~t.clean)]
    BY <1>5 DEF FillMemory, KeepListing, bounds
  <2>2. /\ t.at \in Folders /\ t.at <= Len(rows) /\ t.start \in Nat /\ NamesOK(t.names, rows)
        /\ t.read \in Nat /\ (~t.clean) \in BOOLEAN
    BY <2>1, KeptFacts DEF Looking
  <2>3. t.start - t.read <= TTL /\ t.start <= clock /\ t.read <= clock
    BY <1>0, <2>1, <2>2, FolderFacts DEF AgeTask
  <2>4. Mem
    <3>1. /\ memory'[t.at].at = t.start /\ memory'[t.at].read = t.read
          /\ \A q \in Folders : q # t.at => memory'[q] = memory[q]
      BY <1>5, MemoryFilled
    <3>2. ASSUME NEW p \in Folders PROVE AgeMemory(memory'[p], clock)
      <4>1. CASE p = t.at
        BY <2>3, <3>1, <4>1 DEF AgeMemory
      <4>2. CASE p # t.at
        BY <1>0, <3>1, <4>2
      <4> QED BY <4>1, <4>2
    <3> QED BY <2>1, <3>2 DEF Mem
  <2>5. AgeTask(task'[w], clock) /\ Only(w)
    <3>1. CASE FillMemory(w)
      BY <1>w, <3>1, WalkFacts
    <3>2. CASE KeepListing(w)
      BY <1>0, <3>2, KeepListingFacts DEF AgeTask
    <3> QED BY <1>5, <3>1, <3>2
  <2> QED BY <1>q, <1>d, <1>o, <2>1, <2>4, <2>5
<1>6. ASSUME NEW w \in Workers, Miss(w) PROVE AgeInv'
  <2>1. memory' = memory /\ disk' = disk /\ clock' = clock
    BY <1>6 DEF Miss, bounds
  <2>2. AgeTask(task'[w], clock) /\ Only(w)
    BY <1>0, <1>6, MissFacts DEF AgeTask
  <2> QED BY <1>q, <1>m, <1>d, <1>o, <2>1, <2>2
<1>7. ASSUME NEW w \in Workers, NEW kind \in Kinds, ReadPage(w, kind) PROVE AgeInv'
  <2>1. memory' = memory /\ disk' = disk /\ clock' = clock
    BY <1>7 DEF ReadPage, bounds
  <2>2. AgeTask(task'[w], clock) /\ Only(w)
    BY <1>0, <1>7, ReadPageFacts DEF AgeTask
  <2> QED BY <1>q, <1>m, <1>d, <1>o, <2>1, <2>2
<1>8. ASSUME NEW w \in Workers, Persist(w) PROVE AgeInv'
  <2> DEFINE t == task[w]
  <2>1. /\ clock' = clock /\ memory' = memory /\ t.pc = "persist"
        /\ disk' = [disk EXCEPT ![t.at] = Listing(t.start, t.names, t.read, ~t.clean)]
    BY <1>8 DEF Persist, bounds
  <2>2. /\ t.at \in Folders /\ t.at <= Len(rows) /\ t.start \in Nat /\ NamesOK(t.names, rows)
        /\ t.read \in Nat /\ (~t.clean) \in BOOLEAN
    BY <2>1, KeptFacts DEF Looking
  <2>3. t.start = t.read /\ t.start <= clock
    BY <1>0, <2>1 DEF AgeTask
  <2>4. Dsk
    <3>1. /\ disk'[t.at].at = t.start /\ disk'[t.at].read = t.read
          /\ \A q \in Folders : q # t.at => disk'[q] = disk[q]
      BY <1>8, DiskFilled
    <3>2. ASSUME NEW p \in Folders PROVE AgeDisk(disk'[p], clock)
      <4>1. CASE p = t.at
        BY <2>3, <3>1, <4>1 DEF AgeDisk
      <4>2. CASE p # t.at
        BY <1>0, <3>1, <4>2
      <4> QED BY <4>1, <4>2
    <3> QED BY <2>1, <3>2 DEF Dsk
  <2>5. AgeTask(task'[w], clock) /\ Only(w)
    BY <1>8, <1>w, WalkFacts
  <2> QED BY <1>q, <1>m, <1>o, <2>1, <2>4, <2>5
<1>9. ASSUME NEW w \in Workers, PartsKnown(w) \/ PostFails(w) \/ KeepTable(w) PROVE AgeInv'
  <2>1. memory' = memory /\ disk' = disk /\ clock' = clock
    BY <1>9 DEF PartsKnown, PostFails, KeepTable, bounds
  <2>2. AgeTask(task'[w], clock) /\ Only(w)
    BY <1>9, <1>w, EndFacts
  <2> QED BY <1>q, <1>m, <1>d, <1>o, <2>1, <2>2
<1>10. ASSUME NEW w \in Workers, FetchParts(w) \/ FetchGroup(w) PROVE AgeInv'
  <2>1. memory' = memory /\ disk' = disk /\ clock' = clock
    BY <1>10 DEF FetchParts, FetchGroup, bounds
  <2>2. task'[w].pc \in {"table", "post"} /\ Only(w)
    BY <1>10, FetchPartsFacts, FetchGroupFacts
  <2>3. AgeTask(task'[w], clock)
    BY <2>2, AgeNone DEF Looking
  <2> QED BY <1>q, <1>m, <1>d, <1>o, <2>1, <2>2, <2>3
<1>11. ASSUME NEW w \in Workers, Post(w) \/ PostLost(w) PROVE AgeInv'
  <2>1. clock' = clock
    BY <1>11 DEF Post, PostLost, bounds
  <2>2. (\E S : memory' = Doubt(memory, S)) /\ (\E S : disk' = Doubt(disk, S))
    BY <1>11, PostFacts, PostLostFacts
  <2>3. (\E S : Disturbs(w, S)) /\ task'[w].pc \notin Looking
    BY <1>11, <1>i, PostFacts, PostLostFacts DEF Looking
  <2>4. AgeTask(task'[w], clock)
    BY <2>3, AgeNone
  <2> QED BY <1>q, <1>s, <1>u, <1>v, <2>1, <2>2, <2>3, <2>4
<1>12. ASSUME NEW w \in Workers, PopMemory(w) PROVE AgeInv'
  <2>1. disk' = disk /\ clock' = clock
    BY <1>12 DEF PopMemory, bounds
  <2>2. AgeTask(task'[w], clock) /\ Only(w)
    BY <1>12, PopFacts, AgeNone DEF Looking
  <2>3. Mem
    <3>1. ASSUME NEW p \in Folders PROVE AgeMemory(memory'[p], clock)
      <4>1. memory'[p] # NoListing => /\ memory[p] # NoListing /\ memory'[p].at = memory[p].at
                                      /\ memory'[p].read = memory[p].read
        BY <1>12, PopCache
      <4> QED BY <1>0, <4>1 DEF AgeMemory
    <3> QED BY <2>1, <3>1 DEF Mem
  <2> QED BY <1>q, <1>d, <1>o, <2>1, <2>2, <2>3
<1>13. ASSUME NEW w \in Workers, UnlinkDisk(w) PROVE AgeInv'
  <2>1. memory' = memory /\ clock' = clock
    BY <1>13 DEF UnlinkDisk, bounds
  <2>2. task'[w].pc \notin Looking /\ Only(w)
    BY <1>13, <1>i, UnlinkFacts DEF Looking
  <2>3. AgeTask(task'[w], clock)
    BY <2>2, AgeNone
  <2>4. Dsk
    <3>1. ASSUME NEW p \in Folders PROVE AgeDisk(disk'[p], clock)
      <4>1. disk'[p] # NoListing => disk'[p] = disk[p]
        BY <1>13, UnlinkCache
      <4> QED BY <1>0, <4>1 DEF AgeDisk
    <3> QED BY <2>1, <3>1 DEF Dsk
  <2> QED BY <1>q, <1>m, <1>o, <2>1, <2>2, <2>3, <2>4
<1>14. CASE Tick
  <2>1. /\ clock' = clock + 1 /\ memory' = memory /\ disk' = disk /\ task' = task
    BY <1>14 DEF Tick
  <2>2. ASSUME NEW p \in Folders
        PROVE  AgeMemory(memory[p], clock + 1) /\ AgeDisk(disk[p], clock + 1)
    <3>1. /\ memory[p] # NoListing => memory[p].at \in Nat /\ memory[p].read \in Nat
          /\ disk[p] # NoListing => disk[p].at \in Nat
      BY CacheFacts DEF TypeInv
    <3> QED BY <1>0, <3>1 DEF AgeMemory, AgeDisk
  <2>3. ASSUME NEW w \in Workers PROVE AgeTask(task[w], clock + 1)
    <3>1. task[w].pc \in Looking => task[w].start \in Nat /\ task[w].read \in Nat
      BY KeptFacts
    <3> QED BY <1>0, <3>1 DEF AgeTask, Looking
  <2> QED BY <1>q, <2>1, <2>2, <2>3 DEF Mem, Dsk, Tsk
<1>15. CASE Restart
  <2>1. /\ clock' = clock /\ memory' = [p \in Folders |-> NoListing]
        /\ \E S : disk' = Doubt(disk, S)
        /\ task' = [w \in Workers |-> Idle]
    BY <1>15 DEF Restart
  <2>2. Mem
    BY <2>1 DEF Mem, AgeMemory
  <2>3. Tsk
    BY <1>i, <2>1, AgeNone DEF Tsk
  <2> QED BY <1>q, <1>v, <2>1, <2>2, <2>3
<1>16. CASE UNCHANGED vars
  BY <1>16 DEF vars, AgeInv
<1> QED BY <1>1, <1>2, <1>3, <1>4, <1>5, <1>6, <1>7, <1>8, <1>9, <1>10, <1>11, <1>12, <1>13,
           <1>14, <1>15, <1>16 DEF Next

\* A listing a cache may answer with is less than a term old, and so was the read.
LEMMA AgeRecent == TypeInv /\ AgeInv => AnswerIsRecent
<1> SUFFICES ASSUME TypeInv, AgeInv, NEW p \in Folders
             PROVE  /\ MemoryFresh(p) => clock - memory[p].read < 2 * TTL
                    /\ DiskFresh(p) => clock - disk[p].read <= TTL
  BY DEF AnswerIsRecent
<1>1. clock \in Nat /\ TTL \in Nat
  BY FolderFacts DEF TypeInv
<1>2. ASSUME MemoryFresh(p) PROVE clock - memory[p].read < 2 * TTL
  <2>1. memory[p] # NoListing /\ clock - memory[p].at < TTL
    BY <1>2 DEF MemoryFresh
  <2>2. memory[p].at \in Nat /\ memory[p].read \in Nat
    BY <2>1, CacheFacts DEF TypeInv
  <2>3. memory[p].at - memory[p].read <= TTL
    BY <2>1 DEF AgeInv, AgeMemory
  <2> QED BY <1>1, <2>1, <2>2, <2>3
<1>3. ASSUME DiskFresh(p) PROVE clock - disk[p].read <= TTL
  BY <1>3 DEF DiskFresh, AgeInv, AgeDisk
<1> QED BY <1>2, <1>3

\* What a cache may answer with was read from the backend less than two terms ago:
\* list_dir, and _dir_from_disk, which gives a copy from the disk a new term.
THEOREM RecentAnswers == Spec => []AnswerIsRecent
BY Typed, AgeInit, AgeStep, AgeRecent, PTL DEF Spec

\* With the ages, the types are TypeOK.
LEMMA TypeHolds == TypeInv /\ AgeInv => TypeOK
<1> SUFFICES ASSUME TypeInv, AgeInv PROVE TypeOK
  OBVIOUS
<1>0. RowsOK(rows) /\ CacheOK(memory, rows) /\ CacheOK(disk, rows)
  BY DEF TypeInv
<1>1. ASSUME NEW i \in DOMAIN rows
      PROVE  /\ rows[i].parent \in Root .. Len(rows)
             /\ ~rows[i].dir => ToSet(rows[i].parts) # {}
  <2>1. i \in Nat /\ i # Root /\ i <= Len(rows)
    BY <1>0 DEF RowsOK, Root
  <2>2. /\ rows[i].parent \in Nat /\ rows[i].parent <= Len(rows) /\ rows[i].parts \in Seq(Part)
        /\ ~rows[i].dir => rows[i].parts # <<>>
    BY <1>0, <2>1, RowFacts
  <2>3. ~rows[i].dir => ToSet(rows[i].parts) # {}
    <3> SUFFICES ASSUME rows[i].parts # <<>> PROVE ToSet(rows[i].parts) # {}
      BY <2>2
    <3>1. 1 \in DOMAIN rows[i].parts
      BY <2>2
    <3> QED BY <3>1 DEF ToSet
  <2> QED BY <1>0, <2>2, <2>3 DEF RowsOK, Root
<1>2. ASSUME NEW p \in Folders, NEW c \in {memory[p], disk[p]} \ {NoListing}
      PROVE  /\ c.at <= clock /\ c.read <= clock /\ c.suspect \in BOOLEAN
             /\ \A e \in c.names : e.row \in DOMAIN rows
  <2>1. c \in ListingType /\ NamesOK(c.names, rows) /\ c.suspect \in BOOLEAN
    BY <1>0, CacheFacts
  <2>2. c.at <= clock /\ c.read <= clock
    BY DEF AgeInv, AgeMemory, AgeDisk
  <2> QED BY <2>1, <2>2 DEF NamesOK
<1>3. ASSUME NEW w \in Workers
      PROVE  task[w].pc \in {"idle", "walk", "disk", "pages", "persist", "parts", "table",
                              "group", "post", "pop", "unlink"}
  BY TaskFacts DEF Idle, Busy, Walking, Looking, Changes
<1>4. Len(rows) <= MaxRows
  BY <1>0 DEF RowsOK
<1> QED BY <1>1, <1>2, <1>3, <1>4 DEF TypeOK

\* Rows, caches and the request of every worker keep their types: what a listing names
\* exists, and nothing a cache holds is from the future.
THEOREM DriveTypes == Spec => []TypeOK
BY Typed, AgeInit, AgeStep, TypeHolds, PTL DEF Spec

-----------------------------------------------------------------------------
(* A cached listing is what the folder holds *)

\* What a request under way means for a cached listing of p: its row p is still to lose
\* from memory, or the whole listing to go from memory, from the disk, or either.
Dies(t, p) == t.pc = "pop" /\ t.ask.kind = "delete" /\ t.from = p /\ p \in t.touched
Pops(t, p) == t.pc = "pop" /\ t.ask.kind # "delete" /\ p \in t.touched
Drops(t, p) ==
  t.pc \in {"pop", "unlink"} /\ p \in t.touched /\ (t.ask.kind = "delete" => t.from = p)
Alters(t, p) == t.pc \in {"pop", "unlink"} /\ p \in t.touched

Dying(T, p) == {T[w].source : w \in {v \in Workers : Dies(T[v], p)}}
Popping(T, p) == \E w \in Workers : Pops(T[w], p)
Dropping(T, p) == \E w \in Workers : Drops(T[w], p)
Altering(T, p) == \E w \in Workers : Alters(T[w], p)

Label(R, i) == [row |-> i, name |-> R[i].name]
NowIn(R, p) == {Label(R, i) : i \in Kids(R, p)}
KindIn(R, p, k) == {i \in Kids(R, p) : R[i].dir = (k = "folders")}
\* The rows read so far, of each kind.
Listed(R, p, names, count) ==
  \A e : e \in names <=>
           \E k \in Kinds : \E j \in 1 .. count[k] : e = Label(R, InOrder(KindIn(R, p, k))[j])
Seen(R, t) ==
  IF t.pc = "pages"
  THEN /\ Listed(R, t.at, t.names, t.count)
       /\ \A k \in Kinds : LET c == Cardinality(KindIn(R, t.at, k)) IN
                           /\ t.count[k] = PageCount(t.page[k], c)
                           /\ k \notin t.more => t.count[k] = c
  ELSE t.names = NowIn(R, t.at)

MemoryOK(R, T, l, p) ==
  Folder(R, p) /\ l # NoListing /\ ~l.suspect /\ ~Popping(T, p) =>
    {e \in l.names : e.row \notin Dying(T, p)} = NowIn(R, p)
DiskOK(R, T, l, p) ==
  Folder(R, p) /\ l # NoListing /\ ~l.suspect /\ ~Dropping(T, p) => l.names = NowIn(R, p)
LookOK(R, T, t) ==
  t.pc \in Looking /\ t.clean => /\ ~Altering(T, t.at)
                                 /\ Folder(R, t.at) => Seen(R, t)
CacheInv ==
  /\ \A p \in Folders : MemoryOK(rows, task, memory[p], p) /\ DiskOK(rows, task, disk[p], p)
  /\ \A w \in Workers : LookOK(rows, task, task[w])

\* The model's operators are these at the rows and requests of the state.
LEMMA SameNow ==
    ASSUME NEW p
    PROVE  /\ IsFolder(p) <=> Folder(rows, p)
           /\ Children(p) = Kids(rows, p)
           /\ Now(p) = NowIn(rows, p)
           /\ \A k : OfKind(p, k) = KindIn(rows, p, k)
           /\ \A i : Name(i) = Label(rows, i)
           /\ Changing(p) <=> Altering(task, p)
<1>1. Children(p) = Kids(rows, p)
  BY DEF Children, Kids
<1>2. \A i : Name(i) = Label(rows, i)
  BY DEF Name, Label
<1>3. Now(p) = NowIn(rows, p)
  BY <1>1, <1>2 DEF Now, NowIn
<1>4. \A k : OfKind(p, k) = KindIn(rows, p, k)
  BY <1>1 DEF OfKind, KindIn
<1>5. IsFolder(p) <=> Folder(rows, p)
  BY DEF IsFolder, Folder
<1>6. Changing(p) <=> Altering(task, p)
  BY DEF Changing, Altering, Alters
<1> QED BY <1>1, <1>2, <1>3, <1>4, <1>5, <1>6

\* The request u means for p what t meant.
AsBefore(t, u, p) ==
  /\ Dies(u, p) <=> Dies(t, p)
  /\ Dies(t, p) => u.source = t.source
  /\ Pops(u, p) <=> Pops(t, p)
  /\ Drops(u, p) <=> Drops(t, p)
  /\ Alters(u, p) <=> Alters(t, p)

\* Where every request means what it did, the same is about to go.
LEMMA MarkFacts ==
    ASSUME NEW T, NEW U, NEW p, \A v \in Workers : AsBefore(T[v], U[v], p)
    PROVE  /\ Dying(U, p) = Dying(T, p)
           /\ Popping(U, p) <=> Popping(T, p)
           /\ Dropping(U, p) <=> Dropping(T, p)
           /\ Altering(U, p) <=> Altering(T, p)
<1>1. Dying(U, p) = Dying(T, p)
  <2>1. {v \in Workers : Dies(U[v], p)} = {v \in Workers : Dies(T[v], p)}
    BY DEF AsBefore
  <2>2. \A v \in {x \in Workers : Dies(T[x], p)} : U[v].source = T[v].source
    BY DEF AsBefore
  <2> QED BY <2>1, <2>2 DEF Dying
<1>2. Popping(U, p) <=> Popping(T, p)
  BY DEF AsBefore, Popping
<1>3. Dropping(U, p) <=> Dropping(T, p)
  BY DEF AsBefore, Dropping
<1>4. Altering(U, p) <=> Altering(T, p)
  BY DEF AsBefore, Altering
<1> QED BY <1>1, <1>2, <1>3, <1>4

\* One that has nothing to drop means nothing.
LEMMA QuietFacts ==
    ASSUME NEW t, NEW u, t.pc \notin {"pop", "unlink"}, u.pc \notin {"pop", "unlink"}, NEW p
    PROVE  AsBefore(t, u, p)
BY DEF AsBefore, Dies, Pops, Drops, Alters

\* Nor does one that changes another folder, or is only spoiled.
LEMMA ApartFacts ==
    ASSUME NEW t, t.pc \notin {"pop", "unlink"}, NEW u, NEW p, p \notin u.touched
    PROVE  AsBefore(t, u, p)
BY DEF AsBefore, Dies, Pops, Drops, Alters

\* A request that is spoiled means what it did.
LEMMA SpoiledSame ==
    ASSUME NEW R, NEW t, TaskOK(t, R), NEW S, NEW p
    PROVE  AsBefore(t, Spoiled(t, S), p)
<1>1. CASE t.pc \in Looking
  BY <1>1, SpoilFacts, QuietFacts DEF Looking
<1>2. CASE t.pc \notin Looking
  BY <1>2, SpoilFacts DEF AsBefore
<1> QED BY <1>1, <1>2

\* What folds into Changing: nothing changes p, nothing is to go from a cache of it.
LEMMA NoneAltering ==
    ASSUME NEW T, NEW p, ~Altering(T, p)
    PROVE  ~Popping(T, p) /\ ~Dropping(T, p) /\ Dying(T, p) = {}
<1>1. \A w \in Workers : ~Dies(T[w], p) /\ ~Pops(T[w], p) /\ ~Drops(T[w], p)
  BY DEF Altering, Alters, Dies, Pops, Drops
<1> QED BY <1>1 DEF Popping, Dropping, Dying

\* Where nothing changes a folder, nothing is about to go from a cache of it.
LEMMA CacheAgree == CacheInv => CacheAgrees
<1> SUFFICES ASSUME CacheInv, NEW p \in Folders, IsFolder(p), ~Changing(p)
             PROVE  \A c \in {memory[p], disk[p]} : c # NoListing /\ ~c.suspect => c.names = Now(p)
  BY DEF CacheAgrees
<1>1. Folder(rows, p) /\ ~Altering(task, p) /\ Now(p) = NowIn(rows, p)
  BY SameNow
<1>2. MemoryOK(rows, task, memory[p], p) /\ DiskOK(rows, task, disk[p], p)
  BY DEF CacheInv
<1>3. memory[p] # NoListing /\ ~memory[p].suspect => memory[p].names = NowIn(rows, p)
  <2>1. {e \in memory[p].names : e.row \notin {}} = memory[p].names
    OBVIOUS
  <2> QED BY <1>1, <1>2, <2>1, NoneAltering DEF MemoryOK
<1>4. disk[p] # NoListing /\ ~disk[p].suspect => disk[p].names = NowIn(rows, p)
  BY <1>1, <1>2, NoneAltering DEF DiskOK
<1> QED BY <1>1, <1>3, <1>4

\* The listings on the disk as the bridge starts are right.
LEMMA CacheInit == Init => CacheInv
<1> SUFFICES ASSUME Init PROVE CacheInv
  OBVIOUS
<1>1. ASSUME NEW p \in Folders
      PROVE  MemoryOK(rows, task, memory[p], p) /\ DiskOK(rows, task, disk[p], p)
  <2>1. memory[p] = NoListing
    BY DEF Init
  <2>2. disk[p] = NoListing \/ disk[p] = Listing(0, Now(p), 0, FALSE)
    BY DEF Init
  <2>3. disk[p] # NoListing => disk[p].names = NowIn(rows, p)
    BY <2>2, SameNow DEF Listing
  <2> QED BY <2>1, <2>3 DEF MemoryOK, DiskOK
<1>2. ASSUME NEW w \in Workers PROVE LookOK(rows, task, task[w])
  BY DEF Init, LookOK, Idle, Looking
<1> QED BY <1>1, <1>2 DEF CacheInv

\* A folder that a change leaves alone shows the same rows.
LEMMA ViewStays ==
    ASSUME NEW R, RowsOK(R), NEW E, Grows(R, E), NEW S, Stays(R, E, S),
           NEW p \in Folders, p <= Len(R), p \notin S, Folder(E, p)
    PROVE  /\ Folder(R, p)
           /\ \A i \in Kids(R, p) : Label(E, i) = Label(R, i)
           /\ NowIn(E, p) = NowIn(R, p)
           /\ \A k : KindIn(E, p, k) = KindIn(R, p, k)
<1>1. Folder(R, p) /\ Kids(E, p) = Kids(R, p) /\ \A i \in Kids(R, p) : E[i].name = R[i].name
  BY DEF Stays
<1>2. \A i \in Kids(R, p) : Label(E, i) = Label(R, i)
  BY <1>1 DEF Label
<1>3. NowIn(E, p) = NowIn(R, p)
  BY <1>1, <1>2 DEF NowIn
<1>4. \A i \in Kids(R, p) : E[i].dir = R[i].dir
  BY DEF Kids, Grows
<1>5. \A k : KindIn(E, p, k) = KindIn(R, p, k)
  BY <1>1, <1>4 DEF KindIn
<1> QED BY <1>1, <1>2, <1>3, <1>5

\* The rows of one kind in a folder, in order.
LEMMA KindFacts ==
    ASSUME NEW R, RowsOK(R), NEW p, NEW k
    PROVE  LET S == KindIn(R, p, k) IN
           /\ S \in SUBSET (1 .. Len(R)) /\ Len(R) \in Nat /\ Cardinality(S) \in Nat
           /\ \A j \in 1 .. Cardinality(S) : InOrder(S)[j] \in S
           /\ \A x \in S : \E j \in 1 .. Cardinality(S) : InOrder(S)[j] = x
           /\ S \subseteq Kids(R, p)
<1>1. KindIn(R, p, k) \subseteq Kids(R, p)
  BY DEF KindIn
<1>2. Kids(R, p) \in SUBSET (1 .. Len(R)) /\ Len(R) \in Nat
  BY DEF Kids, RowsOK
<1>3. KindIn(R, p, k) \in SUBSET (1 .. Len(R))
  BY <1>1, <1>2
<1>4. KindIn(R, p, k) \in SUBSET (0 .. Len(R))
  BY <1>2, <1>3, FromOne
<1> QED BY <1>1, <1>2, <1>3, <1>4, InOrderFacts

\* What was read of a folder that a change leaves alone is as right as it was.
LEMMA SeenStays ==
    ASSUME NEW R, RowsOK(R), NEW E, Grows(R, E), NEW S, Stays(R, E, S),
           NEW t \in TaskType, t.at <= Len(R), t.at \notin S, Folder(E, t.at), Seen(R, t)
    PROVE  Seen(E, t)
<1> DEFINE p == t.at
<1>0. p \in Folders
  BY DEF TaskType
<1>1. /\ \A i \in Kids(R, p) : Label(E, i) = Label(R, i)
      /\ NowIn(E, p) = NowIn(R, p)
      /\ \A k : KindIn(E, p, k) = KindIn(R, p, k)
  BY <1>0, ViewStays
<1>2. CASE t.pc # "pages"
  BY <1>1, <1>2 DEF Seen
<1>3. CASE t.pc = "pages"
  <2>1. ASSUME NEW k \in Kinds
        PROVE  \A j \in 1 .. t.count[k] : LET i == InOrder(KindIn(R, p, k))[j] IN
                                           Label(E, i) = Label(R, i)
    <3> DEFINE c == Cardinality(KindIn(R, p, k))
    <3>1. t.count[k] = PageCount(t.page[k], c)
      BY <1>3 DEF Seen
    <3>2. c \in Nat /\ \A j \in 1 .. c : InOrder(KindIn(R, p, k))[j] \in Kids(R, p)
      BY KindFacts
    <3>3. t.count[k] \in Nat
      BY DEF TaskType
    <3>4. t.count[k] <= c
      <4> HIDE DEF c
      <4> QED BY <3>1, <3>2, <3>3 DEF PageCount
    <3>5. \A j \in 1 .. t.count[k] : j \in 1 .. c
      <4> HIDE DEF c
      <4> QED BY <3>2, <3>3, <3>4
    <3> QED BY <1>1, <3>2, <3>5
  <2>2. Listed(R, p, t.names, t.count)
    BY <1>3 DEF Seen
  <2>3. Listed(E, p, t.names, t.count)
    BY <1>1, <2>1, <2>2 DEF Listed
  <2> QED BY <1>1, <1>3, <2>3 DEF Seen
<1> QED BY <1>2, <1>3

\* A listing whose pages are all read is the folder's.
LEMMA SeenAll ==
    ASSUME NEW R, RowsOK(R), NEW t, Seen(R, t), t.pc = "pages" => t.more = {}
    PROVE  t.names = NowIn(R, t.at)
<1> DEFINE p == t.at
<1>1. CASE t.pc # "pages"
  BY <1>1 DEF Seen
<1>2. CASE t.pc = "pages"
  <2>1. /\ Listed(R, p, t.names, t.count)
        /\ \A k \in Kinds : t.count[k] = Cardinality(KindIn(R, p, k))
    BY <1>2 DEF Seen
  <2>2. ASSUME NEW e \in t.names PROVE e \in NowIn(R, p)
    <3>1. PICK k \in Kinds : \E j \in 1 .. t.count[k] : e = Label(R, InOrder(KindIn(R, p, k))[j])
      BY <2>1 DEF Listed
    <3>2. PICK j \in 1 .. t.count[k] : e = Label(R, InOrder(KindIn(R, p, k))[j])
      BY <3>1
    <3>3. InOrder(KindIn(R, p, k))[j] \in Kids(R, p)
      BY <2>1, KindFacts
    <3> QED BY <3>2, <3>3 DEF NowIn
  <2>3. ASSUME NEW e \in NowIn(R, p) PROVE e \in t.names
    <3>1. PICK i \in Kids(R, p) : e = Label(R, i)
      BY DEF NowIn
    <3>2. R[i].dir \in BOOLEAN
      <4>1. R[i] \in RowType
        BY DEF Kids, RowsOK
      <4> QED BY <4>1 DEF RowType
    <3>3. PICK k \in Kinds : i \in KindIn(R, p, k)
      <4>1. R[i].dir => i \in KindIn(R, p, "folders")
        BY <3>2 DEF KindIn
      <4>2. ~R[i].dir => i \in KindIn(R, p, "files")
        BY <3>2 DEF KindIn
      <4> QED BY <4>1, <4>2 DEF Kinds
    <3>4. PICK j \in 1 .. t.count[k] : InOrder(KindIn(R, p, k))[j] = i
      BY <2>1, <3>3, KindFacts
    <3> QED BY <2>1, <3>1, <3>4 DEF Listed
  <2> QED BY <2>2, <2>3
<1> QED BY <1>1, <1>2

\* Where a request with nothing to drop goes on, the caches are as right as they were.
LEMMA QuietStep ==
    ASSUME TypeInv, CacheInv, NEW w \in Workers, Only(w), rows' = rows,
           task[w].pc \notin {"pop", "unlink"}, task'[w].pc \notin {"pop", "unlink"}
    PROVE  /\ \A p : /\ Dying(task', p) = Dying(task, p)
                     /\ Popping(task', p) <=> Popping(task, p)
                     /\ Dropping(task', p) <=> Dropping(task, p)
                     /\ Altering(task', p) <=> Altering(task, p)
           /\ \A p \in Folders : /\ MemoryOK(rows, task', memory[p], p)
                                 /\ DiskOK(rows, task', disk[p], p)
           /\ \A v \in Workers : v # w => LookOK(rows, task', task'[v])
           /\ LookOK(rows, task, task'[w]) => LookOK(rows, task', task'[w])
<1>1. ASSUME NEW p, NEW v \in Workers PROVE AsBefore(task[v], task'[v], p)
  <2>1. CASE v = w
    BY <2>1, QuietFacts
  <2>2. CASE v # w
    BY <2>2 DEF Only, AsBefore
  <2> QED BY <2>1, <2>2
<1>2. ASSUME NEW p
      PROVE  /\ Dying(task', p) = Dying(task, p)
             /\ Popping(task', p) <=> Popping(task, p)
             /\ Dropping(task', p) <=> Dropping(task, p)
             /\ Altering(task', p) <=> Altering(task, p)
  BY <1>1, MarkFacts
<1>3. ASSUME NEW p \in Folders
      PROVE  MemoryOK(rows, task', memory[p], p) /\ DiskOK(rows, task', disk[p], p)
  <2>1. MemoryOK(rows, task, memory[p], p) /\ DiskOK(rows, task, disk[p], p)
    BY DEF CacheInv
  <2> QED BY <1>2, <2>1 DEF MemoryOK, DiskOK
<1>4. ASSUME NEW t, LookOK(rows, task, t) PROVE LookOK(rows, task', t)
  BY <1>2, <1>4 DEF LookOK
<1>5. ASSUME NEW v \in Workers, v # w PROVE LookOK(rows, task', task'[v])
  BY <1>4, <1>5 DEF CacheInv, Only
<1> QED BY <1>2, <1>3, <1>4, <1>5

\* And a change of the folders in S, made by w: the caches of the others are as right.
LEMMA ChangeStep ==
    ASSUME TypeInv, CacheInv, NEW w \in Workers, NEW S, Disturbs(w, S),
           Grows(rows, rows'), Stays(rows, rows', S),
           task[w].pc \notin {"pop", "unlink"},
           task'[w].pc \in {"pop", "unlink"} => task'[w].touched = S
    PROVE  /\ \A p : \A v \in Workers : v # w => AsBefore(task[v], task'[v], p)
           /\ \A p \in Folders : p \notin S =>
                /\ MemoryOK(rows', task', memory[p], p)
                /\ DiskOK(rows', task', disk[p], p)
           /\ \A v \in Workers : v # w => LookOK(rows', task', task'[v])
<1>0. RowsOK(rows) /\ CacheOK(memory, rows) /\ CacheOK(disk, rows)
  BY DEF TypeInv
<1>1. ASSUME NEW p, NEW v \in Workers, v # w PROVE AsBefore(task[v], task'[v], p)
  <2>1. TaskOK(task[v], rows)
    BY TaskFacts
  <2>2. task'[v] = Spoiled(task[v], S)
    BY <1>1 DEF Disturbs
  <2> QED BY <2>1, <2>2, SpoiledSame
<1>2. ASSUME NEW p, p \notin S, NEW v \in Workers PROVE AsBefore(task[v], task'[v], p)
  <2>1. CASE v # w
    BY <1>1, <2>1
  <2>2. CASE v = w /\ task'[w].pc \in {"pop", "unlink"}
    BY <1>2, <2>2, ApartFacts
  <2>3. CASE v = w /\ task'[w].pc \notin {"pop", "unlink"}
    BY <2>3, QuietFacts
  <2> QED BY <2>1, <2>2, <2>3
<1>3. ASSUME NEW p, p \notin S
      PROVE  /\ Dying(task', p) = Dying(task, p)
             /\ Popping(task', p) <=> Popping(task, p)
             /\ Dropping(task', p) <=> Dropping(task, p)
             /\ Altering(task', p) <=> Altering(task, p)
  BY <1>2, <1>3, MarkFacts
<1>4. ASSUME NEW p \in Folders, p \notin S
      PROVE  /\ MemoryOK(rows', task', memory[p], p)
             /\ DiskOK(rows', task', disk[p], p)
  <2>1. MemoryOK(rows, task, memory[p], p) /\ DiskOK(rows, task, disk[p], p)
    BY DEF CacheInv
  <2>2. memory[p] # NoListing \/ disk[p] # NoListing => p <= Len(rows)
    BY <1>0, CacheFacts
  <2>3. (memory[p] # NoListing \/ disk[p] # NoListing) /\ Folder(rows', p) =>
          Folder(rows, p) /\ NowIn(rows', p) = NowIn(rows, p)
    BY <1>0, <1>4, <2>2, ViewStays
  <2> QED BY <1>3, <1>4, <2>1, <2>3 DEF MemoryOK, DiskOK
<1>5. ASSUME NEW v \in Workers, v # w PROVE LookOK(rows', task', task'[v])
  <2> DEFINE t == task[v]
  <2>0. TaskOK(t, rows)
    BY TaskFacts
  <2>a. task'[v] = Spoiled(t, S)
    BY <1>5 DEF Disturbs
  <2> SUFFICES ASSUME task'[v].pc \in Looking, task'[v].clean
               PROVE  /\ ~Altering(task', task'[v].at)
                      /\ Folder(rows', task'[v].at) => Seen(rows', task'[v])
    BY DEF LookOK
  <2>1. t.at \notin S /\ task'[v] = t /\ t.pc \in Looking
    BY <2>0, <2>a, SpoilFacts
  <2>2. t \in TaskType /\ t.at <= Len(rows)
    <3>1. t # Idle
      BY <2>1 DEF Idle, Looking
    <3> QED BY <3>1, TaskFacts DEF RowsKnown
  <2>3. LookOK(rows, task, t)
    BY DEF CacheInv
  <2>4. ~Altering(task, t.at) /\ (Folder(rows, t.at) => Seen(rows, t))
    BY <2>1, <2>3 DEF LookOK
  <2>5. ~Altering(task', t.at)
    BY <1>3, <2>1, <2>4
  <2>6. ASSUME Folder(rows', t.at) PROVE Seen(rows', t)
    <3>1. t.at \in Folders
      BY <2>2 DEF TaskType
    <3>2. Folder(rows, t.at)
      BY <1>0, <2>1, <2>2, <2>6, <3>1, ViewStays
    <3> QED BY <1>0, <2>1, <2>2, <2>4, <2>6, <3>2, SeenStays
  <2> QED BY <2>1, <2>5, <2>6
<1> QED BY <1>1, <1>4, <1>5

\* A page adds the next rows of its kind.
LEMMA PageSeen ==
    ASSUME TypeInv, NEW w \in Workers, NEW kind \in Kinds, ReadPage(w, kind),
           Seen(rows, task[w])
    PROVE  Seen(rows, task'[w])
<1> DEFINE t == task[w]
           u == task'[w]
           p == t.at
           all(k) == InOrder(KindIn(rows, p, k))
           c(k) == Cardinality(KindIn(rows, p, k))
           batch == Page(p, kind, t.page[kind])
           got == t.count[kind] + Len(batch)
           last == Len(batch) < PAGE_SIZE \/ got >= Cardinality(OfKind(p, kind))
<1>0. RowsOK(rows)
  BY DEF TypeInv
<1>r. /\ t # Idle /\ t.pc = "pages" /\ u.pc = "pages" /\ p \in Folders /\ Keeps(t, u)
  BY ReadPageFacts
<1>s. \A e : e \in u.names <=> e \in t.names \/ \E i \in ToSet(batch) : e = Name(i)
  BY ReadPageFacts
<1>t. \A k \in Kinds : /\ u.count[k] = IF k = kind THEN got ELSE t.count[k]
                       /\ u.page[k] = IF k = kind THEN t.page[kind] + 1 ELSE t.page[k]
  BY ReadPageFacts
<1>u. u.more = IF last THEN t.more \ {kind} ELSE t.more
  BY ReadPageFacts
<1>1. /\ t # Idle /\ t.pc = "pages" /\ u.pc = "pages" /\ p \in Folders /\ u.at = p
      /\ \A e : e \in u.names <=> e \in t.names \/ \E i \in ToSet(batch) : e = Name(i)
      /\ \A k \in Kinds : /\ u.count[k] = IF k = kind THEN got ELSE t.count[k]
                          /\ u.page[k] = IF k = kind THEN t.page[kind] + 1 ELSE t.page[k]
      /\ u.more = IF last THEN t.more \ {kind} ELSE t.more
  BY <1>r, <1>s, <1>t, <1>u DEF Keeps
<1>m. kind \in t.more
  BY DEF ReadPage
<1>p. p \in Folders
  BY <1>1
<1>2. \A k \in Kinds : t.page[k] \in Nat /\ t.page[k] >= 1 /\ t.count[k] \in Nat
  <2>1. t \in TaskType
    BY <1>1, TaskFacts
  <2> QED BY <2>1 DEF TaskType
<1>3. /\ Listed(rows, p, t.names, t.count)
      /\ \A k \in Kinds : /\ t.count[k] = PageCount(t.page[k], c(k))
                          /\ k \notin t.more => t.count[k] = c(k)
  BY <1>1 DEF Seen
<1>4. c(kind) = Cardinality(OfKind(p, kind)) /\ all(kind) = InOrder(OfKind(p, kind))
  BY SameNow
<1>5. /\ Len(batch) \in Nat
      /\ got = PageCount(t.page[kind] + 1, c(kind))
      /\ \A i : i \in ToSet(batch) <=> \E j \in (t.count[kind] + 1) .. got : i = all(kind)[j]
      /\ last => got = c(kind)
  <2> DEFINE n == t.page[kind]
             had == t.count[kind]
  <2>1. n \in Nat /\ n >= 1 /\ had \in Nat
    BY <1>2
  <2>2. had = PageCount(n, c(kind))
    BY <1>3
  <2>3. Len(batch) \in Nat /\ Follows(batch, all(kind), n, had, c(kind))
    <3> DEFINE bt == batch
               cc == c(kind)
               al == all(kind)
    <3>1. /\ bt = Page(p, kind, n) /\ cc = Cardinality(OfKind(p, kind))
          /\ al = InOrder(OfKind(p, kind))
      BY <1>4
    <3>2. had = PageCount(n, cc)
      BY <2>2
    <3> HIDE DEF bt, cc, al, had, n
    <3>3. Len(bt) \in Nat /\ Follows(bt, al, n, had, cc)
      BY <1>0, <1>p, <2>1, <3>1, <3>2, BatchFacts
    <3> QED BY <3>3 DEF bt, cc, al
  <2>4. (n + 1) - 1 = n
    BY <2>1
  <2> QED BY <1>4, <2>3, <2>4 DEF PageCount, Follows
<1>6. ASSUME NEW e
      PROVE  (\E i \in ToSet(batch) : e = Name(i)) <=>
               \E j \in (t.count[kind] + 1) .. got : e = Label(rows, all(kind)[j])
  <2>1. (\E i \in ToSet(batch) : e = Name(i)) <=> \E i \in ToSet(batch) : e = Label(rows, i)
    BY SameNow
  <2> QED BY <1>5, <2>1
<1> HIDE DEF batch, got, last, t, u, all, c
<1>7. \A j : (j \in 1 .. got) <=> (j \in 1 .. t.count[kind] \/ j \in (t.count[kind] + 1) .. got)
  BY <1>2, <1>5 DEF got
<1>8. Listed(rows, p, u.names, u.count)
  <2> SUFFICES ASSUME NEW e
               PROVE  e \in u.names <=>
                        \E k \in Kinds : \E j \in 1 .. u.count[k] : e = Label(rows, all(k)[j])
    BY DEF Listed, all
  <2>1. e \in t.names <=> \E k \in Kinds : \E j \in 1 .. t.count[k] : e = Label(rows, all(k)[j])
    BY <1>3 DEF Listed, all
  <2>2. e \in u.names <=>
          e \in t.names \/ \E j \in (t.count[kind] + 1) .. got : e = Label(rows, all(kind)[j])
    BY <1>1, <1>6
  <2>3. ASSUME NEW k \in Kinds, k # kind PROVE u.count[k] = t.count[k]
    BY <1>1, <2>3
  <2>4. u.count[kind] = got
    BY <1>1
  <2> QED BY <1>7, <2>1, <2>2, <2>3, <2>4
<1>9. ASSUME NEW k \in Kinds
      PROVE  /\ u.count[k] = PageCount(u.page[k], c(k))
             /\ k \notin u.more => u.count[k] = c(k)
  <2>1. CASE k = kind
    <3>1. /\ u.count[kind] = got /\ u.page[kind] = t.page[kind] + 1
          /\ kind \notin u.more => last
      BY <1>1, <1>m
    <3>2. /\ u.count[kind] = PageCount(u.page[kind], c(kind))
          /\ kind \notin u.more => u.count[kind] = c(kind)
      BY <1>5, <3>1
    <3> QED BY <2>1, <3>2
  <2>2. CASE k # kind
    BY <1>1, <1>3, <2>2
  <2> QED BY <2>1, <2>2
<1>10. \A k \in Kinds : LET d == Cardinality(KindIn(rows, p, k)) IN
                         u.count[k] = PageCount(u.page[k], d) /\ (k \notin u.more => u.count[k] = d)
  BY <1>9 DEF c
<1>11. Seen(rows, u)
  BY <1>1, <1>8, <1>10 DEF Seen
<1> QED BY <1>11 DEF u

\* The listing a request keeps.
LEMMA KeptOK ==
    ASSUME TypeInv, CacheInv, NEW w \in Workers, task[w].pc \in Looking,
           task[w].pc = "pages" => task[w].more = {},
           NEW l, l.names = task[w].names, l.suspect <=> ~task[w].clean
    PROVE  /\ MemoryOK(rows, task, l, task[w].at)
           /\ DiskOK(rows, task, l, task[w].at)
<1> DEFINE t == task[w]
<1>0. RowsOK(rows) /\ t.clean \in BOOLEAN
  BY KeptFacts DEF TypeInv
<1> SUFFICES ASSUME Folder(rows, t.at), ~l.suspect
             PROVE  l.names = NowIn(rows, t.at) /\ Dying(task, t.at) = {}
  BY DEF MemoryOK, DiskOK
<1>1. t.clean /\ LookOK(rows, task, t)
  BY <1>0 DEF CacheInv
<1>2. ~Altering(task, t.at) /\ Seen(rows, t)
  BY <1>1 DEF LookOK
<1> QED BY <1>0, <1>2, SeenAll, NoneAltering

\* What a step that changes no row shows of the caches.
LEMMA CacheSame ==
    ASSUME TypeInv, CacheInv, NEW w \in Workers, Only(w), rows' = rows,
           task[w].pc \notin {"pop", "unlink"}, task'[w].pc \notin {"pop", "unlink"},
           LookOK(rows, task, task'[w]),
           \A p \in Folders : \/ memory'[p] = memory[p]
                              \/ MemoryOK(rows, task, memory'[p], p),
           \A p \in Folders : \/ disk'[p] = disk[p]
                              \/ DiskOK(rows, task, disk'[p], p)
    PROVE  CacheInv'
<1>1. /\ \A p : /\ Dying(task', p) = Dying(task, p)
                /\ Popping(task', p) <=> Popping(task, p)
                /\ Dropping(task', p) <=> Dropping(task, p)
      /\ \A p \in Folders : /\ MemoryOK(rows, task', memory[p], p)
                            /\ DiskOK(rows, task', disk[p], p)
      /\ \A v \in Workers : v # w => LookOK(rows, task', task'[v])
      /\ LookOK(rows, task, task'[w]) => LookOK(rows, task', task'[w])
  BY QuietStep
<1>2. ASSUME NEW p \in Folders PROVE MemoryOK(rows, task', memory'[p], p)
  <2>1. CASE memory'[p] = memory[p]
    BY <1>1, <2>1
  <2>2. CASE MemoryOK(rows, task, memory'[p], p)
    BY <1>1, <2>2 DEF MemoryOK
  <2> QED BY <2>1, <2>2
<1>3. ASSUME NEW p \in Folders PROVE DiskOK(rows, task', disk'[p], p)
  <2>1. CASE disk'[p] = disk[p]
    BY <1>1, <2>1
  <2>2. CASE DiskOK(rows, task, disk'[p], p)
    BY <1>1, <2>2 DEF DiskOK
  <2> QED BY <2>1, <2>2
<1>4. ASSUME NEW v \in Workers PROVE LookOK(rows, task', task'[v])
  BY <1>1
<1> QED BY <1>2, <1>3, <1>4 DEF CacheInv

\* The steps that look a folder up, or end a request.
LEMMA CacheLook ==
    ASSUME TypeInv, CacheInv, NEW w \in Workers,
           \/ \E ask \in Asks : Begin(w, ask)
           \/ MemoryHit(w) \/ DiskHit(w) \/ FillMemory(w) \/ Miss(w) \/ KeepListing(w) \/ Persist(w)
           \/ \E kind \in Kinds : ReadPage(w, kind)
           \/ PartsKnown(w) \/ FetchParts(w) \/ KeepTable(w) \/ FetchGroup(w) \/ PostFails(w)
    PROVE  CacheInv'
<1> DEFINE t == task[w]
           u == task'[w]
           Mem == \A p \in Folders : memory'[p] = memory[p] \/ MemoryOK(rows, task, memory'[p], p)
           Dsk == \A p \in Folders : disk'[p] = disk[p] \/ DiskOK(rows, task, disk'[p], p)
<1>q. ASSUME Only(w), rows' = rows, t.pc \notin {"pop", "unlink"}, u.pc \notin {"pop", "unlink"},
             LookOK(rows, task, u), Mem, Dsk
      PROVE  CacheInv'
  BY <1>q, CacheSame
<1>m. memory' = memory => Mem
  OBVIOUS
<1>d. disk' = disk => Dsk
  OBVIOUS
<1>n. u.pc \notin Looking => LookOK(rows, task, u)
  BY DEF LookOK
<1>i. Idle.pc = "idle"
  BY DEF Idle
<1>l. LookOK(rows, task, t) /\ RowsOK(rows)
  BY DEF CacheInv, TypeInv
<1>w. ASSUME u = Idle \/ Went(t, u, rows) PROVE u.pc \notin Looking \cup {"pop", "unlink"}
  BY <1>i, <1>w DEF Went, Looking
<1>s. (~Changing(t.at) <=> ~Altering(task, t.at)) /\ (IsFolder(t.at) <=> Folder(rows, t.at))
  BY SameNow
<1> HIDE DEF Mem, Dsk
<1>1. ASSUME NEW ask \in Asks, Begin(w, ask) PROVE CacheInv'
  <2>1. memory' = memory /\ disk' = disk /\ rows' = rows
    BY <1>1 DEF Begin
  <2>2. Only(w) /\ t = Idle /\ u.pc \in {"walk", "post"}
    BY <1>1, BeginFacts
  <2> QED BY <1>q, <1>m, <1>d, <1>n, <1>i, <2>1, <2>2 DEF Looking
<1>2. CASE MemoryHit(w)
  <2>1. memory' = memory /\ disk' = disk /\ rows' = rows /\ t.pc = "walk"
    BY <1>2 DEF MemoryHit
  <2>2. Only(w) /\ Went(t, u, rows)
    BY <1>2, WalkFacts
  <2> QED BY <1>q, <1>m, <1>d, <1>n, <1>w, <2>1, <2>2
<1>3. CASE DiskHit(w)
  <2>1. memory' = memory /\ disk' = disk /\ rows' = rows /\ t.pc = "walk"
    BY <1>3 DEF DiskHit
  <2>2. /\ Only(w) /\ u.pc = "disk" /\ u.at = t.at /\ t.at \in Folders
        /\ u.names = disk[t.at].names /\ disk[t.at] # NoListing
        /\ u.clean <=> ~disk[t.at].suspect /\ ~Changing(t.at)
    BY <1>3, DiskHitFacts DEF Keeps
  <2>3. DiskOK(rows, task, disk[t.at], t.at)
    BY <2>2 DEF CacheInv
  <2>4. ASSUME u.clean
        PROVE  ~Altering(task, t.at) /\ (Folder(rows, t.at) => u.names = NowIn(rows, t.at))
    <3>1. ~disk[t.at].suspect /\ ~Altering(task, t.at)
      BY <1>s, <2>2, <2>4
    <3> QED BY <2>2, <2>3, <3>1, NoneAltering DEF DiskOK
  <2>5. LookOK(rows, task, u)
    BY <2>2, <2>4 DEF LookOK, Seen
  <2> QED BY <1>q, <1>m, <1>d, <2>1, <2>2, <2>5
<1>4. CASE FillMemory(w) \/ KeepListing(w)
  <2>1. /\ disk' = disk /\ rows' = rows /\ t.pc \in {"disk", "pages"}
        /\ t.pc = "pages" => t.more = {}
    BY <1>4 DEF FillMemory, KeepListing
  <2>2. /\ t.at \in Folders /\ memory'[t.at].names = t.names
        /\ memory'[t.at].suspect <=> ~t.clean
        /\ \A q \in Folders : q # t.at => memory'[q] = memory[q]
    BY <1>4, MemoryFilled
  <2>3. MemoryOK(rows, task, memory'[t.at], t.at)
    BY <2>1, <2>2, KeptOK DEF Looking
  <2>4. Mem
    BY <2>2, <2>3 DEF Mem
  <2>5. CASE FillMemory(w)
    <3>1. Only(w) /\ Went(t, u, rows)
      BY <2>5, WalkFacts
    <3> QED BY <1>q, <1>d, <1>n, <1>w, <2>1, <2>4, <3>1
  <2>6. CASE KeepListing(w)
    <3>1. /\ Only(w) /\ t.pc = "pages" /\ u.pc = "persist" /\ u.at = t.at
          /\ u.clean = t.clean /\ u.names = t.names
      BY <2>6, KeepListingFacts DEF Keeps
    <3>2. ASSUME t.clean
          PROVE  ~Altering(task, t.at) /\ (Folder(rows, t.at) => u.names = NowIn(rows, t.at))
      <4>1. ~Altering(task, t.at) /\ (Folder(rows, t.at) => Seen(rows, t))
        BY <1>l, <3>1, <3>2 DEF LookOK, Looking
      <4> QED BY <1>l, <2>1, <3>1, <4>1, SeenAll
    <3>3. LookOK(rows, task, u)
      BY <3>1, <3>2 DEF LookOK, Seen
    <3> QED BY <1>q, <1>d, <2>1, <2>4, <3>1, <3>3
  <2> QED BY <1>4, <2>5, <2>6
<1>5. CASE Miss(w)
  <2>1. memory' = memory /\ disk' = disk /\ rows' = rows
    BY <1>5 DEF Miss
  <2>2. /\ Only(w) /\ t.pc = "walk" /\ u.pc = "pages" /\ u.at = t.at
        /\ u.names = {} /\ u.more = Kinds
        /\ u.clean <=> ~Changing(t.at)
        /\ \A k \in Kinds : u.page[k] = 1 /\ u.count[k] = 0
    BY <1>5, MissFacts DEF Keeps
  <2>3. ASSUME NEW k \in Kinds
        PROVE  LET d == Cardinality(KindIn(rows, t.at, k)) IN u.count[k] = PageCount(u.page[k], d)
    <3> DEFINE d == Cardinality(KindIn(rows, t.at, k))
    <3>1. d \in Nat
      BY <1>l, KindFacts
    <3> HIDE DEF d
    <3>2. PageCount(1, d) = 0
      BY <3>1, FolderFacts DEF PageCount
    <3> QED BY <2>2, <3>2 DEF d
  <2>4. Listed(rows, t.at, u.names, u.count)
    <3>1. \A k \in Kinds : 1 .. u.count[k] = {}
      BY <2>2
    <3> QED BY <2>2, <3>1 DEF Listed
  <2>5. LookOK(rows, task, u)
    BY <1>s, <2>2, <2>3, <2>4 DEF LookOK, Seen
  <2> QED BY <1>q, <1>m, <1>d, <2>1, <2>2, <2>5
<1>6. ASSUME NEW kind \in Kinds, ReadPage(w, kind) PROVE CacheInv'
  <2>1. memory' = memory /\ disk' = disk /\ rows' = rows
    BY <1>6 DEF ReadPage
  <2>2. Only(w) /\ t.pc = "pages" /\ u.pc = "pages" /\ u.at = t.at /\ u.clean = t.clean
    BY <1>6, ReadPageFacts DEF Keeps
  <2>3. Seen(rows, t) => Seen(rows, u)
    BY <1>6, PageSeen
  <2>4. LookOK(rows, task, u)
    BY <1>l, <2>2, <2>3 DEF LookOK, Looking
  <2> QED BY <1>q, <1>m, <1>d, <2>1, <2>2, <2>4
<1>7. CASE Persist(w)
  <2>1. memory' = memory /\ rows' = rows /\ t.pc = "persist"
    BY <1>7 DEF Persist
  <2>2. /\ t.at \in Folders /\ disk'[t.at].names = t.names
        /\ disk'[t.at].suspect <=> ~t.clean
        /\ \A q \in Folders : q # t.at => disk'[q] = disk[q]
    BY <1>7, DiskFilled
  <2>3. DiskOK(rows, task, disk'[t.at], t.at)
    BY <2>1, <2>2, KeptOK DEF Looking
  <2>4. Dsk
    BY <2>2, <2>3 DEF Dsk
  <2>5. Only(w) /\ Went(t, u, rows)
    BY <1>7, WalkFacts
  <2> QED BY <1>q, <1>m, <1>n, <1>w, <2>1, <2>4, <2>5
<1>8. CASE PartsKnown(w) \/ KeepTable(w) \/ PostFails(w)
  <2>1. memory' = memory /\ disk' = disk /\ rows' = rows
    BY <1>8 DEF PartsKnown, KeepTable, PostFails
  <2>2. Only(w) /\ t.pc \in {"parts", "table", "post"} /\ u = Idle
    BY <1>8, EndFacts
  <2> QED BY <1>q, <1>m, <1>d, <1>n, <1>w, <2>1, <2>2
<1>9. CASE FetchParts(w) \/ FetchGroup(w)
  <2>1. memory' = memory /\ disk' = disk /\ rows' = rows
    BY <1>9 DEF FetchParts, FetchGroup
  <2>2. Only(w) /\ t.pc \in {"parts", "group"} /\ u.pc \in {"table", "post"}
    BY <1>9, FetchPartsFacts, FetchGroupFacts
  <2> QED BY <1>q, <1>m, <1>d, <1>n, <2>1, <2>2 DEF Looking
<1> QED BY <1>1, <1>2, <1>3, <1>4, <1>5, <1>6, <1>7, <1>8, <1>9

\* The rows of a listing that are not about to go.
Alive(names, D) == {e \in names : e.row \notin D}

\* The folder of a deleted row shows the others.
ShowsRest(R, E, p, k) ==
  /\ Kids(E, p) = Kids(R, p) \ {k}
  /\ \A i \in Kids(R, p) : E[i].name = R[i].name
\* Without the deleted row, a listing is what the folder shows then.
LEMMA KillNow ==
    ASSUME NEW R, NEW E, NEW p, NEW k, ShowsRest(R, E, p, k),
           NEW names, NEW D, Alive(names, D) = NowIn(R, p)
    PROVE  Alive(names, D \cup {k}) = NowIn(E, p)
<1>1. \A i \in Kids(R, p) : Label(E, i) = Label(R, i) /\ Label(R, i).row = i
  BY DEF Label, ShowsRest
<1>0. Kids(E, p) = Kids(R, p) \ {k}
  BY DEF ShowsRest
<1>2. ASSUME NEW e \in Alive(names, D \cup {k}) PROVE e \in NowIn(E, p)
  <2>1. e \in Alive(names, D) /\ e.row # k
    BY DEF Alive
  <2>2. PICK i \in Kids(R, p) : e = Label(R, i)
    BY <2>1 DEF NowIn
  <2> QED BY <1>0, <1>1, <2>1, <2>2 DEF NowIn
<1>3. ASSUME NEW e \in NowIn(E, p) PROVE e \in Alive(names, D \cup {k})
  <2>1. PICK i \in Kids(E, p) : e = Label(E, i)
    BY DEF NowIn
  <2>2. i \in Kids(R, p) /\ i # k /\ e = Label(R, i) /\ e.row = i
    BY <1>0, <1>1, <2>1
  <2>3. e \in Alive(names, D)
    BY <2>2 DEF NowIn
  <2> QED BY <2>2, <2>3 DEF Alive
<1> QED BY <1>2, <1>3

\* A delete adds its row to those about to go from the folder it was found in.
LEMMA DyingMore ==
    ASSUME NEW T, NEW U, NEW p, NEW w \in Workers, ~Dies(T[w], p), Dies(U[w], p),
           \A v \in Workers : v # w => AsBefore(T[v], U[v], p)
    PROVE  Dying(U, p) = Dying(T, p) \cup {U[w].source}
<1>1. ASSUME NEW x \in Dying(U, p) PROVE x \in Dying(T, p) \cup {U[w].source}
  <2>1. PICK v \in Workers : Dies(U[v], p) /\ x = U[v].source
    BY DEF Dying
  <2> QED BY <2>1 DEF Dying, AsBefore
<1>2. ASSUME NEW x \in Dying(T, p) PROVE x \in Dying(U, p)
  <2>1. PICK v \in Workers : Dies(T[v], p) /\ x = T[v].source
    BY DEF Dying
  <2> QED BY <2>1 DEF Dying, AsBefore
<1>3. U[w].source \in Dying(U, p)
  BY DEF Dying
<1> QED BY <1>1, <1>2, <1>3

\* A change of rows: its folders' listings are dropped, doubted, or lose the row.
LEMMA CachePost ==
    ASSUME TypeInv, CacheInv, NEW w \in Workers, Post(w)
    PROVE  CacheInv'
<1> DEFINE t == task[w]
           u == task'[w]
           E == Effect(t).rows
           S == Effect(t).touched
           missed == IF t.ask.kind = "delete" THEN S \ {t.from} ELSE {}
<1>1. /\ Disturbs(w, S) /\ rows' = E /\ Len(E) <= MaxRows
      /\ memory' = Doubt(memory, missed) /\ disk' = Doubt(disk, missed)
      /\ t # Idle /\ t.pc = "post" /\ u.pc = "pop"
      /\ u.ask = t.ask /\ u.source = t.source /\ u.from = t.from /\ u.touched = S
  BY PostFacts
<1>0. RowsOK(rows) /\ CacheOK(memory, rows) /\ CacheOK(disk, rows)
  BY DEF TypeInv
<1>t. TaskOK(t, rows)
  BY TaskFacts
<1>2. Grows(rows, E) /\ Stays(rows, E, S) /\ Kills(t, E)
  BY <1>0, <1>1, <1>t, EffectFacts
<1>e. t.ask.kind = "delete" =>
        /\ S = {rows[t.source].parent}
        /\ Folder(E, rows[t.source].parent) =>
             /\ Folder(rows, rows[t.source].parent)
             /\ Kids(E, rows[t.source].parent) = Kids(rows, rows[t.source].parent) \ {t.source}
             /\ \A i \in Kids(rows, rows[t.source].parent) : E[i].name = rows[i].name
  BY <1>2 DEF Kills
<1> HIDE DEF E, S
<1>3. /\ \A p : \A v \in Workers : v # w => AsBefore(task[v], task'[v], p)
      /\ \A p \in Folders : p \notin S => /\ MemoryOK(rows', task', memory[p], p)
                                          /\ DiskOK(rows', task', disk[p], p)
      /\ \A v \in Workers : v # w => LookOK(rows', task', task'[v])
  <2>1. Grows(rows, rows') /\ Stays(rows, rows', S)
    BY <1>1, <1>2
  <2> HIDE DEF t, u
  <2> QED BY <1>1, <2>1, ChangeStep DEF t, u
<1>4. LookOK(rows', task', u)
  BY <1>1 DEF LookOK, Looking
<1>5. ASSUME NEW p \in Folders PROVE MemoryOK(rows', task', memory'[p], p)
  <2> SUFFICES ASSUME Folder(E, p), memory'[p] # NoListing, ~memory'[p].suspect, ~Popping(task', p)
               PROVE  Alive(memory'[p].names, Dying(task', p)) = NowIn(E, p)
    BY <1>1 DEF MemoryOK, Alive
  <2>1. /\ p \notin missed /\ memory[p] # NoListing /\ ~memory[p].suspect
        /\ memory'[p].names = memory[p].names
    BY <1>0, <1>1, DoubtFacts
  <2>2. CASE p \notin S
    <3>1. memory'[p] = memory[p]
      BY <1>0, <1>1, <2>1, DoubtFacts
    <3> QED BY <1>1, <1>3, <2>2, <3>1 DEF MemoryOK, Alive
  <2>3. CASE p \in S
    <3>1. ~Pops(u, p)
      BY DEF Popping
    <3>2. t.ask.kind = "delete" /\ p = t.from /\ p = rows[t.source].parent
      BY <1>1, <1>e, <2>1, <2>3, <3>1 DEF Pops
    <3>3. /\ Folder(rows, p) /\ Kids(E, p) = Kids(rows, p) \ {t.source}
          /\ \A i \in Kids(rows, p) : E[i].name = rows[i].name
      BY <1>e, <3>2
    <3>4. ~Popping(task, p)
      <4>1. ASSUME NEW v \in Workers PROVE ~Pops(task[v], p)
        <5>1. CASE v = w
          BY <1>1, <5>1 DEF Pops
        <5>2. CASE v # w
          BY <1>3, <5>2 DEF Popping, AsBefore
        <5> QED BY <5>1, <5>2
      <4> QED BY <4>1 DEF Popping
    <3>5. Alive(memory[p].names, Dying(task, p)) = NowIn(rows, p)
      BY <2>1, <3>3, <3>4 DEF CacheInv, MemoryOK, Alive
    <3>6. Dying(task', p) = Dying(task, p) \cup {t.source}
      <4>1. ~Dies(t, p)
        BY <1>1 DEF Dies
      <4>2. u.pc = "pop" /\ u.ask.kind = "delete" /\ u.from = p /\ p \in u.touched
        BY <1>1, <2>3, <3>2
      <4>3. Dies(u, p)
        BY <4>2 DEF Dies
      <4>4. ASSUME NEW v \in Workers PROVE AsBefore(task[v], task'[v], p) \/ v = w
        BY <1>3
      <4>5. Dying(task', p) = Dying(task, p) \cup {u.source}
        BY <4>1, <4>3, <4>4, DyingMore
      <4> QED BY <1>1, <4>5
    <3>7. ShowsRest(rows, E, p, t.source)
      BY <3>3 DEF ShowsRest
    <3>8. Alive(memory[p].names, Dying(task, p) \cup {t.source}) = NowIn(E, p)
      BY <3>5, <3>7, KillNow
    <3> QED BY <2>1, <3>6, <3>8
  <2> QED BY <2>2, <2>3
<1>6. ASSUME NEW p \in Folders PROVE DiskOK(rows', task', disk'[p], p)
  <2> SUFFICES ASSUME disk'[p] # NoListing, ~disk'[p].suspect, ~Dropping(task', p), Folder(E, p)
               PROVE  disk'[p].names = NowIn(E, p)
    BY <1>1 DEF DiskOK
  <2>1. p \notin missed /\ disk'[p] = disk[p]
    BY <1>0, <1>1, DoubtFacts
  <2>2. ~Drops(u, p)
    BY DEF Dropping
  <2>3. p \notin S
    BY <1>1, <2>1, <2>2 DEF Drops
  <2> QED BY <1>1, <1>3, <2>1, <2>3 DEF DiskOK
<1> QED BY <1>3, <1>4, <1>5, <1>6 DEF CacheInv

\* A change the bridge never learns of: its folders are doubted.
LEMMA CachePostLost ==
    ASSUME TypeInv, CacheInv, NEW w \in Workers, PostLost(w)
    PROVE  CacheInv'
<1> DEFINE t == task[w]
           u == task'[w]
           E == Effect(t).rows
           T == Effect(t).touched
<1>1. /\ Disturbs(w, T) /\ u = Idle /\ rows' = E /\ Len(E) <= MaxRows
      /\ memory' = Doubt(memory, T) /\ disk' = Doubt(disk, T) /\ t # Idle /\ t.pc = "post"
  BY PostLostFacts
<1>0. RowsOK(rows) /\ CacheOK(memory, rows) /\ CacheOK(disk, rows)
  BY DEF TypeInv
<1>t. TaskOK(t, rows)
  BY TaskFacts
<1>2. Grows(rows, E) /\ Stays(rows, E, T)
  BY <1>0, <1>1, <1>t, EffectFacts
<1>i. u.pc = "idle"
  BY <1>1 DEF Idle
<1> HIDE DEF E, T
<1>3. /\ \A p \in Folders : p \notin T => /\ MemoryOK(rows', task', memory[p], p)
                                          /\ DiskOK(rows', task', disk[p], p)
      /\ \A v \in Workers : v # w => LookOK(rows', task', task'[v])
  <2>1. Grows(rows, rows') /\ Stays(rows, rows', T)
    BY <1>1, <1>2
  <2> HIDE DEF t, u
  <2> QED BY <1>1, <1>i, <2>1, ChangeStep DEF t, u
<1>4. LookOK(rows', task', u)
  BY <1>i DEF LookOK, Looking
<1>5. ASSUME NEW p \in Folders PROVE MemoryOK(rows', task', memory'[p], p)
  <2>1. CASE p \in T
    <3>1. memory'[p] # NoListing => memory'[p].suspect
      BY <1>0, <1>1, <2>1, DoubtFacts
    <3> QED BY <3>1 DEF MemoryOK
  <2>2. CASE p \notin T
    BY <1>0, <1>1, <1>3, <2>2, DoubtFacts
  <2> QED BY <2>1, <2>2
<1>6. ASSUME NEW p \in Folders PROVE DiskOK(rows', task', disk'[p], p)
  <2>1. CASE p \in T
    <3>1. disk'[p] # NoListing => disk'[p].suspect
      BY <1>0, <1>1, <2>1, DoubtFacts
    <3> QED BY <3>1 DEF DiskOK
  <2>2. CASE p \notin T
    BY <1>0, <1>1, <1>3, <2>2, DoubtFacts
  <2> QED BY <2>1, <2>2
<1> QED BY <1>3, <1>4, <1>5, <1>6 DEF CacheInv

\* A change at the web page, until the bridge is told.
LEMMA CacheWeb ==
    ASSUME TypeInv, CacheInv, NEW w \in Workers, NEW k \in DOMAIN rows, WebChange(w, k)
    PROVE  CacheInv'
<1> DEFINE t == task[w]
           u == task'[w]
           T == {rows[k].parent}
<1>0. memory' = memory /\ disk' = disk
  BY DEF WebChange
<1>1. /\ Disturbs(w, T) /\ t = Idle /\ Grows(rows, rows') /\ Stays(rows, rows', T)
      /\ u.pc = "pop" /\ u.ask = WebAsk /\ u.touched = T
  BY WebFacts
<1>i. t.pc = "idle"
  BY <1>1 DEF Idle
<1> HIDE DEF T
<1>3. /\ \A p \in Folders : p \notin T => /\ MemoryOK(rows', task', memory[p], p)
                                          /\ DiskOK(rows', task', disk[p], p)
      /\ \A v \in Workers : v # w => LookOK(rows', task', task'[v])
  <2> HIDE DEF t, u
  <2> QED BY <1>1, <1>i, ChangeStep DEF t, u
<1>4. LookOK(rows', task', u)
  BY <1>1 DEF LookOK, Looking
<1>5. ASSUME NEW p \in T PROVE Popping(task', p) /\ Dropping(task', p)
  <2>1. Pops(u, p) /\ Drops(u, p)
    BY <1>1 DEF Pops, Drops, WebAsk
  <2> QED BY <2>1 DEF Popping, Dropping
<1>6. ASSUME NEW p \in Folders
      PROVE  MemoryOK(rows', task', memory[p], p) /\ DiskOK(rows', task', disk[p], p)
  BY <1>3, <1>5 DEF MemoryOK, DiskOK
<1> QED BY <1>0, <1>3, <1>4, <1>6 DEF CacheInv

\* The worker drops what it touched from memory.
LEMMA CachePop ==
    ASSUME TypeInv, CacheInv, NEW w \in Workers, PopMemory(w)
    PROVE  CacheInv'
<1> DEFINE t == task[w]
           u == task'[w]
<1>1. /\ Only(w) /\ t # Idle /\ t.pc = "pop" /\ u.pc = "unlink"
      /\ u.ask = t.ask /\ u.from = t.from /\ u.touched = t.touched
  BY PopFacts DEF Keeps
<1>2. rows' = rows /\ disk' = disk
  BY DEF PopMemory
<1>3. ChangeInv(t, rows) /\ t \in TaskType
  BY <1>1, TaskFacts
<1>4. ASSUME NEW v \in Workers, v # w, NEW p PROVE AsBefore(task[v], task'[v], p)
  BY <1>1, <1>4 DEF Only, AsBefore
<1>5. ASSUME NEW p, NEW v \in Workers
      PROVE  /\ Drops(task'[v], p) <=> Drops(task[v], p)
             /\ Alters(task'[v], p) <=> Alters(task[v], p)
  <2>1. CASE v = w
    BY <1>1, <2>1 DEF Drops, Alters
  <2>2. CASE v # w
    BY <1>4, <2>2 DEF AsBefore
  <2> QED BY <2>1, <2>2
<1>6. \A p : (Dropping(task', p) <=> Dropping(task, p)) /\ 
             (Altering(task', p) <=> Altering(task, p))
  BY <1>5 DEF Dropping, Altering
<1>7. ASSUME NEW v \in Workers PROVE LookOK(rows, task', task'[v])
  <2>1. CASE v = w
    BY <1>1, <2>1 DEF LookOK, Looking
  <2>2. CASE v # w
    <3>1. task'[v] = task[v]
      BY <1>1, <2>2 DEF Only
    <3> QED BY <1>6, <3>1 DEF CacheInv, LookOK
  <2> QED BY <2>1, <2>2
<1>8. ASSUME NEW p \in Folders PROVE DiskOK(rows, task', disk[p], p)
  BY <1>6 DEF CacheInv, DiskOK
<1>9. ASSUME NEW p \in Folders PROVE MemoryOK(rows, task', memory'[p], p)
  <2> SUFFICES ASSUME Folder(rows, p), memory'[p] # NoListing, ~memory'[p].suspect,
                        ~Popping(task', p)
               PROVE  Alive(memory'[p].names, Dying(task', p)) = NowIn(rows, p)
    BY DEF MemoryOK, Alive
  <2>1. /\ memory[p] # NoListing /\ ~memory[p].suspect
        /\ memory'[p].names = IF t.ask.kind = "delete" /\ t.from = p
                              THEN Alive(memory[p].names, {t.source}) ELSE memory[p].names
        /\ t.ask.kind # "delete" => p \notin Dropped(t)
    <3>1. {e \in memory[p].names : e.row # t.source} = Alive(memory[p].names, {t.source})
      BY DEF Alive
    <3> QED BY <3>1, PopCache
  <2>2. ~Pops(t, p)
    <3>1. CASE t.ask.kind = "delete"
      BY <3>1 DEF Pops
    <3>2. CASE t.ask.kind \in {"move", "web"}
      BY <2>1, <3>2 DEF Dropped, All
    <3>3. CASE t.ask.kind \in {"put", "copy", "mkcol"}
      <4>1. t.touched = {t.into} /\ Dropped(t) = {t.into}
        BY <1>1, <1>3, <3>3 DEF ChangeInv, Dropped
      <4> QED BY <2>1, <3>3, <4>1 DEF Pops
    <3>4. t.ask.kind \in {"get", "delete", "move", "copy", "mkcol", "put", "web"}
      BY <1>3, AskFacts DEF TaskType, WebAsk
    <3>5. t.ask.kind # "get"
      BY <1>1, <1>3 DEF ChangeInv, Changes
    <3> QED BY <3>1, <3>2, <3>3, <3>4, <3>5
  <2>3. ~Popping(task, p)
    <3>1. ASSUME NEW v \in Workers PROVE ~Pops(task[v], p)
      <4>1. CASE v = w
        BY <2>2, <4>1
      <4>2. CASE v # w
        BY <1>4, <4>2 DEF Popping, AsBefore
      <4> QED BY <4>1, <4>2
    <3> QED BY <3>1 DEF Popping
  <2>4. Alive(memory[p].names, Dying(task, p)) = NowIn(rows, p)
    BY <2>1, <2>3 DEF CacheInv, MemoryOK, Alive
  <2>5. ASSUME NEW v \in Workers PROVE AsBefore(task'[v], task[v], p) \/ v = w
    BY <1>4, <2>5 DEF AsBefore
  <2>6. ~Dies(u, p)
    BY <1>1 DEF Dies
  <2>7. CASE Dies(t, p)
    <3>1. Dying(task, p) = Dying(task', p) \cup {t.source}
      BY <2>5, <2>6, <2>7, DyingMore
    <3>2. memory'[p].names = Alive(memory[p].names, {t.source})
      BY <2>1, <2>7 DEF Dies
    <3>3. Alive(Alive(memory[p].names, {t.source}), Dying(task', p))
            = Alive(memory[p].names, Dying(task', p) \cup {t.source})
      BY DEF Alive
    <3> QED BY <2>4, <3>1, <3>2, <3>3
  <2>8. CASE ~Dies(t, p)
    <3>1. \A v \in Workers : /\ Dies(task'[v], p) <=> Dies(task[v], p)
                             /\ Dies(task[v], p) => task'[v].source = task[v].source
      BY <1>4, <2>6, <2>8 DEF AsBefore
    <3>2. Dying(task', p) = Dying(task, p)
      <4>1. {v \in Workers : Dies(task'[v], p)} = {v \in Workers : Dies(task[v], p)}
        BY <3>1
      <4>2. \A v \in {x \in Workers : Dies(task[x], p)} : task'[v].source = task[v].source
        BY <3>1
      <4> QED BY <4>1, <4>2 DEF Dying
    <3>3. CASE t.ask.kind = "delete" /\ t.from = p
      <4>1. ~rows[t.source].live
        BY <1>1, <1>3, <3>3 DEF ChangeInv
      <4>2. \A e \in NowIn(rows, p) : e.row # t.source
        BY <4>1 DEF NowIn, Label, Kids
      <4>3. \A e \in Alive(memory[p].names, Dying(task, p)) : e.row # t.source
        BY <2>4, <4>2
      <4>4. memory'[p].names = Alive(memory[p].names, {t.source})
        BY <2>1, <3>3
      <4>5. Alive(memory'[p].names, Dying(task, p)) = Alive(memory[p].names, Dying(task, p))
        BY <4>3, <4>4 DEF Alive
      <4> QED BY <2>4, <3>2, <4>5
    <3>4. CASE ~(t.ask.kind = "delete" /\ t.from = p)
      <4>1. memory'[p].names = memory[p].names
        BY <2>1, <3>4
      <4> QED BY <2>4, <3>2, <4>1
    <3> QED BY <3>3, <3>4
  <2> QED BY <2>7, <2>8
<1> QED BY <1>2, <1>7, <1>8, <1>9 DEF CacheInv

\* And from the disk.
LEMMA CacheUnlink ==
    ASSUME TypeInv, CacheInv, NEW w \in Workers, UnlinkDisk(w)
    PROVE  CacheInv'
<1> DEFINE t == task[w]
           u == task'[w]
           gone == IF t.ask.kind = "delete" THEN {t.from} ELSE Dropped(t)
<1>1. Only(w) /\ t # Idle /\ t.pc = "unlink" /\ u.pc \notin {"pop", "unlink"} \cup Looking
  BY UnlinkFacts DEF Idle, Looking
<1>2. rows' = rows /\ memory' = memory
  BY DEF UnlinkDisk
<1>3. ChangeInv(t, rows) /\ t \in TaskType
  BY <1>1, TaskFacts
<1>4. ASSUME NEW v \in Workers, v # w, NEW p PROVE AsBefore(task[v], task'[v], p)
  BY <1>1, <1>4 DEF Only, AsBefore
<1>5. ASSUME NEW p, NEW v \in Workers
      PROVE  /\ Dies(task'[v], p) <=> Dies(task[v], p)
             /\ Dies(task[v], p) => task'[v].source = task[v].source
             /\ Pops(task'[v], p) <=> Pops(task[v], p)
             /\ Alters(task'[v], p) => Alters(task[v], p)
  <2>1. CASE v = w
    BY <1>1, <2>1 DEF Dies, Pops, Alters
  <2>2. CASE v # w
    BY <1>4, <2>2 DEF AsBefore
  <2> QED BY <2>1, <2>2
<1>6. ASSUME NEW p
      PROVE  /\ Dying(task', p) = Dying(task, p) /\ (Popping(task', p) <=> Popping(task, p))
             /\ Altering(task', p) => Altering(task, p)
  <2>1. {v \in Workers : Dies(task'[v], p)} = {v \in Workers : Dies(task[v], p)}
    BY <1>5
  <2>2. \A v \in {x \in Workers : Dies(task[x], p)} : task'[v].source = task[v].source
    BY <1>5
  <2>3. Dying(task', p) = Dying(task, p)
    BY <2>1, <2>2 DEF Dying
  <2> QED BY <1>5, <2>3 DEF Popping, Altering
<1>7. ASSUME NEW v \in Workers PROVE LookOK(rows, task', task'[v])
  <2>1. CASE v = w
    BY <1>1, <2>1 DEF LookOK
  <2>2. CASE v # w
    <3>1. task'[v] = task[v]
      BY <1>1, <2>2 DEF Only
    <3> QED BY <1>6, <3>1 DEF CacheInv, LookOK
  <2> QED BY <2>1, <2>2
<1>8. ASSUME NEW p \in Folders PROVE MemoryOK(rows, task', memory[p], p)
  BY <1>6 DEF CacheInv, MemoryOK
<1>9. ASSUME NEW p \in Folders PROVE DiskOK(rows, task', disk'[p], p)
  <2> SUFFICES ASSUME Folder(rows, p), disk'[p] # NoListing, ~disk'[p].suspect, ~Dropping(task', p)
               PROVE  disk'[p].names = NowIn(rows, p)
    BY DEF DiskOK
  <2>1. disk'[p] = disk[p] /\ p \notin gone
    BY UnlinkCache
  <2>2. ~Drops(t, p)
    <3>1. CASE t.ask.kind = "delete"
      BY <2>1, <3>1 DEF Drops
    <3>2. CASE t.ask.kind \in {"move", "web"}
      BY <2>1, <3>2 DEF Dropped, All
    <3>3. CASE t.ask.kind \in {"put", "copy", "mkcol"}
      <4>1. t.touched = {t.into} /\ Dropped(t) = {t.into}
        BY <1>1, <1>3, <3>3 DEF ChangeInv, Dropped
      <4> QED BY <2>1, <3>3, <4>1 DEF Drops
    <3>4. t.ask.kind \in {"get", "delete", "move", "copy", "mkcol", "put", "web"}
      BY <1>3, AskFacts DEF TaskType, WebAsk
    <3>5. t.ask.kind # "get"
      BY <1>1, <1>3 DEF ChangeInv, Changes
    <3> QED BY <3>1, <3>2, <3>3, <3>4, <3>5
  <2>3. ~Dropping(task, p)
    <3>1. ASSUME NEW v \in Workers PROVE ~Drops(task[v], p)
      <4>1. CASE v = w
        BY <2>2, <4>1
      <4>2. CASE v # w
        BY <1>4, <4>2 DEF Dropping, AsBefore
      <4> QED BY <4>1, <4>2
    <3> QED BY <3>1 DEF Dropping
  <2> QED BY <2>1, <2>3 DEF CacheInv, DiskOK
<1> QED BY <1>2, <1>7, <1>8, <1>9 DEF CacheInv

\* The bridge is restarted.
LEMMA CacheRestart == TypeInv /\ CacheInv /\ Restart => CacheInv'
<1> SUFFICES ASSUME TypeInv, CacheInv, Restart PROVE CacheInv'
  OBVIOUS
<1> DEFINE S == {p \in Folders : Changing(p)}
<1>1. /\ rows' = rows /\ memory' = [p \in Folders |-> NoListing] /\ disk' = Doubt(disk, S)
      /\ task' = [w \in Workers |-> Idle]
  BY DEF Restart
<1>2. CacheOK(disk, rows)
  BY DEF TypeInv
<1>3. ASSUME NEW p \in Folders PROVE DiskOK(rows, task', disk'[p], p)
  <2> SUFFICES ASSUME Folder(rows, p), disk'[p] # NoListing, ~disk'[p].suspect
               PROVE  disk'[p].names = NowIn(rows, p)
    BY DEF DiskOK
  <2>1. p \notin S /\ disk'[p] = disk[p]
    <3> HIDE DEF S
    <3> QED BY <1>1, <1>2, DoubtFacts
  <2>2. ~Altering(task, p)
    BY <2>1, SameNow
  <2> QED BY <2>1, <2>2, NoneAltering DEF CacheInv, DiskOK
<1>4. ASSUME NEW p \in Folders PROVE MemoryOK(rows, task', memory'[p], p)
  BY <1>1 DEF MemoryOK
<1>5. ASSUME NEW w \in Workers PROVE LookOK(rows, task', task'[w])
  BY <1>1 DEF LookOK, Idle, Looking
<1> QED BY <1>1, <1>3, <1>4, <1>5 DEF CacheInv

\* Every step keeps the caches right, but for what is about to go from them.
LEMMA CacheStep == TypeInv /\ CacheInv /\ [Next]_vars => CacheInv'
<1> SUFFICES ASSUME TypeInv, CacheInv, [Next]_vars PROVE CacheInv'
  OBVIOUS
<1>1. ASSUME NEW w \in Workers, NEW ask \in Asks, Begin(w, ask) PROVE CacheInv'
  BY <1>1, CacheLook
<1>2. ASSUME NEW w \in Workers, NEW row \in DOMAIN rows, WebChange(w, row) PROVE CacheInv'
  BY <1>2, CacheWeb
<1>3. ASSUME NEW w \in Workers,
             \/ MemoryHit(w) \/ DiskHit(w) \/ FillMemory(w) \/ Miss(w) \/ KeepListing(w)
             \/ Persist(w)
             \/ PartsKnown(w) \/ FetchParts(w) \/ KeepTable(w) \/ FetchGroup(w) \/ PostFails(w)
      PROVE  CacheInv'
  BY <1>3, CacheLook
<1>4. ASSUME NEW w \in Workers, NEW kind \in Kinds, ReadPage(w, kind) PROVE CacheInv'
  BY <1>4, CacheLook
<1>5. ASSUME NEW w \in Workers, Post(w) \/ PostLost(w) \/ PopMemory(w) \/ UnlinkDisk(w)
      PROVE  CacheInv'
  BY <1>5, CachePost, CachePostLost, CachePop, CacheUnlink
<1>6. CASE Tick
  BY <1>6 DEF Tick, CacheInv
<1>7. CASE Restart
  BY <1>7, CacheRestart
<1>8. CASE UNCHANGED vars
  BY <1>8 DEF vars, CacheInv
<1> QED BY <1>1, <1>2, <1>3, <1>4, <1>5, <1>6, <1>7, <1>8 DEF Next

\* A cached listing, in memory or on the disk, is what the folder holds while no change of
\* it is being made, unless one overlapped the call that read it or was never reported:
\* list_dir, and the invalidations of register, create_folder, move, trash and /rpc/forget.
THEOREM CachesAgree == Spec => []CacheAgrees
BY Typed, CacheInit, CacheStep, CacheAgree, PTL DEF Spec

-----------------------------------------------------------------------------
(* What a file's parts lead to *)

Kept(parts) == DedupBy(parts, Identity(parts))

\* The parts of a file, and those still to be registered, are its content, in order.
Rest(parts, left, whole) ==
  /\ Len(parts) + Len(left) = Len(whole)
  /\ \A j \in 1 .. Len(parts) : parts[j] = whole[j]
  /\ \A j \in 1 .. Len(left) : left[j] = whole[Len(parts) + j]

\* A prefix, place by place.
LEMMA PrefixFacts ==
    ASSUME NEW s \in Seq(Part), NEW whole \in Seq(Part)
    PROVE  IsPrefix(s, whole) <=> Len(s) <= Len(whole) /\ \A j \in 1 .. Len(s) : s[j] = whole[j]
<1> DEFINE n == Len(s)
<1>1. n \in Nat /\ Len(whole) \in Nat
  OBVIOUS
<1>2. ASSUME n <= Len(whole)
      PROVE  SubSeq(s, 1, n) = SubSeq(whole, 1, n) <=> \A j \in 1 .. n : s[j] = whole[j]
  <2>1. SubSeq(s, 1, n) = [j \in 1 .. n |-> s[j]]
    BY <1>1
  <2>2. SubSeq(whole, 1, n) = [j \in 1 .. n |-> whole[j]]
    BY <1>1, <1>2
  <2> QED BY <2>1, <2>2
<1> QED BY <1>2 DEF IsPrefix

\* The first of every part: each part is kept once, and parts that differ are all kept.
LEMMA KeptParts ==
    ASSUME NEW parts \in Seq(Part)
    PROVE  /\ Kept(parts) \in Seq(Part) /\ ToSet(Kept(parts)) = ToSet(parts)
           /\ IsInjective(parts) => Kept(parts) = parts
           /\ parts # <<>> => Kept(parts) # <<>>
<1> DEFINE keys == Identity(parts)
           F == First(parts, keys)
           c == Cardinality(F)
           order == InOrder(F)
           k == Kept(parts)
           n == Len(parts)
<1>0. n \in Nat /\ DOMAIN parts = 1 .. n
  OBVIOUS
<1>1. \A i \in 1 .. n : keys[i] = parts[i]
  BY <1>0 DEF Identity
<1>2. /\ F \in SUBSET (1 .. n) /\ c \in Nat /\ Lists(order, F)
      /\ k \in Seq(Part) /\ Len(k) = c
      /\ \A i \in 1 .. c : k[i] = parts[order[i]]
      /\ parts # <<>> => k # <<>>
  BY DedupFacts DEF Kept
<1>3. \A i \in 1 .. n : i \in F <=> \A j \in 1 .. i - 1 : parts[j] # parts[i]
  BY <1>0, <1>1 DEF First
<1>f. F \in SUBSET (0 .. n)
  BY <1>0, <1>2, FromOne
<1>4. /\ \A i \in 1 .. c : order[i] \in F
      /\ \A x \in F : \E i \in 1 .. c : order[i] = x
  <2>1. n \in Nat
    BY <1>0
  <2> HIDE DEF F, n
  <2> QED BY <1>f, <2>1, InOrderFacts
<1> HIDE DEF k, order, F, keys, c, n
<1>5. ASSUME NEW x \in ToSet(k) PROVE x \in ToSet(parts)
  <2>1. PICK i \in 1 .. c : x = k[i]
    BY <1>2 DEF ToSet
  <2>2. order[i] \in 1 .. n /\ x = parts[order[i]]
    BY <1>2, <1>4, <2>1
  <2> QED BY <1>0, <2>2 DEF ToSet
<1>6. ASSUME NEW x \in ToSet(parts) PROVE x \in ToSet(k)
  <2> DEFINE At == {i \in 1 .. n : parts[i] = x}
  <2>1. At # {} /\ At \in SUBSET Nat
    BY <1>0 DEF ToSet
  <2>2. PICK i \in At : \A j \in At : i <= j
    BY <2>1, Least
  <2>3. i \in 1 .. n /\ parts[i] = x /\ \A j \in 1 .. n : parts[j] = x => i <= j
    BY <2>2
  <2>4. i \in F
    BY <1>0, <1>3, <2>3
  <2>5. PICK m \in 1 .. c : order[m] = i
    BY <1>4, <2>4
  <2>6. k[m] = x
    BY <1>2, <2>3, <2>5
  <2> QED BY <1>2, <2>5, <2>6 DEF ToSet
<1>7. ASSUME IsInjective(parts) PROVE k = parts
  <2>1. \A i \in 1 .. n : \A j \in 1 .. i - 1 : parts[j] # parts[i]
    BY <1>0, <1>7 DEF IsInjective
  <2>2. F = 1 .. n
    BY <1>2, <1>3, <2>1
  <2>3. c = n
    BY <1>0, <2>2, FS_Interval DEF c
  <2> DEFINE id == [i \in 1 .. n |-> i]
  <2>4. Lists(id, F)
    BY <1>0, <2>2, <2>3 DEF Lists, c
  <2>5. order = id
    BY <1>0, <1>2, <1>f, <2>4, ListUnique
  <2>6. \A i \in 1 .. n : k[i] = parts[i]
    BY <1>2, <2>3, <2>5
  <2>7. Len(k) = Len(parts)
    BY <1>2, <2>3 DEF n
  <2> QED BY <1>2, <2>6, <2>7 DEF n
<1>8. ToSet(k) = ToSet(parts)
  BY <1>5, <1>6
<1> QED BY <1>2, <1>7, <1>8 DEF k

\* A prefix of parts that differ, with all of them, is the whole.
LEMMA PrefixAll ==
    ASSUME NEW s \in Seq(Part), NEW whole \in Seq(Part), IsInjective(whole), IsPrefix(s, whole)
    PROVE  /\ IsInjective(s) /\ ToSet(s) \subseteq ToSet(whole)
           /\ ToSet(s) = ToSet(whole) => s = whole
<1>1. /\ Len(s) \in Nat /\ Len(whole) \in Nat /\ Len(s) <= Len(whole)
      /\ \A j \in 1 .. Len(s) : s[j] = whole[j]
      /\ DOMAIN s = 1 .. Len(s) /\ DOMAIN whole = 1 .. Len(whole)
  BY PrefixFacts
<1>2. \A i, j \in 1 .. Len(whole) : whole[i] = whole[j] => i = j
  BY <1>1 DEF IsInjective
<1>3. IsInjective(s)
  BY <1>1, <1>2 DEF IsInjective
<1>4. ToSet(s) \subseteq ToSet(whole)
  BY <1>1 DEF ToSet
<1>5. ASSUME ToSet(s) = ToSet(whole) PROVE s = whole
  <2> DEFINE n == Len(s)
             m == Len(whole)
  <2>1. n \in Nat /\ m \in Nat /\ n <= m
    BY <1>1
  <2>2. /\ \A j \in 1 .. n : s[j] = whole[j]
        /\ \A i, j \in 1 .. m : whole[i] = whole[j] => i = j
        /\ \A x \in ToSet(s) : \E j \in 1 .. n : s[j] = x
        /\ \A i \in 1 .. m : whole[i] \in ToSet(s)
    BY <1>1, <1>2, <1>5 DEF ToSet
  <2> HIDE DEF n, m
  <2>3. ASSUME n < m PROVE FALSE
    <3>1. n + 1 \in 1 .. m
      BY <2>1, <2>3
    <3>2. PICK j \in 1 .. n : s[j] = whole[n + 1]
      BY <2>2, <3>1
    <3>3. j \in 1 .. m /\ j # n + 1 /\ whole[j] = whole[n + 1]
      BY <2>1, <2>2, <3>2
    <3> QED BY <2>2, <3>1, <3>3
  <2>4. Len(s) = Len(whole)
    BY <2>1, <2>3 DEF n, m
  <2> QED BY <1>1, <2>4
<1> QED BY <1>3, <1>4, <1>5

\* The next part of a file is registered.
LEMMA RestFacts ==
    ASSUME NEW left \in Seq(Part), left # <<>>, NEW whole \in Seq(Part), IsInjective(whole)
    PROVE  /\ left = whole => Rest(<<Head(left)>>, Tail(left), whole)
           /\ \A parts \in Seq(Part) : Rest(parts, left, whole) =>
                Rest(Append(parts, Head(left)), Tail(left), whole)
           /\ \A parts \in Seq(Part), more \in Seq(Part) : Rest(parts, more, whole) =>
                IsPrefix(Kept(parts), whole)
<1>1. /\ Len(left) \in Nat /\ Len(left) > 0 /\ Head(left) = left[1] /\ Head(left) \in Part
      /\ Len(Tail(left)) = Len(left) - 1 /\ Tail(left) \in Seq(Part)
      /\ \A j \in 1 .. Len(left) - 1 : Tail(left)[j] = left[j + 1]
  OBVIOUS
<1>2. ASSUME left = whole PROVE Rest(<<Head(left)>>, Tail(left), whole)
  <2>1. Len(<<Head(left)>>) = 1 /\ <<Head(left)>>[1] = Head(left)
    OBVIOUS
  <2>2. \A j \in 1 .. 1 : j = 1
    OBVIOUS
  <2>3. \A j \in 1 .. Len(left) - 1 : Tail(left)[j] = whole[1 + j]
    BY <1>1, <1>2
  <2> QED BY <1>1, <1>2, <2>1, <2>2, <2>3 DEF Rest
<1>3. ASSUME NEW parts \in Seq(Part), Rest(parts, left, whole)
      PROVE  Rest(Append(parts, Head(left)), Tail(left), whole)
  <2> DEFINE p == Append(parts, Head(left))
             n == Len(parts)
  <2>1. /\ n \in Nat /\ n + Len(left) = Len(whole)
        /\ \A j \in 1 .. n : parts[j] = whole[j]
        /\ \A j \in 1 .. Len(left) : left[j] = whole[n + j]
    BY <1>3 DEF Rest
  <2>2. Len(p) = n + 1 /\ p[n + 1] = Head(left) /\ \A j \in 1 .. n : p[j] = parts[j]
    BY <1>1
  <2> HIDE DEF p, n
  <2>3. ASSUME NEW j \in 1 .. n + 1 PROVE p[j] = whole[j]
    <3>1. CASE j = n + 1
      BY <1>1, <2>1, <2>2, <3>1
    <3>2. CASE j # n + 1
      BY <2>1, <2>2, <3>2
    <3> QED BY <3>1, <3>2
  <2>4. ASSUME NEW j \in 1 .. Len(left) - 1 PROVE Tail(left)[j] = whole[n + 1 + j]
    <3>1. j + 1 \in 1 .. Len(left) /\ n + (j + 1) = n + 1 + j
      BY <1>1, <2>1
    <3>2. left[j + 1] = whole[n + (j + 1)]
      BY <2>1, <3>1
    <3> QED BY <1>1, <3>1, <3>2
  <2> QED BY <1>1, <2>1, <2>2, <2>3, <2>4 DEF Rest, p
<1>4. ASSUME NEW parts \in Seq(Part), NEW more \in Seq(Part), Rest(parts, more, whole)
      PROVE  IsPrefix(Kept(parts), whole)
  <2>1. Len(parts) <= Len(whole) /\ \A j \in 1 .. Len(parts) : parts[j] = whole[j]
    BY <1>4 DEF Rest
  <2>2. IsPrefix(parts, whole)
    BY <2>1, PrefixFacts
  <2>3. IsInjective(parts)
    BY <2>2, PrefixAll
  <2> QED BY <2>2, <2>3, KeptParts
<1> QED BY <1>2, <1>3, <1>4

\* All of whose parts are held by the main account.
Main(parts) == \A part \in ToSet(parts) : part[1] = 0

\* Of such parts a number is a part: what a copy registers is what it copies.
LEMMA MainFacts ==
    ASSUME NEW parts \in Seq(Part), Main(parts)
    PROVE  LET numbers == DedupBy(parts, Number(parts)) IN
           [i \in DOMAIN numbers |-> <<0, numbers[i][2]>>] = Kept(parts)
<1> DEFINE keys == Identity(parts)
           nums == Number(parts)
           k == Kept(parts)
           n == Len(parts)
<1>0. n \in Nat /\ DOMAIN parts = 1 .. n
  OBVIOUS
<1>1. \A i \in 1 .. n : keys[i] = parts[i] /\ nums[i] = parts[i][2]
  BY <1>0 DEF Identity, Number
<1>2. ASSUME NEW i \in 1 .. n PROVE parts[i] = <<0, parts[i][2]>>
  <2>1. parts[i] \in Part /\ parts[i][1] = 0
    BY <1>0 DEF Main, ToSet
  <2> QED BY <2>1 DEF Part
<1>3. ASSUME NEW i \in 1 .. n, NEW j \in 1 .. n PROVE keys[j] # keys[i] <=> nums[j] # nums[i]
  BY <1>1, <1>2
<1>4. First(parts, keys) = First(parts, nums)
  <2> HIDE DEF keys, nums
  <2>1. \A i \in 1 .. n : \A j \in 1 .. i - 1 : keys[j] # keys[i] <=> nums[j] # nums[i]
    BY <1>0, <1>3
  <2> QED BY <1>0, <2>1 DEF First
<1>5. DedupBy(parts, nums) = k
  BY <1>4 DEF DedupBy, First, Kept
<1>6. \A i \in DOMAIN k : k[i] = <<0, k[i][2]>>
  <2>1. k \in Seq(Part) /\ ToSet(k) = ToSet(parts)
    BY KeptParts
  <2> HIDE DEF k
  <2>2. ASSUME NEW i \in DOMAIN k PROVE k[i] = <<0, k[i][2]>>
    <3>1. k[i] \in ToSet(parts)
      BY <2>1, <2>2 DEF ToSet
    <3>1a. k[i] \in Part
      BY <2>1, <2>2
    <3>2. k[i][1] = 0
      BY <3>1 DEF Main
    <3> QED BY <3>1a, <3>2 DEF Part
  <2> QED BY <2>2
<1>7. [i \in DOMAIN k |-> <<0, k[i][2]>>] = k
  <2>1. k \in Seq(Part)
    BY KeptParts
  <2> HIDE DEF k
  <2>2. k = [i \in DOMAIN k |-> k[i]]
    BY <2>1
  <2> QED BY <1>6, <2>2
<1> HIDE DEF k, nums
<1> QED BY <1>5, <1>7 DEF k, nums

-----------------------------------------------------------------------------
(* What parts_for hands out is what was sent *)

\* A file's row: its parts, each kept once, are the beginning of its content, and a
\* file in one message is that message.
RowExact(row) ==
  ~row.dir =>
    /\ IsInjective(row.whole) /\ IsPrefix(Kept(row.parts), row.whole)
    /\ ~row.split => row.parts = row.whole /\ Len(row.parts) = 1
RowsExact(R) == \A i \in DOMAIN R : RowExact(R[i])

\* A table that was read with all rows there has the content of its file.
TablesExact(B, R) ==
  \A i \in 1 .. MaxRows : B[i].whole => i \in DOMAIN R /\ B[i].parts = R[i].whole

\* A request that is about to keep such a table, or has parts left to register.
SendExact(t, R) ==
  /\ t.pc = "table" /\ t.clean => t.left = R[t.source].whole
  /\ t.pc \in Changes /\ t.left # <<>> =>
       /\ IsInjective(t.whole)
       /\ t.new = Root => t.left = t.whole
       /\ t.new # Root => /\ ~R[t.new].dir /\ R[t.new].split /\ R[t.new].whole = t.whole
                          /\ Rest(R[t.new].parts, t.left, t.whole)

\* No two requests add to one row.
Owns(T) ==
  \A v, w \in Workers :
    v # w /\ T[v] # Idle /\ T[w] # Idle /\ T[v].new # Root => T[v].new # T[w].new

PartsInv ==
  /\ RowsExact(rows) /\ TablesExact(tables, rows)
  /\ \A w \in Workers : SendExact(task[w], rows)
  /\ Owns(task)

\* A file that is copied was sent by the main account: duplicate does not hand the
\* account of a part on.
CopiesFromMain ==
  \A w \in Workers :
    LET t == task[w] IN
    t.pc \in {"group", "post"} /\ t.ask.kind = "copy" /\ ~rows[t.source].dir =>
      Main(rows[t.source].whole)

\* An ended request sends nothing.
LEMMA IdleSends ==
    ASSUME NEW R
    PROVE  SendExact(Idle, R)
BY DEF SendExact, Idle, Changes

\* A request whose row has the same parts has as much left to send.
LEMMA SendStays ==
    ASSUME NEW R, RowsOK(R), NEW E, Grows(R, E), NEW t, TaskOK(t, R), SendExact(t, R),
           t # Idle /\ t.new # Root => E[t.new].parts = R[t.new].parts
    PROVE  SendExact(t, E)
<1>1. CASE t = Idle
  BY <1>1, IdleSends
<1>2. CASE t # Idle
  <2>1. t \in TaskType /\ RowsKnown(t, R) /\ ChangeInv(t, R)
    BY <1>2 DEF TaskOK
  <2>2. t.source \in Nat /\ t.source <= Len(R) /\ t.new \in Nat /\ t.new <= Len(R)
    BY <2>1, FolderFacts DEF TaskType, RowsKnown
  <2>3. t.source # Root => t.source \in DOMAIN R
    BY <2>2, RowFacts
  <2>4. t.new # Root => t.new \in DOMAIN R
    BY <2>2, RowFacts
  <2>5. ASSUME NEW i \in DOMAIN R
        PROVE  E[i].dir = R[i].dir /\ E[i].split = R[i].split /\ E[i].whole = R[i].whole
    BY DEF Grows
  <2>6. ASSUME t.pc = "table", t.clean PROVE t.left = E[t.source].whole
    <3>1. t.source # Root /\ t.left = R[t.source].whole
      BY <2>1, <2>6 DEF ChangeInv, SendExact
    <3> QED BY <2>3, <2>5, <3>1
  <2>7. ASSUME t.pc \in Changes, t.left # <<>>
        PROVE  /\ IsInjective(t.whole)
               /\ t.new = Root => t.left = t.whole
               /\ t.new # Root => /\ ~E[t.new].dir /\ E[t.new].split /\ E[t.new].whole = t.whole
                                  /\ Rest(E[t.new].parts, t.left, t.whole)
    BY <1>2, <2>4, <2>5, <2>7 DEF SendExact
  <2> QED BY <2>6, <2>7 DEF SendExact
<1> QED BY <1>1, <1>2

\* The row a request adds to, once its call is made, and what it has left.
Sent(t, E) ==
  LET n == IF t.new = Root THEN Len(E) ELSE t.new IN
  t.left # <<>> => /\ n \in DOMAIN E /\ n # Root /\ IsInjective(t.whole)
                   /\ ~E[n].dir /\ E[n].whole = t.whole
                   /\ Tail(t.left) # <<>> => E[n].split
                   /\ Rest(E[n].parts, Tail(t.left), t.whole)

\* A call leaves the rows exact.
LEMMA CallRows ==
    ASSUME RowsOK(rows), RowsExact(rows), NEW t, TaskOK(t, rows), t.pc = "post",
           SendExact(t, rows), NEW E, Grows(rows, E), Registers(t, E), AddsDir(t, E)
    PROVE  /\ RowsExact(E) /\ Sent(t, E)
           /\ \A i \in DOMAIN rows : t.left = <<>> \/ i # t.new => E[i].parts = rows[i].parts
<1>0. t # Idle
  BY DEF Idle
<1>1. t \in TaskType /\ RowsKnown(t, rows) /\ ChangeInv(t, rows)
  BY <1>0 DEF TaskOK
<1>2. t.left \in Seq(Part) /\ t.whole \in Seq(Part) /\ t.new \in Nat /\ t.new <= Len(rows)
  BY <1>1, FolderFacts DEF TaskType, RowsKnown
<1>3. /\ Len(rows) \in Nat /\ DOMAIN rows = 1 .. Len(rows)
      /\ Len(E) \in Nat /\ DOMAIN E = 1 .. Len(E)
      /\ Len(rows) <= Len(E) /\ Len(E) <= Len(rows) + 1
      /\ \A i \in DOMAIN rows : E[i].dir = rows[i].dir /\ E[i].split = rows[i].split
                                /\ E[i].whole = rows[i].whole
  BY DEF Grows, RowsOK
<1>s. ASSUME NEW i \in DOMAIN rows, E[i].parts = rows[i].parts PROVE RowExact(E[i])
  <2>1. RowExact(rows[i])
    BY DEF RowsExact
  <2> QED BY <1>3, <1>s, <2>1 DEF RowExact
<1>4. CASE t.left = <<>>
  <2>1. \A i \in DOMAIN rows : E[i].parts = rows[i].parts
    BY <1>4 DEF Registers
  <2>2. ASSUME NEW i \in DOMAIN E PROVE RowExact(E[i])
    <3>1. CASE i \in DOMAIN rows
      BY <1>s, <2>1, <3>1
    <3>2. CASE i \notin DOMAIN rows
      <4>1. i = Len(E) /\ Len(E) > Len(rows)
        BY <1>3, <3>2
      <4>2. E[i].dir
        BY <1>4, <4>1 DEF AddsDir
      <4> QED BY <4>2 DEF RowExact
    <3> QED BY <3>1, <3>2
  <2> QED BY <1>4, <2>1, <2>2 DEF RowsExact, Sent
<1>5. CASE t.left # <<>> /\ t.new = Root
  <2>1. IsInjective(t.whole) /\ t.left = t.whole
    BY <1>5 DEF SendExact, Changes
  <2>2. /\ Len(E) = Len(rows) + 1 /\ E[Len(E)] = FileRow(t, NewName(t))
        /\ \A i \in DOMAIN rows : E[i] = rows[i]
    BY <1>5 DEF Registers
  <2> DEFINE r == E[Len(E)]
  <2>3. /\ ~r.dir /\ r.whole = t.whole /\ r.parts = <<Head(t.left)>>
        /\ r.split <=> Len(t.left) > 1
    <3> DEFINE long == Len(t.left) > 1
    <3>1. r = [name |-> NewName(t), dir |-> FALSE, parent |-> t.into, live |-> TRUE,
               split |-> long, parts |-> <<Head(t.left)>>, whole |-> t.whole]
      BY <2>2 DEF FileRow
    <3>2. long \in BOOLEAN
      OBVIOUS
    <3> HIDE DEF r, long
    <3>3. /\ ~r.dir /\ r.whole = t.whole /\ r.parts = <<Head(t.left)>>
          /\ r.split <=> long
      BY <3>1, <3>2
    <3> QED BY <3>3 DEF long
  <2>4. /\ Len(t.left) \in Nat /\ Len(t.left) > 0 /\ Head(t.left) \in Part
        /\ <<Head(t.left)>> \in Seq(Part) /\ Tail(t.left) \in Seq(Part)
        /\ Len(t.left) = 1 => t.left = <<Head(t.left)>>
        /\ Tail(t.left) # <<>> => Len(t.left) > 1
    <3>1. Len(t.left) \in Nat /\ Len(t.left) > 0 /\ Head(t.left) \in Part
      BY <1>2, <1>5
    <3>2. <<Head(t.left)>> \in Seq(Part) /\ Tail(t.left) \in Seq(Part)
      BY <1>2, <1>5, <3>1
    <3>3. Len(t.left) = 1 => t.left = <<Head(t.left)>>
      BY <1>2, <1>5
    <3>4. Tail(t.left) # <<>> => Len(t.left) > 1
      BY <1>2, <1>5
    <3> QED BY <3>1, <3>2, <3>3, <3>4
  <2>5. Rest(<<Head(t.left)>>, Tail(t.left), t.whole)
    BY <1>2, <1>5, <2>1, RestFacts
  <2>6. IsPrefix(Kept(<<Head(t.left)>>), t.whole)
    BY <1>2, <1>5, <2>1, <2>4, <2>5, RestFacts
  <2> HIDE DEF r
  <2>7. RowExact(r)
    <3>1. Len(<<Head(t.left)>>) = 1
      OBVIOUS
    <3>2. ~r.split => r.parts = r.whole
      BY <2>1, <2>3, <2>4
    <3> QED BY <2>1, <2>3, <2>6, <3>1, <3>2 DEF RowExact
  <2>8. ASSUME NEW i \in DOMAIN E PROVE RowExact(E[i])
    <3>1. CASE i \in DOMAIN rows
      BY <1>s, <2>2, <3>1
    <3>2. CASE i \notin DOMAIN rows
      BY <1>3, <2>2, <2>7, <3>2 DEF r
    <3> QED BY <3>1, <3>2
  <2>9. Sent(t, E)
    <3>1. Len(E) \in DOMAIN E /\ Len(E) # Root
      BY <1>3, <2>2 DEF Root
    <3>2. Tail(t.left) # <<>> => r.split
      BY <2>3, <2>4
    <3>3. Rest(r.parts, Tail(t.left), t.whole)
      BY <2>3, <2>5
    <3> QED BY <1>5, <2>1, <2>3, <3>1, <3>2, <3>3 DEF Sent, r
  <2> QED BY <1>5, <2>2, <2>8, <2>9 DEF RowsExact
<1>6. CASE t.left # <<>> /\ t.new # Root
  <2> DEFINE k == t.new
  <2>1. k \in DOMAIN rows /\ rows[k].parts \in Seq(Part)
    BY <1>2, <1>6, RowFacts
  <2>2. /\ IsInjective(t.whole) /\ ~rows[k].dir /\ rows[k].split /\ rows[k].whole = t.whole
        /\ Rest(rows[k].parts, t.left, t.whole)
    BY <1>6 DEF SendExact, Changes
  <2>3. /\ Len(E) = Len(rows) /\ E[k].parts = Append(rows[k].parts, Head(t.left))
        /\ \A i \in DOMAIN rows : i # k => E[i] = rows[i]
    BY <1>6 DEF Registers
  <2>4. Head(t.left) \in Part /\ Tail(t.left) \in Seq(Part)
    BY <1>2, <1>6
  <2> HIDE DEF k
  <2>5. Append(rows[k].parts, Head(t.left)) \in Seq(Part)
    BY <2>1, <2>4
  <2>6. Rest(E[k].parts, Tail(t.left), t.whole)
    <3>1. Rest(Append(rows[k].parts, Head(t.left)), Tail(t.left), t.whole)
      BY <1>2, <1>6, <2>1, <2>2, RestFacts
    <3> QED BY <2>3, <3>1
  <2>7. IsPrefix(Kept(E[k].parts), t.whole)
    BY <1>2, <1>6, <2>2, <2>3, <2>4, <2>5, <2>6, RestFacts
  <2>8. ~E[k].dir /\ E[k].split /\ E[k].whole = t.whole
    BY <1>3, <2>1, <2>2
  <2>9. ASSUME NEW i \in DOMAIN E PROVE RowExact(E[i])
    <3>1. CASE i # k
      BY <1>3, <1>s, <2>3, <3>1
    <3>2. CASE i = k
      BY <2>2, <2>7, <2>8, <3>2 DEF RowExact
    <3> QED BY <3>1, <3>2
  <2>10. Sent(t, E)
    <3>1. k \in DOMAIN E
      BY <1>3, <2>1, <2>3
    <3> QED BY <1>6, <2>2, <2>6, <2>8, <3>1 DEF Sent, k
  <2> QED BY <1>6, <2>3, <2>9, <2>10 DEF RowsExact, k
<1> QED BY <1>4, <1>5, <1>6

\* A request that walks on sends what it was given, or the file it copies.
LEMMA WentSends ==
    ASSUME RowsOK(rows), RowsExact(rows), NEW t, TaskOK(t, rows), t # Idle, t.pc \in Walking,
           NEW r, TaskOK(r, rows), Went(t, r, rows),
           r.pc = "post" /\ r.ask.kind = "copy" /\ ~rows[r.source].dir => Main(rows[r.source].whole)
    PROVE  SendExact(r, rows)
<1>1. CASE r = Idle
  BY <1>1, IdleSends
<1>2. CASE r # Idle
  <2>1. /\ r.pc \in {"walk", "group", "post", "parts"} /\ r.ask = t.ask /\ r.new = Root
        /\ t.ask.kind = "put" => r.left = t.left /\ r.whole = t.whole
        /\ r.pc = "post" /\ t.ask.kind = "copy" /\ ~rows[r.source].dir =>
             /\ ~rows[r.source].split
             /\ r.left = << <<0, rows[r.source].parts[1][2]>> >>
             /\ r.whole = rows[r.source].parts
    BY <1>2 DEF Went
  <2>2. t \in TaskType /\ WalkInv(t) /\ r \in TaskType /\ ChangeInv(r, rows) /\ RowsKnown(r, rows)
    BY <1>2 DEF TaskOK
  <2>3. CASE r.pc # "post" \/ r.left = <<>>
    BY <2>1, <2>3 DEF SendExact, Changes
  <2>4. CASE r.pc = "post" /\ r.left # <<>>
    <3>1. Sends(r, rows)
      BY <2>2, <2>4 DEF ChangeInv, Changes
    <3>2. CASE r.ask.kind = "put"
      <4>1. t.left = t.ask.parts /\ t.whole = t.ask.parts
        BY <2>1, <2>2, <3>2 DEF WalkInv
      <4>2. t.ask \in Asks
        BY <2>1, <2>2, <3>2 DEF TaskType, WebAsk
      <4>3. IsInjective(t.ask.parts)
        BY <2>1, <3>2, <4>2, AskFacts
      <4> QED BY <2>1, <2>4, <3>2, <4>1, <4>3 DEF SendExact
    <3>3. CASE r.ask.kind = "copy" /\ ~rows[r.source].dir
      <4> DEFINE row == rows[r.source]
      <4>1. r.source # Root /\ r.source \in Nat /\ r.source <= Len(rows)
        BY <2>2, <2>4, <3>3, FolderFacts DEF ChangeInv, Changes, TaskType, RowsKnown
      <4>2. r.source \in DOMAIN rows /\ row.parts \in Seq(Part)
        BY <4>1, RowFacts
      <4>3. RowExact(row)
        BY <4>2 DEF RowsExact
      <4>4. ~row.split /\ r.left = << <<0, row.parts[1][2]>> >> /\ r.whole = row.parts
        BY <2>1, <2>4, <3>3
      <4>5. Main(row.whole)
        BY <2>4, <3>3
      <4>6. ~row.dir
        BY <3>3
      <4> HIDE DEF row
      <4>7. row.parts = row.whole /\ Len(row.parts) = 1 /\ IsInjective(row.whole)
        BY <4>3, <4>4, <4>6 DEF RowExact
      <4>8a. 1 \in DOMAIN row.parts /\ row.parts[1] \in Part
        <5>1. ASSUME NEW s \in Seq(Part), NEW n \in Nat, Len(s) = n, n > 0
              PROVE  1 \in DOMAIN s /\ s[1] \in Part
          <6>1. DOMAIN s = 1 .. n
            BY <5>1
          <6>2. 1 \in DOMAIN s
            BY <5>1, <6>1
          <6> QED BY <5>1, <6>2
        <5> QED BY <4>2, <4>7, <5>1
      <4>8. row.parts[1] \in Part /\ row.parts[1] \in ToSet(row.whole)
        <5>1. row.parts[1] \in ToSet(row.parts)
          BY <4>8a DEF ToSet
        <5> QED BY <4>7, <4>8a, <5>1
      <4>9. row.parts[1] = <<0, row.parts[1][2]>>
        <5>1. row.parts[1][1] = 0
          BY <4>5, <4>8 DEF Main
        <5> QED BY <4>8, <5>1 DEF Part
      <4>10. row.parts = <<row.parts[1]>>
        BY <4>2, <4>7
      <4>11. r.left = r.whole /\ IsInjective(r.whole)
        BY <4>4, <4>7, <4>9, <4>10
      <4> QED BY <2>1, <2>4, <4>11 DEF SendExact
    <3> QED BY <2>1, <3>1, <3>2, <3>3 DEF Sends
  <2> QED BY <2>3, <2>4
<1> QED BY <1>1, <1>2

\* The table of a file all of whose rows are there is its content.
LEMMA TableSends ==
    ASSUME TypeInv, RowsExact(rows), NEW w \in Workers, FetchParts(w)
    PROVE  SendExact(task'[w], rows)
<1> DEFINE t == task[w]
           u == task'[w]
           row == rows[t.source]
<1>1. /\ TaskOK(u, rows) /\ u.pc = "table" /\ u.source = t.source /\ u.source \in DOMAIN rows
      /\ ~row.dir /\ (u.clean <=> AllThere(t.source)) /\ u.left = Kept(row.parts)
  BY FetchPartsFacts DEF Kept
<1>2. RowExact(row)
  BY <1>1 DEF RowsExact
<1>3. row.parts \in Seq(Part) /\ row.whole \in Seq(Part)
  <2>1. RowsOK(rows) /\ t.source \in DOMAIN rows
    BY <1>1 DEF TypeInv
  <2>2. rows[t.source] \in RowType
    BY <2>1 DEF RowsOK
  <2> QED BY <2>2 DEF RowType
<1>4. AllThere(t.source) <=> ToSet(row.parts) = ToSet(row.whole)
  BY DEF AllThere
<1> HIDE DEF row, u, t
<1>5. IsInjective(row.whole) /\ IsPrefix(Kept(row.parts), row.whole)
  BY <1>1, <1>2 DEF RowExact
<1>6. Kept(row.parts) \in Seq(Part) /\ ToSet(Kept(row.parts)) = ToSet(row.parts)
  BY <1>3, KeptParts
<1>7. ToSet(row.parts) = ToSet(row.whole) => Kept(row.parts) = row.whole
  BY <1>3, <1>5, <1>6, PrefixAll
<1>8. u.clean => u.left = row.whole
  BY <1>1, <1>4, <1>7
<1>9. u.clean => u.left = rows[u.source].whole
  BY <1>1, <1>8 DEF row
<1> QED BY <1>1, <1>9 DEF SendExact, Changes, u

\* A copy of a split file of the main account registers the parts that are there.
LEMMA GroupSends ==
    ASSUME TypeInv, RowsExact(rows), CopiesFromMain, NEW w \in Workers, FetchGroup(w)
    PROVE  SendExact(task'[w], rows)
<1> DEFINE t == task[w]
           u == task'[w]
           row == rows[t.source]
           numbers == DedupBy(row.parts, Number(row.parts))
<1>1. /\ t.pc = "group" /\ t.ask.kind = "copy" /\ t.source \in DOMAIN rows /\ ~row.dir
      /\ u.pc = "post" /\ u.new = Root /\ u.whole = Kept(row.parts)
      /\ u.left = [i \in DOMAIN numbers |-> <<0, numbers[i][2]>>]
  BY FetchGroupFacts DEF Kept
<1>2. RowExact(row)
  BY <1>1 DEF RowsExact
<1>3. row.parts \in Seq(Part) /\ row.whole \in Seq(Part)
  <2>1. RowsOK(rows) /\ t.source \in DOMAIN rows
    BY <1>1 DEF TypeInv
  <2>2. rows[t.source] \in RowType
    BY <2>1 DEF RowsOK
  <2> QED BY <2>2 DEF RowType
<1>4. Main(row.whole)
  BY <1>1 DEF CopiesFromMain
<1> HIDE DEF row, u, t
<1>5. IsInjective(row.whole) /\ IsPrefix(Kept(row.parts), row.whole)
  BY <1>1, <1>2 DEF RowExact
<1>6. Kept(row.parts) \in Seq(Part) /\ ToSet(Kept(row.parts)) = ToSet(row.parts)
  BY <1>3, KeptParts
<1>7. IsInjective(Kept(row.parts)) /\ ToSet(Kept(row.parts)) \subseteq ToSet(row.whole)
  BY <1>3, <1>5, <1>6, PrefixAll
<1>8. Main(row.parts)
  BY <1>4, <1>6, <1>7 DEF Main
<1>9. u.left = Kept(row.parts)
  BY <1>1, <1>3, <1>8, MainFacts
<1> QED BY <1>1, <1>7, <1>9 DEF SendExact, u

\* Where no row and no table changes, only the request that moved can disturb anything.
LEMMA PartsSame ==
    ASSUME TypeInv, PartsInv, NEW w \in Workers, Only(w), rows' = rows,
           TablesExact(tables', rows), SendExact(task'[w], rows),
           \/ task'[w] = Idle \/ task'[w].new = Root
           \/ task[w] # Idle /\ task'[w].new = task[w].new
    PROVE  PartsInv'
<1>1. ASSUME NEW v \in Workers PROVE SendExact(task'[v], rows)
  BY DEF Only, PartsInv
<1>2. Owns(task')
  <2>1. SUFFICES ASSUME NEW v \in Workers, NEW x \in Workers, v # x,
                        task'[v] # Idle, task'[x] # Idle, task'[v].new # Root
                 PROVE  task'[v].new # task'[x].new
    BY DEF Owns
  <2>2. CASE task'[x].new = Root
    BY <2>1, <2>2
  <2>3. CASE task'[x].new # Root
    <3>1. task[v] # Idle /\ task[v].new = task'[v].new
      BY <2>1 DEF Only
    <3>2. task[x] # Idle /\ task[x].new = task'[x].new
      BY <2>1, <2>3 DEF Only
    <3> QED BY <2>1, <3>1, <3>2 DEF PartsInv, Owns
  <2> QED BY <2>2, <2>3
<1>3. RowsExact(rows)
  BY DEF PartsInv
<1> QED BY <1>1, <1>2, <1>3 DEF PartsInv

\* A change of rows by w, which adds to the row n or to none.
LEMMA PartsChange ==
    ASSUME TypeInv, PartsInv, NEW w \in Workers, NEW S, Disturbs(w, S), Grows(rows, rows'),
           tables' = tables, RowsExact(rows'), SendExact(task'[w], rows'), NEW n,
           \A i \in DOMAIN rows : i # n => rows'[i].parts = rows[i].parts,
           \A v \in Workers : v # w /\ task[v] # Idle /\ task[v].new # Root => task[v].new # n,
           task'[w] = Idle \/ task'[w].new = n \/ task'[w].new = Root
    PROVE  PartsInv'
<1>1. ASSUME NEW v \in Workers, v # w
      PROVE  /\ task'[v] = Spoiled(task[v], S) /\ TaskOK(task[v], rows)
             /\ task'[v] = Idle <=> task[v] = Idle
             /\ task[v] # Idle => task'[v].new = task[v].new
             /\ SendExact(task'[v], rows)
  <2>1. TaskOK(task[v], rows) /\ SendExact(task[v], rows)
    BY TaskFacts DEF PartsInv
  <2>2. task'[v] = Spoiled(task[v], S)
    BY <1>1 DEF Disturbs
  <2>3. /\ task'[v] = Idle <=> task[v] = Idle
        /\ task[v] # Idle => SameBut(task[v], task'[v])
        /\ task[v].pc \notin Looking => task'[v] = task[v]
        /\ task'[v].pc = task[v].pc
    BY <2>1, <2>2, SpoilFacts
  <2>4. task[v].pc \in Looking => SendExact(task'[v], rows)
    BY <2>3 DEF SendExact, Looking, Changes
  <2> QED BY <2>1, <2>2, <2>3, <2>4 DEF SameBut, Keeps
<1>2. ASSUME NEW v \in Workers, v # w PROVE SendExact(task'[v], rows')
  <2>1. CASE task[v] = Idle
    BY <1>1, <1>2, <2>1, IdleSends
  <2>2. CASE task[v] # Idle
    <3> DEFINE u == task'[v]
    <3>1. u # Idle /\ u.new = task[v].new /\ SendExact(u, rows) /\ TaskOK(u, rows)
      BY <1>1, <1>2, <2>2, SpoilFacts
    <3>2. u.new # Root => u.new \in DOMAIN rows /\ u.new # n
      <4>1. u.new \in Nat /\ u.new <= Len(rows)
        BY <3>1, FolderFacts DEF TaskOK, TaskType, RowsKnown
      <4>2. RowsOK(rows)
        BY DEF TypeInv
      <4> QED BY <1>2, <2>2, <3>1, <4>1, <4>2, RowFacts
    <3>3. u.new # Root => rows'[u.new].parts = rows[u.new].parts
      BY <3>2
    <3>4. RowsOK(rows)
      BY DEF TypeInv
    <3> HIDE DEF u
    <3>5. SendExact(u, rows')
      BY <3>1, <3>3, <3>4, SendStays
    <3> QED BY <3>5 DEF u
  <2> QED BY <2>1, <2>2
<1>3. Owns(task')
  <2>1. SUFFICES ASSUME NEW v \in Workers, NEW x \in Workers, v # x,
                        task'[v] # Idle, task'[x] # Idle, task'[v].new # Root
                 PROVE  task'[v].new # task'[x].new
    BY DEF Owns
  <2>2. CASE v # w /\ x # w
    <3>1. /\ task[v] # Idle /\ task[v].new = task'[v].new
          /\ task[x] # Idle /\ task[x].new = task'[x].new
      BY <1>1, <2>1, <2>2
    <3> QED BY <2>1, <3>1 DEF PartsInv, Owns
  <2>3. CASE v = w
    <3>1. task[x] # Idle /\ task'[x].new = task[x].new
      BY <1>1, <2>1, <2>3
    <3>2. task'[v].new = n
      BY <2>1, <2>3
    <3> QED BY <2>1, <2>3, <3>1, <3>2
  <2>4. CASE x = w
    <3>1. task[v] # Idle /\ task'[v].new = task[v].new
      BY <1>1, <2>1, <2>4
    <3> QED BY <2>1, <2>4, <3>1
  <2> QED BY <2>2, <2>3, <2>4
<1>4. TablesExact(tables', rows')
  <2>1. TablesExact(tables, rows)
    BY DEF PartsInv
  <2>2. \A i \in DOMAIN rows : i \in DOMAIN rows' /\ rows'[i].whole = rows[i].whole
    <3>1. /\ Len(rows) \in Nat /\ Len(rows') \in Nat /\ Len(rows) <= Len(rows')
          /\ DOMAIN rows = 1 .. Len(rows) /\ DOMAIN rows' = 1 .. Len(rows')
      BY DEF TypeInv, RowsOK, Grows
    <3> QED BY <3>1 DEF Grows
  <2> QED BY <2>1, <2>2 DEF TablesExact
<1>5. \A v \in Workers : SendExact(task'[v], rows')
  BY <1>2
<1> QED BY <1>3, <1>4, <1>5 DEF PartsInv

\* The drive's files are exact when the bridge starts.
LEMMA PartsInit == Init => PartsInv
<1> SUFFICES ASSUME Init PROVE PartsInv
  OBVIOUS
<1>1. rows = InitialRows /\ tables = [i \in 1 .. MaxRows |-> NoTable]
      /\ \A w \in Workers : task[w] = Idle
  BY DEF Init
<1>2. RowsExact(rows)
  BY <1>1, FilesAssumption DEF RowsExact, RowExact, Kept
<1>3. TablesExact(tables, rows)
  BY <1>1 DEF TablesExact, NoTable
<1>4. \A w \in Workers : SendExact(task[w], rows)
  BY <1>1, IdleSends
<1>5. Owns(task)
  BY <1>1 DEF Owns
<1> QED BY <1>2, <1>3, <1>4, <1>5 DEF PartsInv

\* A call to the backend, whether its answer comes or is lost.
LEMMA PartsPost ==
    ASSUME TypeInv, PartsInv, NEW w \in Workers, Post(w) \/ PostLost(w)
    PROVE  PartsInv'
<1> DEFINE t == task[w]
           u == task'[w]
           E == Effect(t).rows
           S == Effect(t).touched
           n == IF t.left = <<>> THEN Root ELSE IF t.new = Root THEN Len(E) ELSE t.new
<1>1. /\ Disturbs(w, S) /\ rows' = E /\ Len(E) <= MaxRows /\ t # Idle /\ t.pc = "post"
      /\ u = Idle \/ (/\ u.pc = "pop" /\ u.whole = t.whole
                      /\ t.left # <<>> => u.left = Tail(t.left) /\ u.new = n
                      /\ t.left = <<>> => u.left = <<>> /\ u.new = t.new)
  <2>1. CASE Post(w)
    BY <2>1, PostFacts
  <2>2. CASE PostLost(w)
    BY <2>2, PostLostFacts
  <2> QED BY <2>1, <2>2
<1>2. tables' = tables
  BY DEF Post, PostLost
<1>3. RowsOK(rows) /\ RowsExact(rows) /\ TaskOK(t, rows) /\ SendExact(t, rows) /\ Owns(task)
  BY TaskFacts DEF TypeInv, PartsInv
<1>4. Grows(rows, E) /\ Registers(t, E) /\ AddsDir(t, E)
  BY <1>1, <1>3, EffectFacts
<1>5. /\ RowsExact(E) /\ Sent(t, E)
      /\ \A i \in DOMAIN rows : t.left = <<>> \/ i # t.new => E[i].parts = rows[i].parts
  BY <1>1, <1>3, <1>4, CallRows
<1>6. t.new \in Nat /\ t.new <= Len(rows) /\ Len(rows) \in Nat /\ DOMAIN rows = 1 .. Len(rows)
  BY <1>1, <1>3, FolderFacts DEF TaskOK, TaskType, RowsKnown, RowsOK
<1>7. t.left # <<>> /\ t.new = Root => Len(E) = Len(rows) + 1
  BY <1>4 DEF Registers
<1> HIDE DEF t, u, E, S
<1>8. \A i \in DOMAIN rows : i # n => E[i].parts = rows[i].parts
  BY <1>5, <1>6 DEF Root
<1>9. ASSUME NEW v \in Workers, v # w, task[v] # Idle, task[v].new # Root PROVE task[v].new # n
  <2>1. task[v].new \in Nat /\ task[v].new <= Len(rows)
    <3>1. TaskOK(task[v], rows)
      BY TaskFacts
    <3> QED BY <1>9, <3>1, FolderFacts DEF TaskOK, TaskType, RowsKnown
  <2>2. CASE t.left = <<>>
    BY <1>9, <2>2
  <2>3. CASE t.left # <<>> /\ t.new = Root
    BY <1>6, <1>7, <2>1, <2>3
  <2>4. CASE t.left # <<>> /\ t.new # Root
    BY <1>1, <1>3, <1>9, <2>4 DEF Owns, t
  <2> QED BY <2>2, <2>3, <2>4
<1>10. SendExact(u, E)
  <2>1. CASE u = Idle
    BY <2>1, IdleSends
  <2>2. CASE u # Idle /\ t.left = <<>>
    BY <1>1, <2>2 DEF SendExact
  <2>3. CASE u # Idle /\ t.left # <<>>
    <3>1. n # Root /\ IsInjective(t.whole) /\ ~E[n].dir /\ E[n].whole = t.whole
          /\ (Tail(t.left) # <<>> => E[n].split) /\ Rest(E[n].parts, Tail(t.left), t.whole)
      BY <1>5, <2>3 DEF Sent
    <3>2. u.left = Tail(t.left) /\ u.new = n /\ u.pc = "pop" /\ u.whole = t.whole
      BY <1>1, <2>3
    <3> HIDE DEF n
    <3> QED BY <3>1, <3>2 DEF SendExact
  <2> QED BY <2>1, <2>2, <2>3
<1>11. u = Idle \/ u.new = n \/ u.new = Root \/ (u.left = <<>> /\ t.left = <<>> /\ u.new = t.new)
  BY <1>1
<1>12. CASE t.left # <<>> \/ t.new = Root \/ u = Idle
  <2>1. u = Idle \/ u.new = n \/ u.new = Root
    BY <1>1, <1>12
  <2> HIDE DEF n
  <2>2. /\ Grows(rows, rows') /\ RowsExact(rows') /\ SendExact(task'[w], rows')
        /\ \A i \in DOMAIN rows : i # n => rows'[i].parts = rows[i].parts
        /\ task'[w] = Idle \/ task'[w].new = n \/ task'[w].new = Root
    BY <1>1, <1>4, <1>5, <1>8, <1>10, <2>1 DEF u
  <2> QED BY <1>1, <1>2, <1>9, <2>2, PartsChange
<1>13. CASE t.left = <<>> /\ t.new # Root /\ u # Idle
  \* a request that has sent everything makes no further call
  <2> DEFINE k == t.new
  <2>1. ASSUME NEW v \in Workers, v # w, task[v] # Idle, task[v].new # Root PROVE task[v].new # k
    BY <1>1, <1>3, <1>13, <2>1 DEF Owns, t
  <2>2. u.new = k
    BY <1>1, <1>13
  <2>3. \A i \in DOMAIN rows : E[i].parts = rows[i].parts
    BY <1>5, <1>13
  <2> HIDE DEF k
  <2>4. /\ Grows(rows, rows') /\ RowsExact(rows') /\ SendExact(task'[w], rows')
        /\ \A i \in DOMAIN rows : i # k => rows'[i].parts = rows[i].parts
        /\ task'[w] = Idle \/ task'[w].new = k \/ task'[w].new = Root
    BY <1>1, <1>4, <1>5, <1>10, <2>2, <2>3 DEF u
  <2> QED BY <1>1, <1>2, <2>1, <2>4, PartsChange
<1> QED BY <1>12, <1>13

\* Every step, where the files that are copied are the main account's.
LEMMA PartsStep ==
    TypeInv /\ PartsInv /\ CopiesFromMain /\ CopiesFromMain' /\ [Next]_vars => PartsInv'
<1> SUFFICES ASSUME TypeInv, PartsInv, CopiesFromMain, CopiesFromMain', [Next]_vars
             PROVE  PartsInv'
  OBVIOUS
<1>0. /\ RowsOK(rows) /\ RowsExact(rows) /\ TablesExact(tables, rows) /\ Owns(task)
      /\ \A w \in Workers : SendExact(task[w], rows)
  BY DEF TypeInv, PartsInv
<1>e. SendExact(Idle, rows)
  BY IdleSends
<1>m. ASSUME NEW w \in Workers, rows' = rows, task'[w].pc = "post", task'[w].ask.kind = "copy",
             ~rows[task'[w].source].dir
      PROVE  Main(rows[task'[w].source].whole)
  BY <1>m DEF CopiesFromMain
<1>1. ASSUME NEW w \in Workers, NEW ask \in Asks, Begin(w, ask) PROVE PartsInv'
  <2>1. rows' = rows /\ tables' = tables
    BY <1>1 DEF Begin
  <2>2. /\ Only(w) /\ task'[w].pc \in {"walk", "post"} /\ task'[w].new = Root
        /\ task'[w].pc = "post" => ask.kind = "put"
        /\ ask.kind = "put" => task'[w].left = ask.parts /\ task'[w].whole = ask.parts
    BY <1>1, BeginFacts
  <2>3. SendExact(task'[w], rows)
    BY <2>2, AskFacts DEF SendExact, Changes
  <2> QED BY <1>0, <2>1, <2>2, <2>3, PartsSame
<1>2. ASSUME NEW w \in Workers, NEW row \in DOMAIN rows, WebChange(w, row) PROVE PartsInv'
  <2>1. /\ Grows(rows, rows') /\ Disturbs(w, {rows[row].parent}) /\ Len(rows') = Len(rows)
        /\ \A i \in DOMAIN rows : rows'[i].parts = rows[i].parts
        /\ task'[w].left = <<>> /\ task'[w].new = Root /\ task'[w].pc = "pop"
    BY <1>2, WebFacts
  <2>2. tables' = tables
    BY <1>2 DEF WebChange
  <2>3. SendExact(task'[w], rows')
    BY <2>1 DEF SendExact
  <2>4. RowsExact(rows')
    <3>1. DOMAIN rows' = DOMAIN rows
      BY <1>0, <2>1 DEF Grows, RowsOK
    <3>2. ASSUME NEW i \in DOMAIN rows PROVE RowExact(rows'[i])
      BY <1>0, <2>1 DEF Grows, RowsExact, RowExact
    <3> QED BY <3>1, <3>2 DEF RowsExact
  <2>5. \A i \in DOMAIN rows : i # Root => rows'[i].parts = rows[i].parts
    BY <2>1
  <2> QED BY <2>1, <2>2, <2>3, <2>4, <2>5, PartsChange
<1>3. ASSUME NEW w \in Workers, MemoryHit(w) \/ FillMemory(w) \/ Persist(w) PROVE PartsInv'
  <2>1. rows' = rows /\ tables' = tables /\ task[w].pc \in Walking
    BY <1>3 DEF MemoryHit, FillMemory, Persist, Walking, Looking
  <2>2. Only(w) /\ task[w] # Idle /\ TaskOK(task'[w], rows) /\ Went(task[w], task'[w], rows)
    BY <1>3, WalkFacts
  <2>3. TaskOK(task[w], rows)
    BY TaskFacts
  <2>4. SendExact(task'[w], rows)
    BY <1>0, <1>m, <2>1, <2>2, <2>3, WentSends
  <2>5. task'[w] = Idle \/ task'[w].new = Root
    BY <2>2 DEF Went
  <2> QED BY <1>0, <2>1, <2>2, <2>4, <2>5, PartsSame
<1>4. ASSUME NEW w \in Workers,
             DiskHit(w) \/ Miss(w) \/ KeepListing(w) \/ \E kind \in Kinds : ReadPage(w, kind)
      PROVE  PartsInv'
  <2>1. rows' = rows /\ tables' = tables
    BY <1>4 DEF DiskHit, Miss, KeepListing, ReadPage
  <2>2. Only(w) /\ task[w] # Idle /\ Keeps(task[w], task'[w]) /\ task'[w].pc \in Looking
    <3>1. CASE DiskHit(w)
      BY <3>1, DiskHitFacts DEF Looking
    <3>2. CASE Miss(w)
      BY <3>2, MissFacts DEF Looking
    <3>3. CASE KeepListing(w)
      BY <3>3, KeepListingFacts DEF Looking
    <3>4. ASSUME NEW kind \in Kinds, ReadPage(w, kind)
          PROVE  Only(w) /\ task[w] # Idle /\ Keeps(task[w], task'[w]) /\ task'[w].pc \in Looking
      BY <3>4, ReadPageFacts DEF Looking
    <3> QED BY <1>4, <3>1, <3>2, <3>3, <3>4
  <2>3. SendExact(task'[w], rows)
    BY <2>2 DEF SendExact, Looking, Changes
  <2>4. task'[w].new = task[w].new
    BY <2>2 DEF Keeps
  <2> QED BY <1>0, <2>1, <2>2, <2>3, <2>4, PartsSame
<1>5. ASSUME NEW w \in Workers, PartsKnown(w) \/ PostFails(w) PROVE PartsInv'
  <2>1. rows' = rows /\ tables' = tables
    BY <1>5 DEF PartsKnown, PostFails
  <2>2. Only(w) /\ task'[w] = Idle
    BY <1>5, EndFacts
  <2> QED BY <1>0, <1>e, <2>1, <2>2, PartsSame
<1>6. ASSUME NEW w \in Workers, KeepTable(w) PROVE PartsInv'
  <2> DEFINE t == task[w]
  <2>1. /\ rows' = rows /\ t.pc = "table"
        /\ tables' = [tables EXCEPT ![t.source] = [parts |-> t.left, whole |-> t.clean]]
    BY <1>6 DEF KeepTable
  <2>2. Only(w) /\ task'[w] = Idle /\ t # Idle
    BY <1>6, EndFacts
  <2>3. t.source \in DOMAIN rows
    <3>1. t \in TaskType /\ RowsKnown(t, rows) /\ ChangeInv(t, rows)
      BY <2>2, TaskFacts
    <3>2. t.source # Root /\ t.source \in Nat /\ t.source <= Len(rows)
      BY <2>1, <3>1, FolderFacts DEF TaskType, RowsKnown, ChangeInv
    <3> QED BY <1>0, <3>2, RowFacts
  <2>4. t.clean => t.left = rows[t.source].whole
    BY <1>0, <2>1 DEF SendExact
  <2> HIDE DEF t
  <2>5. TablesExact(tables', rows)
    <3>1. ASSUME NEW i \in 1 .. MaxRows, tables'[i].whole
          PROVE  i \in DOMAIN rows /\ tables'[i].parts = rows[i].whole
      <4>1. CASE i = t.source
        BY <2>1, <2>3, <2>4, <3>1, <4>1 DEF TypeInv
      <4>2. CASE i # t.source
        BY <1>0, <2>1, <3>1, <4>2 DEF TypeInv, TablesExact
      <4> QED BY <4>1, <4>2
    <3> QED BY <3>1 DEF TablesExact
  <2> QED BY <1>e, <2>1, <2>2, <2>5, PartsSame
<1>7. ASSUME NEW w \in Workers, FetchParts(w) PROVE PartsInv'
  <2>1. rows' = rows /\ tables' = tables
    BY <1>7 DEF FetchParts
  <2>2. Only(w) /\ task[w] # Idle /\ task'[w].new = task[w].new
    BY <1>7, FetchPartsFacts
  <2>3. SendExact(task'[w], rows)
    BY <1>0, <1>7, TableSends
  <2> QED BY <1>0, <2>1, <2>2, <2>3, PartsSame
<1>8. ASSUME NEW w \in Workers, FetchGroup(w) PROVE PartsInv'
  <2>1. rows' = rows /\ tables' = tables
    BY <1>8 DEF FetchGroup
  <2>2. Only(w) /\ task'[w].new = Root
    BY <1>8, FetchGroupFacts
  <2>3. SendExact(task'[w], rows)
    BY <1>0, <1>8, GroupSends
  <2> QED BY <1>0, <2>1, <2>2, <2>3, PartsSame
<1>9. ASSUME NEW w \in Workers, Post(w) \/ PostLost(w) PROVE PartsInv'
  BY <1>9, PartsPost
<1>10. ASSUME NEW w \in Workers, PopMemory(w) \/ UnlinkDisk(w) PROVE PartsInv'
  <2>1. rows' = rows /\ tables' = tables /\ task[w].pc \in Changes
    BY <1>10 DEF PopMemory, UnlinkDisk, Changes
  <2>2. /\ Only(w) /\ task[w] # Idle
        /\ task'[w] = Idle \/ (Keeps(task[w], task'[w]) /\ task'[w].pc \in Changes)
    <3>1. CASE PopMemory(w)
      BY <3>1, PopFacts DEF Changes
    <3>2. CASE UnlinkDisk(w)
      BY <3>2, UnlinkFacts DEF Changes
    <3> QED BY <1>10, <3>1, <3>2
  <2>3. CASE task'[w] = Idle
    BY <1>0, <1>e, <2>1, <2>2, <2>3, PartsSame
  <2>4. CASE task'[w] # Idle
    <3>1. Keeps(task[w], task'[w]) /\ task'[w].pc \in Changes /\ SendExact(task[w], rows)
      BY <1>0, <2>2, <2>4
    <3>2. SendExact(task'[w], rows)
      BY <2>1, <3>1 DEF SendExact, Keeps, Changes
    <3>3. task'[w].new = task[w].new
      BY <3>1 DEF Keeps
    <3> QED BY <1>0, <2>1, <2>2, <3>2, <3>3, PartsSame
  <2> QED BY <2>3, <2>4
<1>11. CASE Tick
  BY <1>0, <1>11 DEF Tick, PartsInv
<1>12. CASE Restart
  <2>1. rows' = rows /\ tables' = tables /\ task' = [w \in Workers |-> Idle]
    BY <1>12 DEF Restart
  <2>2. Owns(task') /\ \A w \in Workers : SendExact(task'[w], rows)
    BY <1>e, <2>1 DEF Owns
  <2> QED BY <1>0, <2>1, <2>2 DEF PartsInv
<1>13. CASE UNCHANGED vars
  BY <1>13 DEF vars, PartsInv
<1> QED BY <1>1, <1>2, <1>3, <1>4, <1>5, <1>6, <1>7, <1>8, <1>9, <1>10, <1>11, <1>12, <1>13
        DEF Next

\* An exact row or table is what parts_for answers with.
LEMMA PartsExact == TypeInv /\ PartsInv => PartsAreExact
<1> SUFFICES ASSUME TypeInv, PartsInv, NEW i \in DOMAIN rows
             PROVE  /\ ~rows[i].dir /\ ~rows[i].split => rows[i].parts = rows[i].whole
                    /\ tables[i].whole => tables[i].parts = rows[i].whole
  BY DEF PartsAreExact
<1>1. RowExact(rows[i]) /\ TablesExact(tables, rows)
  BY DEF PartsInv, RowsExact
<1>2. i \in 1 .. MaxRows
  BY FolderFacts DEF TypeInv, RowsOK
<1> QED BY <1>1, <1>2 DEF RowExact, TablesExact

\* What parts_for hands out for a file leads to the messages its content was sent in, in
\* order, wherever all of its rows were there as its table was read, if only files of the
\* main account are copied: the dedup of rows, the permanent cache, and the rows that an
\* upload and a copy write, whatever is renamed, deleted, lost or restarted meanwhile.
THEOREM ExactParts == Spec /\ []CopiesFromMain => []PartsAreExact
<1>1. Init /\ CopiesFromMain => TypeInv /\ PartsInv
  BY TypeInit, PartsInit
<1>2. TypeInv /\ PartsInv /\ CopiesFromMain /\ CopiesFromMain' /\ [Next]_vars
        => TypeInv' /\ PartsInv'
  BY TypeStep, PartsStep
<1> QED BY <1>1, <1>2, PartsExact, PTL DEF Spec

-----------------------------------------------------------------------------
(* The bytes of parts *)

LEMMA MinTwo ==
    ASSUME NEW a \in Int, NEW b \in Int
    PROVE  Min({a, b}) = IF a <= b THEN a ELSE b
<1>1. \E x \in {a, b} : \A y \in {a, b} : x <= y
  OBVIOUS
<1>2. Min({a, b}) \in {a, b} /\ \A y \in {a, b} : Min({a, b}) <= y
  BY <1>1 DEF Min
<1> QED BY <1>2

LEMMA MaxTwo ==
    ASSUME NEW a \in Int, NEW b \in Int
    PROVE  Max({a, b}) = IF a <= b THEN b ELSE a
<1>1. \E x \in {a, b} : \A y \in {a, b} : x >= y
  OBVIOUS
<1>2. Max({a, b}) \in {a, b} /\ \A y \in {a, b} : Max({a, b}) >= y
  BY <1>1 DEF Max
<1> QED BY <1>2

LEMMA MinThree ==
    ASSUME NEW a \in Int, NEW b \in Int, NEW c \in Int
    PROVE  /\ Min({a, b, c}) \in Int
           /\ Min({a, b, c}) <= a /\ Min({a, b, c}) <= b /\ Min({a, b, c}) <= c
           /\ Min({a, b, c}) \in {a, b, c}
<1>1. \E x \in {a, b, c} : \A y \in {a, b, c} : x <= y
  <2>1. CASE a <= b /\ a <= c
    BY <2>1
  <2>2. CASE b <= a /\ b <= c
    BY <2>2
  <2>3. CASE c <= a /\ c <= b
    BY <2>3
  <2> QED BY <2>1, <2>2, <2>3
<1>2. Min({a, b, c}) \in {a, b, c} /\ \A y \in {a, b, c} : Min({a, b, c}) <= y
  BY <1>1 DEF Min
<1> QED BY <1>2

Bytes(sizes, i) == UNION {{j} \X (1 .. sizes[j]) : j \in 1 .. i - 1}

LEMMA BytesFacts ==
    ASSUME NEW s \in Seq(Nat), NEW i \in 1 .. Len(s) + 1
    PROVE  IsFiniteSet(Bytes(s, i)) /\ Before(s, i) = Cardinality(Bytes(s, i))
<1> DEFINE S == {{j} \X (1 .. s[j]) : j \in 1 .. i - 1}
           f == [j \in 1 .. i - 1 |-> {j} \X (1 .. s[j])]
<1>0. Len(s) \in Nat /\ i - 1 \in Nat
  OBVIOUS
<1>1. IsFiniteSet(1 .. i - 1)
  BY <1>0, FS_Interval
<1>2. f \in Surjection(1 .. i - 1, S)
  BY DEF Surjection
<1> HIDE DEF f, S
<1>3. IsFiniteSet(S)
  BY <1>1, <1>2, FS_Surjection
<1>4. ASSUME NEW T \in S PROVE IsFiniteSet(T)
  <2>1. PICK j \in 1 .. i - 1 : T = {j} \X (1 .. s[j])
    BY DEF S
  <2>2. s[j] \in Nat
    <3>1. j \in 1 .. Len(s)
      BY <1>0
    <3> QED BY <3>1
  <2>3. IsFiniteSet(1 .. s[j])
    <3>1. \A n \in Nat : IsFiniteSet(1 .. n)
      BY FS_Interval
    <3> QED BY <2>2, <3>1
  <2>4. IsFiniteSet({j})
    BY FS_Singleton
  <2> QED BY <2>1, <2>3, <2>4, FS_Product
<1>5. IsFiniteSet(UNION S)
  BY <1>3, <1>4, FS_UNION
<1>6. Bytes(s, i) = UNION S
  BY DEF Bytes, S
<1> QED BY <1>5, <1>6 DEF Bytes, Before

LEMMA BeforeFirst ==
    ASSUME NEW s \in Seq(Nat)
    PROVE  Before(s, 1) = 0
<1>1. Bytes(s, 1) = {}
  BY DEF Bytes
<1>2. Cardinality(Bytes(s, 1)) = 0
  BY <1>1, FS_EmptySet
<1> QED BY <1>2 DEF Bytes, Before

LEMMA BeforeType ==
    ASSUME NEW s \in Seq(Nat), NEW i \in 1 .. Len(s) + 1
    PROVE  Before(s, i) \in Nat
BY BytesFacts, FS_CardinalityType

LEMMA BeforeNext ==
    ASSUME NEW s \in Seq(Nat), NEW i \in 1 .. Len(s)
    PROVE  Before(s, i + 1) = Before(s, i) + s[i]
<1> DEFINE A == Bytes(s, i)
           B == {i} \X (1 .. s[i])
           C == Bytes(s, i + 1)
<1>0. s[i] \in Nat /\ i \in 1 .. Len(s) + 1 /\ i + 1 \in 1 .. Len(s) + 1
  OBVIOUS
<1>1. IsFiniteSet(A) /\ Before(s, i) = Cardinality(A)
  BY <1>0, BytesFacts
<1>2. Before(s, i + 1) = Cardinality(C)
  BY <1>0, BytesFacts
<1>3. IsFiniteSet({i}) /\ Cardinality({i}) = 1
  BY FS_Singleton
<1>4. IsFiniteSet(1 .. s[i]) /\ Cardinality(1 .. s[i]) = s[i]
  <2> DEFINE n == s[i]
  <2>1. n \in Nat
    BY <1>0
  <2> HIDE DEF n
  <2>2. IsFiniteSet(1 .. n) /\ Cardinality(1 .. n) = n
    BY <2>1, FS_Interval
  <2> QED BY <2>2 DEF n
<1>5. IsFiniteSet(B) /\ Cardinality(B) = 1 * s[i]
  BY <1>3, <1>4, FS_Product
<1>6. C = A \cup B
  <2>1. 1 .. (i + 1) - 1 = (1 .. i - 1) \cup {i}
    OBVIOUS
  <2> QED BY <2>1 DEF Bytes
<1>7. A \cap B = {}
  BY DEF Bytes
<1> HIDE DEF A, B, C
<1>8. Cardinality(A \cap B) = 0
  BY <1>7, FS_EmptySet
<1>9. Cardinality(A \cup B) = Cardinality(A) + Cardinality(B) - Cardinality(A \cap B)
  BY <1>1, <1>5, FS_Union
<1>10. Cardinality(A) \in Nat
  BY <1>1, FS_CardinalityType
<1> QED BY <1>0, <1>1, <1>2, <1>5, <1>6, <1>8, <1>9, <1>10

LEMMA BeforeGrows ==
    ASSUME NEW s \in Seq(Nat), NEW i \in 1 .. Len(s) + 1, NEW j \in 1 .. Len(s) + 1, i <= j
    PROVE  Before(s, i) <= Before(s, j)
<1>1. Bytes(s, i) \subseteq Bytes(s, j)
  <2>1. 1 .. i - 1 \subseteq 1 .. j - 1
    OBVIOUS
  <2> QED BY <2>1 DEF Bytes
<1> QED BY <1>1, BytesFacts, FS_Subset

\* Parts that agree so far have as many bytes so far.
LEMMA BeforeSame ==
    ASSUME NEW s, NEW t, NEW i, \A j \in 1 .. i - 1 : s[j] = t[j]
    PROVE  Before(s, i) = Before(t, i)
<1>1. Bytes(s, i) = Bytes(t, i)
  BY DEF Bytes
<1> QED BY <1>1 DEF Before, Bytes

\* The part that a place lies in.
LEMMA Located ==
    ASSUME NEW s \in Seq(Nat), NEW p \in Nat, p < SizeOf(s)
    PROVE  \E i \in 1 .. Len(s) : Before(s, i) <= p /\ p < Before(s, i) + s[i]
<1> DEFINE After == {i \in 1 .. Len(s) + 1 : p < Before(s, i)}
<1>1. Len(s) + 1 \in After /\ After \in SUBSET Nat /\ Len(s) \in Nat
  BY DEF SizeOf
<1>2. PICK k \in After : \A j \in After : k <= j
  BY <1>1, Least
<1>3. k \in 1 .. Len(s) + 1 /\ p < Before(s, k)
  BY <1>2
<1>4. k # 1
  BY <1>3, BeforeFirst
<1>5. k - 1 \in 1 .. Len(s) /\ k - 1 \in 1 .. Len(s) + 1
  BY <1>1, <1>3, <1>4
<1>6. k - 1 \notin After
  BY <1>2, <1>3
<1>7. ~(p < Before(s, k - 1))
  BY <1>5, <1>6
<1>8. Before(s, k - 1) \in Nat
  BY <1>5, BeforeType
<1>9. Before(s, (k - 1) + 1) = Before(s, k - 1) + s[k - 1]
  BY <1>5, BeforeNext
<1>10. (k - 1) + 1 = k
  BY <1>3
<1> QED BY <1>3, <1>5, <1>7, <1>8, <1>9, <1>10

\* There is one.
LEMMA LocatedOnce ==
    ASSUME NEW s \in Seq(Nat), NEW p \in Nat, NEW i \in 1 .. Len(s), NEW j \in 1 .. Len(s),
           Before(s, i) <= p, p < Before(s, i) + s[i],
           Before(s, j) <= p, p < Before(s, j) + s[j]
    PROVE  i = j
<1>1. ASSUME NEW k \in 1 .. Len(s), NEW l \in 1 .. Len(s), k < l,
             p < Before(s, k) + s[k], Before(s, l) <= p
      PROVE  FALSE
  <2>1. k + 1 \in 1 .. Len(s) + 1 /\ l \in 1 .. Len(s) + 1 /\ k \in 1 .. Len(s) + 1 /\ k + 1 <= l
    BY <1>1
  <2>2. Before(s, k + 1) <= Before(s, l)
    BY <2>1, BeforeGrows
  <2>3. Before(s, k + 1) = Before(s, k) + s[k]
    BY BeforeNext
  <2>4. Before(s, k) \in Nat /\ Before(s, l) \in Nat /\ s[k] \in Nat
    BY <2>1, BeforeType
  <2> DEFINE x == Before(s, k)
             y == s[k]
             z == Before(s, l)
  <2>5. x \in Nat /\ y \in Nat /\ z \in Nat /\ x + y <= z /\ p < x + y /\ z <= p
    BY <1>1, <2>2, <2>3, <2>4
  <2> HIDE DEF x, y, z
  <2> QED BY <2>5
<1>2. ~(i < j) /\ ~(j < i)
  BY <1>1
<1> QED BY <1>2

-----------------------------------------------------------------------------
(* Bytes laid end to end *)

\* What a file is made of.
Byte == Int \X Nat
Lens(q) == [i \in DOMAIN q |-> Len(q[i])]

LEMMA SliceType ==
    ASSUME NEW s \in Seq(Byte), NEW a \in Nat, NEW n \in Int
    PROVE  /\ Slice(s, a, n) \in Seq(Byte)
           /\ Len(Slice(s, a, n)) =
                IF n <= Len(s) - a THEN IF n <= 0 THEN 0 ELSE n
                ELSE IF Len(s) <= a THEN 0 ELSE Len(s) - a
           /\ \A i \in 1 .. Len(Slice(s, a, n)) : a + i \in 1 .. Len(s) /\ Slice(s, a, n)[i] = s[a + i]
<1> DEFINE l == Len(s)
           k == IF n <= l - a THEN n ELSE l - a
           m == IF k <= 0 THEN 0 ELSE k
<1>1. l \in Nat /\ l - a \in Int /\ k \in Int /\ m \in Nat /\ 1 .. k = 1 .. m
  OBVIOUS
<1>2. Min({n, l - a}) = k
  BY <1>1, MinTwo
<1> HIDE DEF k
<1>3. Slice(s, a, n) = [i \in 1 .. m |-> s[a + i]]
  BY <1>1, <1>2 DEF Slice
<1>4. \A i \in 1 .. m : a + i \in 1 .. l
  BY <1>1 DEF k
<1> HIDE DEF m
<1>5. \A i \in 1 .. m : s[a + i] \in Byte
  BY <1>4
<1>6. Slice(s, a, n) \in Seq(Byte) /\ Len(Slice(s, a, n)) = m
  BY <1>1, <1>3, <1>5
<1>7. \A i \in 1 .. m : Slice(s, a, n)[i] = s[a + i]
  BY <1>3
<1>8. m = IF n <= Len(s) - a THEN IF n <= 0 THEN 0 ELSE n
          ELSE IF Len(s) <= a THEN 0 ELSE Len(s) - a
  BY <1>1 DEF m, k
<1> QED BY <1>4, <1>6, <1>7, <1>8

\* Sequences are equal if their places are.
LEMMA SameBytes ==
    ASSUME NEW s \in Seq(Byte), NEW t \in Seq(Byte), Len(s) = Len(t),
           \A i \in 1 .. Len(s) : s[i] = t[i]
    PROVE  s = t
OBVIOUS

LEMMA Appended ==
    ASSUME NEW s \in Seq(Byte), NEW t \in Seq(Byte)
    PROVE  /\ s \o t \in Seq(Byte) /\ Len(s \o t) = Len(s) + Len(t)
           /\ \A i \in 1 .. Len(s) : (s \o t)[i] = s[i]
           /\ \A i \in 1 .. Len(t) : (s \o t)[Len(s) + i] = t[i]
<1>1. s \o t \in Seq(Byte)
  OBVIOUS
<1>2. Len(s \o t) = Len(s) + Len(t)
  OBVIOUS
<1>3. ASSUME NEW i \in 1 .. Len(s) PROVE (s \o t)[i] = s[i]
  OBVIOUS
<1>4. ASSUME NEW i \in 1 .. Len(t) PROVE (s \o t)[Len(s) + i] = t[i]
  <2>1. Len(s) \in Nat /\ Len(t) \in Nat /\ i \in Nat
    OBVIOUS
  <2>2. Len(s) + i \in 1 .. Len(s) + Len(t)
    BY <2>1
  <2>3. ~(Len(s) + i <= Len(s)) /\ (Len(s) + i) - Len(s) = i
    BY <2>1
  <2> QED BY <2>2, <2>3
<1> QED BY <1>1, <1>2, <1>3, <1>4

\* A slice and the one that follows it are one slice.
LEMMA SlicesJoin ==
    ASSUME NEW s \in Seq(Byte), NEW a \in Nat, NEW n \in Nat, NEW k \in Nat
    PROVE  Slice(s, a, n) \o Slice(s, a + n, k) = Slice(s, a, n + k)
<1> DEFINE x == Slice(s, a, n)
           y == Slice(s, a + n, k)
           z == Slice(s, a, n + k)
<1>1. /\ x \in Seq(Byte)
      /\ Len(x) = IF n <= Len(s) - a THEN IF n <= 0 THEN 0 ELSE n
                  ELSE IF Len(s) <= a THEN 0 ELSE Len(s) - a
      /\ \A i \in 1 .. Len(x) : x[i] = s[a + i]
  <2>1. n \in Int
    OBVIOUS
  <2> QED BY <2>1, SliceType
<1>2. /\ y \in Seq(Byte)
      /\ Len(y) = IF k <= Len(s) - (a + n) THEN IF k <= 0 THEN 0 ELSE k
                  ELSE IF Len(s) <= a + n THEN 0 ELSE Len(s) - (a + n)
      /\ \A i \in 1 .. Len(y) : y[i] = s[(a + n) + i]
  <2>1. a + n \in Nat /\ k \in Int
    OBVIOUS
  <2> QED BY <2>1, SliceType
<1>3. /\ z \in Seq(Byte)
      /\ Len(z) = IF n + k <= Len(s) - a THEN IF n + k <= 0 THEN 0 ELSE n + k
                  ELSE IF Len(s) <= a THEN 0 ELSE Len(s) - a
      /\ \A i \in 1 .. Len(z) : z[i] = s[a + i]
  <2>1. n + k \in Int
    OBVIOUS
  <2> QED BY <2>1, SliceType
<1>l. Len(s) \in Nat
  OBVIOUS
<1> HIDE DEF x, y, z
<1>4. x \o y \in Seq(Byte) /\ Len(x \o y) = Len(x) + Len(y)
  BY <1>1, <1>2, Appended
<1>5. Len(x \o y) = Len(z)
  <2> DEFINE l == Len(s)
             lx == Len(x)
             ly == Len(y)
             lz == Len(z)
  <2>1. l \in Nat
    BY <1>l
  <2>2. lx = IF n <= l - a THEN IF n <= 0 THEN 0 ELSE n ELSE IF l <= a THEN 0 ELSE l - a
    BY <1>1
  <2>3. ly = IF k <= l - (a + n) THEN IF k <= 0 THEN 0 ELSE k
             ELSE IF l <= a + n THEN 0 ELSE l - (a + n)
    BY <1>2
  <2>4. lz = IF n + k <= l - a THEN IF n + k <= 0 THEN 0 ELSE n + k
             ELSE IF l <= a THEN 0 ELSE l - a
    BY <1>3
  <2> HIDE DEF l, lx, ly, lz
  <2>5. lx + ly = lz
    BY <2>1, <2>2, <2>3, <2>4
  <2> QED BY <1>4, <2>5 DEF lx, ly, lz
<1>6. ASSUME NEW i \in 1 .. Len(z) PROVE (x \o y)[i] = z[i]
  <2>1. CASE i <= Len(x)
    <3>1. i \in 1 .. Len(x)
      BY <1>1, <2>1
    <3>2. (x \o y)[i] = x[i]
      BY <1>1, <1>2, <3>1, Appended
    <3> QED BY <1>1, <1>3, <3>1, <3>2
  <2>2. CASE i > Len(x)
    <3>1. Len(x) \in Nat /\ Len(y) \in Nat /\ Len(z) \in Nat
      BY <1>1, <1>2, <1>3
    <3>2. i - Len(x) \in 1 .. Len(y)
      BY <1>4, <1>5, <2>2, <3>1
    <3>3. (x \o y)[i] = y[i - Len(x)]
      <4>1. (x \o y)[Len(x) + (i - Len(x))] = y[i - Len(x)]
        BY <1>1, <1>2, <3>2, Appended
      <4>2. Len(x) + (i - Len(x)) = i
        BY <3>1
      <4> QED BY <4>1, <4>2
    <3>4. Len(x) = n
      BY <1>l, <1>1, <1>2, <3>1, <3>2
    <3>5. y[i - Len(x)] = s[(a + n) + (i - n)]
      BY <1>2, <3>2, <3>4
    <3>6. (a + n) + (i - n) = a + i
      BY <3>1
    <3> QED BY <1>3, <3>3, <3>5, <3>6
  <2>3. i \in Nat /\ Len(x) \in Nat
    BY <1>1, <1>3
  <2>4. i <= Len(x) \/ i > Len(x)
    BY <2>3
  <2> QED BY <2>1, <2>2, <2>4
<1>7. x \o y = z
  BY <1>3, <1>4, <1>5, <1>6, SameBytes
<1> QED BY <1>7 DEF x, y, z

\* A slice of a slice.
LEMMA SliceOfSlice ==
    ASSUME NEW s \in Seq(Byte), NEW a \in Nat, NEW n \in Nat, NEW b \in Nat, NEW k \in Int, b + k <= n
    PROVE  Slice(Slice(s, a, n), b, k) = Slice(s, a + b, k)
<1> DEFINE x == Slice(s, a, n)
           y == Slice(x, b, k)
           z == Slice(s, a + b, k)
<1>1. /\ x \in Seq(Byte)
      /\ Len(x) = IF n <= Len(s) - a THEN IF n <= 0 THEN 0 ELSE n
                  ELSE IF Len(s) <= a THEN 0 ELSE Len(s) - a
      /\ \A i \in 1 .. Len(x) : x[i] = s[a + i]
  <2>1. n \in Int
    OBVIOUS
  <2> QED BY <2>1, SliceType
<1> HIDE DEF x
<1>2. /\ y \in Seq(Byte)
      /\ Len(y) = IF k <= Len(x) - b THEN IF k <= 0 THEN 0 ELSE k
                  ELSE IF Len(x) <= b THEN 0 ELSE Len(x) - b
      /\ \A i \in 1 .. Len(y) : b + i \in 1 .. Len(x) /\ y[i] = x[b + i]
  BY <1>1, SliceType
<1>3. /\ z \in Seq(Byte)
      /\ Len(z) = IF k <= Len(s) - (a + b) THEN IF k <= 0 THEN 0 ELSE k
                  ELSE IF Len(s) <= a + b THEN 0 ELSE Len(s) - (a + b)
      /\ \A i \in 1 .. Len(z) : z[i] = s[(a + b) + i]
  <2>1. a + b \in Nat
    OBVIOUS
  <2> QED BY <2>1, SliceType
<1>l. Len(s) \in Nat
  OBVIOUS
<1> HIDE DEF y, z
<1>4. Len(y) = Len(z)
  BY <1>l, <1>1, <1>2, <1>3
<1>5. ASSUME NEW i \in 1 .. Len(y) PROVE y[i] = z[i]
  <2>1. y[i] = x[b + i] /\ x[b + i] = s[a + (b + i)]
    BY <1>1, <1>2
  <2>2. a + (b + i) = (a + b) + i
    BY <1>2
  <2> QED BY <1>3, <1>4, <2>1, <2>2
<1>6. y = z
  BY <1>2, <1>3, <1>4, <1>5, SameBytes
<1> QED BY <1>6 DEF x, y, z

LEMMA JoinedFacts ==
    ASSUME NEW n \in Nat, NEW q, DOMAIN q = 1 .. n, \A i \in 1 .. n : q[i] \in Seq(Byte)
    PROVE  /\ Lens(q) \in Seq(Nat) /\ Len(Lens(q)) = n
           /\ Joined(q) \in Seq(Byte) /\ Len(Joined(q)) = SizeOf(Lens(q))
           /\ \A i \in 1 .. n : \A b \in 1 .. Len(q[i]) :
                /\ Before(Lens(q), i) + b \in 1 .. SizeOf(Lens(q))
                /\ Joined(q)[Before(Lens(q), i) + b] = q[i][b]
<1> DEFINE s == Lens(q)
           In(i, p) == Before(s, i) <= p /\ p < Before(s, i) + s[i]
           H(p) == CHOOSE i \in 1 .. n : In(i, p)
<1>1. \A i \in 1 .. n : Len(q[i]) \in Nat /\ s[i] = Len(q[i])
  BY DEF Lens
<1>2. s \in Seq(Nat) /\ Len(s) = n
  BY <1>1 DEF Lens
<1>3. Joined(q) = [p \in 1 .. SizeOf(s) |-> q[H(p - 1)][p - Before(s, H(p - 1))]]
  BY DEF Joined, Lens
<1>4. SizeOf(s) \in Nat
  <2>1. Len(s) + 1 \in 1 .. Len(s) + 1
    BY <1>2
  <2> QED BY <1>2, <2>1, BeforeType DEF SizeOf
<1> HIDE DEF s
<1>5. ASSUME NEW p \in 1 .. SizeOf(s)
      PROVE  /\ H(p - 1) \in 1 .. n /\ In(H(p - 1), p - 1)
             /\ p - Before(s, H(p - 1)) \in 1 .. Len(q[H(p - 1)])
  <2>1. p - 1 \in Nat /\ p - 1 < SizeOf(s)
    BY <1>4
  <2>2. \E i \in 1 .. n : In(i, p - 1)
    BY <1>2, <2>1, Located
  <2>3. H(p - 1) \in 1 .. n /\ In(H(p - 1), p - 1)
    BY <2>2
  <2> HIDE DEF H
  <2> DEFINE h == H(p - 1)
  <2>4. h \in 1 .. Len(s) + 1 /\ Before(s, h) \in Nat
    <3>1. h \in 1 .. Len(s) + 1
      BY <1>2, <2>3
    <3> QED BY <1>2, <3>1, BeforeType
  <2>5. s[h] \in Nat /\ s[h] = Len(q[h])
    BY <1>1, <2>3
  <2>6. p - Before(s, h) \in 1 .. Len(q[h])
    BY <2>3, <2>4, <2>5
  <2> QED BY <2>3, <2>6
<1>6. \A p \in 1 .. SizeOf(s) : q[H(p - 1)][p - Before(s, H(p - 1))] \in Byte
  BY <1>5
<1>7. Joined(q) \in Seq(Byte) /\ Len(Joined(q)) = SizeOf(s)
  <2> HIDE DEF H
  <2> QED BY <1>3, <1>4, <1>6
<1>8. ASSUME NEW i \in 1 .. n, NEW b \in 1 .. Len(q[i])
      PROVE  /\ Before(s, i) + b \in 1 .. SizeOf(s)
             /\ Joined(q)[Before(s, i) + b] = q[i][b]
  <2> DEFINE p == Before(s, i) + b
  <2>1. i \in 1 .. Len(s) /\ i \in 1 .. Len(s) + 1 /\ i + 1 \in 1 .. Len(s) + 1
        /\ Len(s) + 1 \in 1 .. Len(s) + 1 /\ i + 1 <= Len(s) + 1
    BY <1>2
  <2>2. Before(s, i) \in Nat
    BY <1>2, <2>1, BeforeType
  <2>3. Before(s, i + 1) = Before(s, i) + s[i] /\ Before(s, i + 1) <= SizeOf(s)
    BY <1>2, <2>1, BeforeNext, BeforeGrows DEF SizeOf
  <2>4. s[i] = Len(q[i]) /\ s[i] \in Nat /\ b \in Nat /\ 1 <= b /\ b <= s[i]
    BY <1>1
  <2>5. p \in 1 .. SizeOf(s) /\ In(i, p - 1) /\ p - 1 \in Nat
    BY <1>4, <2>2, <2>3, <2>4
  <2>6. H(p - 1) = i
    <3> HIDE DEF p, H
    <3>1. H(p - 1) \in 1 .. n /\ In(H(p - 1), p - 1)
      BY <1>5, <2>5
    <3> QED BY <1>2, <2>5, <3>1, LocatedOnce
  <2>7. p - Before(s, i) = b
    BY <2>2, <2>4
  <2>8. Joined(q)[p] = q[i][b]
    <3> HIDE DEF p, H
    <3> QED BY <1>3, <2>5, <2>6, <2>7
  <2> QED BY <2>5, <2>8
<1> QED BY <1>1, <1>2, <1>7, <1>8 DEF s

-----------------------------------------------------------------------------
(* One read of a document *)

LEMMA Products ==
    ASSUME NEW a \in Nat, NEW b \in Nat
    PROVE  /\ a * b \in Nat /\ 0 * b = 0 /\ a * b = b * a
           /\ \A c \in Nat : c = a + 1 => c * b = a * b + b
OBVIOUS

\* What c requests of r bytes bring, from place a.
Requests(s, a, r, c) == [i \in 1 .. c |-> Slice(s, a + (i - 1) * r, r)]

\* t is what a request brings that begins d bytes after place a.
Brings(t, s, a, r, d) ==
  /\ a + d \in Nat /\ t \in Seq(Byte)
  /\ Len(t) = IF r <= Len(s) - (a + d) THEN r
              ELSE IF Len(s) <= a + d THEN 0 ELSE Len(s) - (a + d)
  /\ \A b \in 1 .. Len(t) : t[b] = s[(a + d) + b]

LEMMA ChunkLens ==
    ASSUME NEW s \in Seq(Byte), NEW a \in Nat, NEW c \in Nat, NEW r \in Nat \ {0},
           NEW q, q = Requests(s, a, r, c)
    PROVE  /\ DOMAIN q = 1 .. c
           /\ \A i \in 1 .. c : q[i] \in Seq(Byte) /\ Brings(q[i], s, a, r, (i - 1) * r)
<1>0. DOMAIN q = 1 .. c
  BY DEF Requests
<1>1. ASSUME NEW i \in 1 .. c PROVE Brings(q[i], s, a, r, (i - 1) * r)
  <2> DEFINE d == (i - 1) * r
             t == Slice(s, a + d, r)
  <2>1. i - 1 \in Nat
    OBVIOUS
  <2>2. d \in Nat
    BY <2>1, Products
  <2>3. q[i] = t
    BY DEF Requests
  <2> HIDE DEF d
  <2>4. a + d \in Nat /\ r \in Int /\ ~(r <= 0)
    BY <2>2
  <2>5. /\ t \in Seq(Byte)
        /\ Len(t) = IF r <= Len(s) - (a + d) THEN IF r <= 0 THEN 0 ELSE r
                    ELSE IF Len(s) <= a + d THEN 0 ELSE Len(s) - (a + d)
        /\ \A b \in 1 .. Len(t) : t[b] = s[(a + d) + b]
    BY <2>4, SliceType
  <2> HIDE DEF t
  <2>6. Brings(t, s, a, r, d)
    BY <2>4, <2>5 DEF Brings
  <2> QED BY <2>3, <2>6 DEF d
<1>2. \A i \in 1 .. c : q[i] \in Seq(Byte)
  BY <1>1 DEF Brings
<1> QED BY <1>0, <1>1, <1>2

\* The requests before the i-th have brought all there is up to it.
LEMMA ChunksBefore ==
    ASSUME NEW s \in Seq(Byte), NEW a \in Nat, NEW c \in Nat, NEW r \in Nat \ {0},
           NEW q, q = Requests(s, a, r, c),
           Lens(q) \in Seq(Nat), Len(Lens(q)) = c
    PROVE  \A i \in 1 .. c + 1 :
             Before(Lens(q), i) = IF (i - 1) * r <= Len(s) - a THEN (i - 1) * r
                                  ELSE IF Len(s) <= a THEN 0 ELSE Len(s) - a
<1> DEFINE l == Len(s)
           Right(i) == Before(Lens(q), i) = IF (i - 1) * r <= l - a THEN (i - 1) * r
                                            ELSE IF l <= a THEN 0 ELSE l - a
           Bad == {i \in 1 .. c + 1 : ~Right(i)}
<1> SUFFICES ASSUME Bad # {} PROVE FALSE
  OBVIOUS
<1>0. Bad \in SUBSET Nat /\ l \in Nat
  OBVIOUS
<1>1. PICK k \in Bad : \A j \in Bad : k <= j
  BY <1>0, Least
<1>2. k \in 1 .. c + 1 /\ ~Right(k)
  BY <1>1
<1>3. k # 1
  <2> SUFFICES ASSUME k = 1 PROVE FALSE
    OBVIOUS
  <2>1. Before(Lens(q), 1) = 0
    BY BeforeFirst
  <2>2. (1 - 1) * r = 0
    OBVIOUS
  <2>3. Right(1)
    BY <1>0, <2>1, <2>2
  <2> QED BY <1>2, <2>3
<1>4. k - 1 \in 1 .. c /\ k - 1 \in 1 .. c + 1 /\ (k - 1) + 1 = k
  BY <1>2, <1>3
<1>5. Right(k - 1)
  BY <1>1, <1>2, <1>4
<1> HIDE DEF Bad
<1>6. Before(Lens(q), (k - 1) + 1) = Before(Lens(q), k - 1) + Lens(q)[k - 1]
  BY <1>4, BeforeNext
<1> DEFINE x == ((k - 1) - 1) * r
           y == (k - 1) * r
           n == Len(q[k - 1])
           b == Before(Lens(q), k - 1)
           e == Before(Lens(q), k)
<1>7. x \in Nat /\ y = x + r
  <2>1. (k - 1) - 1 \in Nat /\ k - 1 \in Nat /\ k - 1 = ((k - 1) - 1) + 1
    BY <1>4
  <2> QED BY <2>1, Products
<1>8. n = IF r <= l - (a + x) THEN r ELSE IF l <= a + x THEN 0 ELSE l - (a + x)
  <2>1. Brings(q[k - 1], s, a, r, x)
    BY <1>4, ChunkLens
  <2> QED BY <2>1 DEF Brings
<1>9. e = b + n
  BY <1>4, <1>6 DEF Lens
<1>10. b = IF x <= l - a THEN x ELSE IF l <= a THEN 0 ELSE l - a
  BY <1>5
<1>11. ~(e = IF y <= l - a THEN y ELSE IF l <= a THEN 0 ELSE l - a)
  BY <1>2
<1> HIDE DEF x, y, n, b, e, l
<1> QED BY <1>0, <1>7, <1>8, <1>9, <1>10, <1>11

LEMMA ChunksJoin ==
    ASSUME NEW s \in Seq(Byte), NEW a \in Nat, NEW c \in Nat, NEW r \in Nat \ {0},
           NEW q, q = Requests(s, a, r, c)
    PROVE  Joined(q) = Slice(s, a, c * r)
<1> DEFINE l == Len(s)
           t == Lens(q)
           w == Slice(s, a, c * r)
<1>0. l \in Nat /\ c * r \in Nat /\ c * r \in Int
  BY Products
<1>1. DOMAIN q = 1 .. c /\ \A i \in 1 .. c : q[i] \in Seq(Byte)
  BY ChunkLens
<1>2. /\ t \in Seq(Nat) /\ Len(t) = c
      /\ Joined(q) \in Seq(Byte) /\ Len(Joined(q)) = SizeOf(t)
      /\ \A i \in 1 .. c : \A b \in 1 .. Len(q[i]) : Joined(q)[Before(t, i) + b] = q[i][b]
  <2> HIDE DEF t
  <2>1. /\ Lens(q) \in Seq(Nat) /\ Len(Lens(q)) = c
        /\ Joined(q) \in Seq(Byte) /\ Len(Joined(q)) = SizeOf(Lens(q))
        /\ \A i \in 1 .. c : \A b \in 1 .. Len(q[i]) :
             /\ Before(Lens(q), i) + b \in 1 .. SizeOf(Lens(q))
             /\ Joined(q)[Before(Lens(q), i) + b] = q[i][b]
    BY <1>1, JoinedFacts
  <2> QED BY <2>1 DEF t
<1>3. \A i \in 1 .. c + 1 :
        Before(t, i) = IF (i - 1) * r <= l - a THEN (i - 1) * r
                       ELSE IF l <= a THEN 0 ELSE l - a
  BY <1>2, ChunksBefore
<1>4. SizeOf(t) = IF c * r <= l - a THEN c * r ELSE IF l <= a THEN 0 ELSE l - a
  <2>1. c + 1 \in 1 .. c + 1 /\ (c + 1) - 1 = c
    OBVIOUS
  <2> QED BY <1>2, <1>3, <2>1 DEF SizeOf
<1>5. /\ w \in Seq(Byte)
      /\ Len(w) = IF c * r <= l - a THEN IF c * r <= 0 THEN 0 ELSE c * r
                  ELSE IF l <= a THEN 0 ELSE l - a
      /\ \A i \in 1 .. Len(w) : w[i] = s[a + i]
  BY <1>0, SliceType
<1>6. Len(w) = SizeOf(t)
  <2> DEFINE d == c * r
             n == Len(w)
             m == SizeOf(t)
  <2>1. d \in Nat
    BY <1>0
  <2>2. n = IF d <= l - a THEN IF d <= 0 THEN 0 ELSE d ELSE IF l <= a THEN 0 ELSE l - a
    BY <1>5
  <2>3. m = IF d <= l - a THEN d ELSE IF l <= a THEN 0 ELSE l - a
    BY <1>4
  <2> HIDE DEF d, n, m, l
  <2>4. n = m
    BY <1>0, <2>1, <2>2, <2>3
  <2> QED BY <2>4 DEF n, m
<1> HIDE DEF w
<1>7. ASSUME NEW p \in 1 .. Len(w) PROVE Joined(q)[p] = w[p]
  <2>0. p \in Nat /\ p - 1 \in Nat /\ p - 1 < SizeOf(t)
    BY <1>5, <1>6
  <2>1. PICK i \in 1 .. Len(t) : Before(t, i) <= p - 1 /\ p - 1 < Before(t, i) + t[i]
    BY <1>2, <2>0, Located
  <2>2. i \in 1 .. c /\ i \in 1 .. c + 1 /\ t[i] = Len(q[i])
    BY <1>1, <1>2, <2>1 DEF Lens
  <2> DEFINE x == (i - 1) * r
             y == Before(t, i)
             n == Len(q[i])
  <2>3. Brings(q[i], s, a, r, x)
    BY <2>2, ChunkLens
  <2>4. y = IF x <= l - a THEN x ELSE IF l <= a THEN 0 ELSE l - a
    BY <1>3, <2>2
  <2>5. x \in Nat
    <3>1. i - 1 \in Nat
      BY <2>2
    <3> QED BY <3>1, Products
  <2>6. y <= p - 1 /\ p - 1 < y + n
    BY <2>1, <2>2
  <2>7. \A b \in 1 .. n : Joined(q)[y + b] = q[i][b]
    BY <1>2, <2>2
  <2> HIDE DEF x, y, n, l
  <2>8. x = y /\ p - y \in 1 .. n
    <3>1. n = IF r <= l - (a + x) THEN r ELSE IF l <= a + x THEN 0 ELSE l - (a + x)
      BY <2>3 DEF Brings, l, n
    <3>2. l \in Nat /\ x \in Nat /\ a \in Nat /\ r \in Nat /\ r # 0
      BY <1>0, <2>5
    <3>3. n > 0
      BY <2>0, <2>4, <2>6, <3>1, <3>2
    <3>4. x < l - a
      BY <3>1, <3>2, <3>3
    <3>5. x = y
      BY <2>4, <3>2, <3>4
    <3> QED BY <2>0, <2>6, <3>1, <3>2, <3>5
  <2>9. Joined(q)[y + (p - y)] = s[(a + x) + (p - y)]
    <3>1. \A b \in 1 .. n : q[i][b] = s[(a + x) + b]
      BY <2>3 DEF Brings, n
    <3> QED BY <2>7, <2>8, <3>1
  <2>10. y + (p - y) = p /\ (a + x) + (p - y) = a + p
    BY <2>0, <2>5, <2>8
  <2> QED BY <1>5, <2>9, <2>10
<1>8. Joined(q) = w
  BY <1>2, <1>5, <1>6, <1>7, SameBytes
<1> QED BY <1>8 DEF w

LEMMA Division ==
    ASSUME NEW x \in Nat, NEW r \in Nat \ {0}
    PROVE  /\ x \div r \in Nat /\ x % r \in Nat /\ x % r < r
           /\ r * (x \div r) \in Nat /\ x = r * (x \div r) + (x % r)
<1>1. x \div r \in Nat /\ x % r \in Nat /\ x % r < r /\ x = r * (x \div r) + (x % r)
  OBVIOUS
<1> QED BY <1>1, Products

LEMMA Remainder ==
    ASSUME NEW x \in Nat, NEW r \in Nat \ {0}
    PROVE  x % r \in Nat /\ x % r <= x
<1> DEFINE y == r * (x \div r)
           z == x % r
<1>1. y \in Nat /\ z \in Nat /\ x = y + z
  BY Division
<1> HIDE DEF y, z
<1>2. z <= x
  BY <1>1
<1> QED BY <1>1, <1>2 DEF z

\* Enough requests are made.
LEMMA EnoughRequests ==
    ASSUME NEW k \in Nat, NEW r \in Nat \ {0}
    PROVE  (k + r - 1) \div r \in Nat /\ ((k + r - 1) \div r) * r >= k
<1> DEFINE x == k + r - 1
           d == x \div r
           m == x % r
<1>1. x \in Nat
  OBVIOUS
<1> HIDE DEF x
<1>2. d \in Nat /\ m \in Nat /\ m < r /\ x = r * d + m
  BY <1>1, Division
<1> HIDE DEF d, m
<1>3. d * r = r * d /\ r * d \in Nat
  BY <1>2
<1>4. d \in Nat /\ d * r >= k
  BY <1>2, <1>3 DEF x
<1> QED BY <1>4 DEF d, x

LEMMA AssumedFacts ==
    /\ Recorded \in Seq(Nat) /\ Len(Recorded) \in Nat
    /\ Actual \in Seq(Nat) /\ Len(Actual) = Len(Recorded)
    /\ \A i \in Messages : Actual[i] \in Nat /\ Recorded[i] \in Nat /\ Actual[i] <= Recorded[i]
    /\ \A i \in Messages : i # Len(Recorded) => Actual[i] = Recorded[i]
    /\ ALIGN \in Nat \ {0} /\ REQUEST_SIZE \in Nat \ {0}
    /\ BLOCK_SIZE \in Nat \ {0} /\ BLOCKS_CACHED \in Nat \ {0}
    /\ AlienSize \in Nat /\ MaxExpiries \in Nat
    /\ Heads \subseteq Nat /\ Offsets \subseteq Nat /\ Wants \subseteq Nat
    /\ Window.start \in Nat /\ Window.size \in Nat
<1>1. Recorded \in Seq(Nat) /\ Actual \in [1 .. Len(Recorded) -> Nat]
  BY RemoteFileAssumption DEF Messages
<1>2. Len(Recorded) \in Nat
  BY <1>1
<1> DEFINE N == Len(Recorded)
<1> HIDE DEF N
<1>3. \A f \in [1 .. N -> Nat] : N \in Nat => f \in Seq(Nat) /\ Len(f) = N
  OBVIOUS
<1>4. Actual \in Seq(Nat) /\ Len(Actual) = Len(Recorded)
  BY <1>1, <1>2, <1>3 DEF N
<1>5. /\ ALIGN \in Nat \ {0} /\ REQUEST_SIZE \in Nat \ {0}
      /\ BLOCK_SIZE \in Nat \ {0} /\ BLOCKS_CACHED \in Nat \ {0}
      /\ AlienSize \in Nat /\ MaxExpiries \in Nat
      /\ Heads \subseteq Nat /\ Offsets \subseteq Nat /\ Wants \subseteq Nat
      /\ Window.start \in Nat /\ Window.size \in Nat
  BY RemoteFileAssumption
<1>6. \A i \in Messages : Actual[i] \in Nat /\ Recorded[i] \in Nat /\ Actual[i] <= Recorded[i]
  BY <1>1, <1>2, RemoteFileAssumption DEF Messages
<1>7. \A i \in Messages : i # Len(Recorded) => Actual[i] = Recorded[i]
  BY RemoteFileAssumption
<1> QED BY <1>1, <1>2, <1>4, <1>5, <1>6, <1>7

LEMMA DocReadFacts ==
    ASSUME NEW m, Media(m) \in Seq(Byte), NEW offset \in Nat, NEW length \in Nat
    PROVE  DocRead(m, offset, length) = Slice(Media(m), offset, length)
<1> DEFINE skip == offset - (offset - (offset % ALIGN))
           aligned == offset - (offset % ALIGN)
           k == skip + length
           c == (k + REQUEST_SIZE - 1) \div REQUEST_SIZE
           q == Requests(Media(m), aligned, REQUEST_SIZE, c)
<1>1. ALIGN \in Nat \ {0} /\ REQUEST_SIZE \in Nat \ {0}
  BY AssumedFacts
<1>2. offset % ALIGN \in Nat /\ offset % ALIGN <= offset
  BY <1>1, Remainder
<1>3. aligned \in Nat /\ skip \in Nat /\ aligned + skip = offset /\ k \in Nat
  BY <1>2
<1>4. DocRead(m, offset, length) = Slice(Joined(q), skip, length)
  BY DEF DocRead, Requests
<1> HIDE DEF aligned, skip
<1>5. c \in Nat /\ c * REQUEST_SIZE >= k /\ c * REQUEST_SIZE \in Nat
  <2> HIDE DEF k
  <2>1. c \in Nat /\ c * REQUEST_SIZE >= k
    BY <1>1, <1>3, EnoughRequests
  <2> QED BY <1>1, <2>1
<1> HIDE DEF c
<1>6. Joined(q) = Slice(Media(m), aligned, c * REQUEST_SIZE)
  BY <1>1, <1>3, <1>5, ChunksJoin
<1> HIDE DEF q
<1>7. length \in Int /\ skip + length <= c * REQUEST_SIZE
  BY <1>5
<1> DEFINE z == c * REQUEST_SIZE
           M == Media(m)
<1> HIDE DEF z, M
<1>8. Slice(Slice(M, aligned, z), skip, length) = Slice(M, aligned + skip, length)
  <2>1. z \in Nat /\ skip + length <= z /\ M \in Seq(Byte)
    BY <1>5, <1>7 DEF z, M
  <2> QED BY <1>3, <1>7, <2>1, SliceOfSlice
<1> QED BY <1>3, <1>4, <1>6, <1>8 DEF z, M

-----------------------------------------------------------------------------
(* The file, its messages and its part table *)

LEMMA FileFacts ==
    /\ File \in Seq(Byte) /\ Len(File) = SizeOf(Actual) /\ Len(File) \in Nat
    /\ \A m \in Messages : \A b \in 1 .. Actual[m] :
         /\ Before(Actual, m) + b \in 1 .. Len(File)
         /\ File[Before(Actual, m) + b] = <<m, b>>
<1> DEFINE N == Len(Recorded)
           q == [m \in 1 .. N |-> [i \in 1 .. Actual[m] |-> <<m, i>>]]
<1>1. /\ N \in Nat /\ Actual \in Seq(Nat) /\ Len(Actual) = N
      /\ \A m \in 1 .. N : Actual[m] \in Nat
  BY AssumedFacts DEF Messages
<1>2. File = Joined(q)
  BY DEF File, Messages
<1>3. ASSUME NEW m \in 1 .. N
      PROVE  q[m] \in Seq(Byte) /\ Len(q[m]) = Actual[m] /\ \A b \in 1 .. Actual[m] : q[m][b] = <<m, b>>
  <2> DEFINE n == Actual[m]
             t == [i \in 1 .. n |-> <<m, i>>]
  <2>1. n \in Nat /\ m \in Int /\ q[m] = t
    BY <1>1, <1>3
  <2> HIDE DEF n
  <2>2. \A i \in 1 .. n : <<m, i>> \in Byte
    BY <2>1 DEF Byte
  <2>3. t \in Seq(Byte) /\ Len(t) = n
    BY <2>1, <2>2
  <2>4. \A b \in 1 .. n : t[b] = <<m, b>>
    OBVIOUS
  <2> QED BY <2>1, <2>3, <2>4 DEF n
<1>4. DOMAIN q = 1 .. N
  OBVIOUS
<1> HIDE DEF q, N
<1>5. /\ Joined(q) \in Seq(Byte) /\ Len(Joined(q)) = SizeOf(Lens(q))
      /\ Lens(q) \in Seq(Nat) /\ Len(Lens(q)) = N
      /\ \A i \in 1 .. N : \A b \in 1 .. Len(q[i]) :
           /\ Before(Lens(q), i) + b \in 1 .. SizeOf(Lens(q))
           /\ Joined(q)[Before(Lens(q), i) + b] = q[i][b]
  BY <1>1, <1>3, <1>4, JoinedFacts
<1>6. Lens(q) = Actual
  <2>1. \A i \in 1 .. N : Lens(q)[i] = Actual[i]
    BY <1>3, <1>4 DEF Lens
  <2> QED BY <1>1, <1>5, <2>1
<1>7. Messages = 1 .. N
  BY DEF Messages, N
<1>8. \A m \in 1 .. N : \A b \in 1 .. Actual[m] :
        /\ Before(Actual, m) + b \in 1 .. SizeOf(Actual)
        /\ Joined(q)[Before(Actual, m) + b] = <<m, b>>
  <2> SUFFICES ASSUME NEW m \in 1 .. N, NEW b \in 1 .. Actual[m]
               PROVE  /\ Before(Actual, m) + b \in 1 .. SizeOf(Actual)
                      /\ Joined(q)[Before(Actual, m) + b] = <<m, b>>
    OBVIOUS
  <2>1. q[m][b] = <<m, b>> /\ b \in 1 .. Len(q[m])
    BY <1>3
  <2>2. /\ Before(Lens(q), m) + b \in 1 .. SizeOf(Lens(q))
        /\ Joined(q)[Before(Lens(q), m) + b] = q[m][b]
    BY <1>5, <2>1
  <2> QED BY <1>6, <2>1, <2>2
<1>9. Len(Joined(q)) = SizeOf(Actual) /\ Joined(q) \in Seq(Byte)
  BY <1>5, <1>6
<1>10. Len(Joined(q)) \in Nat
  BY <1>9
<1> QED BY <1>2, <1>7, <1>8, <1>9, <1>10

AlienType == alien \in {{}, {Len(Recorded)}}

LEMMA MediaFacts ==
    ASSUME AlienType, NEW m \in Messages
    PROVE  /\ Media(m) \in Seq(Byte) /\ Len(Media(m)) \in Nat
           /\ m \notin alien => /\ Len(Media(m)) = Actual[m]
                                /\ \A b \in 1 .. Actual[m] : Media(m)[b] = <<m, b>>
<1> DEFINE n == MediaSize(m)
           x == IF m \in alien THEN -m ELSE m
           t == [i \in 1 .. n |-> <<x, i>>]
<1>1. n \in Nat /\ (m \notin alien => n = Actual[m])
  BY AssumedFacts DEF MediaSize
<1>2. m \in Int /\ x \in Int
  BY AssumedFacts DEF Messages
<1>3. Media(m) = t
  BY DEF Media
<1> HIDE DEF n, x
<1>4. \A i \in 1 .. n : <<x, i>> \in Byte
  BY <1>1, <1>2 DEF Byte
<1>5. t \in Seq(Byte) /\ Len(t) = n
  BY <1>1, <1>4
<1>6. m \notin alien => \A b \in 1 .. n : t[b] = <<m, b>>
  BY DEF x
<1> QED BY <1>1, <1>3, <1>5, <1>6

\* s is what the table of a reader is made of.
TableOK(s) ==
  /\ s \in Seq(Nat) /\ Len(s) <= Len(Recorded) /\ Len(File) <= SizeOf(s)
  /\ \A i \in 1 .. Len(s) :
       /\ s[i] <= Recorded[i] /\ Before(s, i) = Before(Actual, i)
       /\ i = Len(Recorded) => s[i] \in {Recorded[i], Actual[i]}

\* All but the last message are as they were registered.
LEMMA BeforeAgrees ==
    ASSUME NEW i \in Messages
    PROVE  Before(Recorded, i) = Before(Actual, i)
<1>1. ASSUME NEW j \in 1 .. i - 1 PROVE Recorded[j] = Actual[j]
  <2>1. j \in Messages /\ j # Len(Recorded)
    BY AssumedFacts DEF Messages
  <2> QED BY <2>1, AssumedFacts
<1> QED BY <1>1, BeforeSame

LEMMA WholeTable == TableOK(Recorded)
<1>1. Recorded \in Seq(Nat) /\ Actual \in Seq(Nat) /\ Len(Actual) = Len(Recorded) /\ Len(Recorded) \in Nat
  BY AssumedFacts
<1>2. \A i \in 1 .. Len(Recorded) : Recorded[i] <= Recorded[i] /\ Before(Recorded, i) = Before(Actual, i)
  BY BeforeAgrees, AssumedFacts DEF Messages
<1>3. Len(File) <= SizeOf(Recorded)
  <2> DEFINE N == Len(Recorded)
  <2>1. CASE N = 0
    <3>1. Len(Actual) + 1 = 1 /\ Len(Recorded) + 1 = 1
      BY <1>1, <2>1
    <3>2. SizeOf(Actual) = Before(Actual, 1) /\ SizeOf(Recorded) = Before(Recorded, 1)
      BY <3>1 DEF SizeOf
    <3>3. SizeOf(Actual) = 0 /\ SizeOf(Recorded) = 0
      BY <1>1, <3>2, BeforeFirst
    <3> QED BY <3>3, FileFacts
  <2>2. CASE N # 0
    <3>1. N \in 1 .. N /\ N \in 1 .. N + 1 /\ N \in Messages
      BY <1>1, <2>2 DEF Messages
    <3>2. Before(Actual, N + 1) = Before(Actual, N) + Actual[N]
      BY <1>1, <3>1, BeforeNext
    <3>3. Before(Recorded, N + 1) = Before(Recorded, N) + Recorded[N]
      BY <1>1, <3>1, BeforeNext
    <3>4. Before(Actual, N) \in Nat /\ Actual[N] \in Nat /\ Recorded[N] \in Nat /\ Actual[N] <= Recorded[N]
      BY <1>1, <3>1, BeforeType, AssumedFacts
    <3>5. Before(Actual, N) = Before(Recorded, N)
      BY <3>1, BeforeAgrees
    <3>6. SizeOf(Actual) <= SizeOf(Recorded)
      BY <1>1, <3>2, <3>3, <3>4, <3>5 DEF SizeOf
    <3> QED BY <3>6, FileFacts
  <2> QED BY <2>1, <2>2
<1> QED BY <1>1, <1>2, <1>3 DEF TableOK

LEMMA ClippedTable == TableOK(Clip(Recorded, SizeOf(Actual)))
<1> DEFINE N == Len(Recorded)
           r == SizeOf(Actual)
           kept == {i \in DOMAIN Recorded : Before(Recorded, i) < r}
           Past == {i \in 1 .. N + 1 : i \notin kept}
           s == Clip(Recorded, r)
<1>1. Recorded \in Seq(Nat) /\ Actual \in Seq(Nat) /\ Len(Actual) = N /\ N \in Nat
  BY AssumedFacts
<1>2. r \in Nat /\ r = Before(Actual, N + 1)
  BY <1>1, FileFacts DEF SizeOf
<1>3. DOMAIN Recorded = 1 .. N
  BY <1>1
<1>4. N + 1 \in Past /\ Past \in SUBSET Nat
  BY <1>1, <1>3
<1>5. PICK j \in Past : \A i \in Past : j <= i
  BY <1>4, Least
<1>6. j \in 1 .. N + 1 /\ j \notin kept /\ \A i \in 1 .. N + 1 : i < j => i \in kept
  BY <1>1, <1>5
<1>7. kept = 1 .. j - 1
  <2>1. \A i \in kept : i \in 1 .. N
    BY <1>3
  <2>2. ASSUME NEW i \in kept, j <= i PROVE FALSE
    <3>1. i \in 1 .. N /\ j \in 1 .. N /\ i \in 1 .. N + 1
      BY <1>1, <1>6, <2>1, <2>2
    <3>2. Before(Recorded, i) < r /\ ~(Before(Recorded, j) < r)
      BY <1>3, <1>6, <3>1
    <3>3. Before(Recorded, j) <= Before(Recorded, i)
      BY <1>1, <1>6, <2>2, <3>1, BeforeGrows
    <3>4. Before(Recorded, j) \in Nat /\ Before(Recorded, i) \in Nat
      BY <1>1, <1>6, <3>1, BeforeType
    <3> QED BY <1>2, <3>2, <3>3, <3>4
  <2> HIDE DEF kept
  <2>3. \A i : i \in kept => i \in 1 .. j - 1
    BY <1>6, <2>1, <2>2
  <2>4. \A i \in 1 .. j - 1 : i \in kept
    BY <1>6
  <2> QED BY <2>3, <2>4
<1>8. Cardinality(kept) = j - 1
  <2>1. j - 1 \in Nat
    BY <1>6
  <2> HIDE DEF kept
  <2> QED BY <1>7, <2>1, FS_Interval
<1>9. r # Unknown
  BY <1>2 DEF Unknown
<1>10. s = [i \in 1 .. j - 1 |-> Min({Recorded[i], r - Before(Recorded, i)})]
  BY <1>8, <1>9 DEF Clip
<1>11. ASSUME NEW i \in 1 .. j - 1
       PROVE  Min({Recorded[i], r - Before(Recorded, i)}) = Actual[i]
  <2>1. i \in 1 .. N /\ i \in 1 .. N + 1 /\ i + 1 \in 1 .. N + 1 /\ N + 1 \in 1 .. N + 1 /\ i + 1 <= N + 1
    BY <1>1, <1>6
  <2>2. Before(Actual, i + 1) = Before(Actual, i) + Actual[i]
    BY <1>1, <2>1, BeforeNext
  <2>3. Before(Actual, i + 1) <= r
    BY <1>1, <1>2, <2>1, BeforeGrows
  <2>4. Before(Recorded, i) = Before(Actual, i)
    BY <2>1, BeforeAgrees DEF Messages
  <2>5. Before(Actual, i) \in Nat /\ Actual[i] \in Nat /\ Recorded[i] \in Nat /\ Actual[i] <= Recorded[i]
    BY <1>1, <2>1, BeforeType, AssumedFacts DEF Messages
  <2>6. i = N => r = Before(Actual, i) + Actual[i]
    BY <1>2, <2>2
  <2>7. i # N => Recorded[i] = Actual[i]
    BY <2>1, AssumedFacts DEF Messages
  <2> DEFINE d == r - Before(Recorded, i)
  <2>8. d \in Int /\ d >= Actual[i] /\ (i = N => d = Actual[i])
    BY <1>2, <2>2, <2>3, <2>4, <2>5, <2>6
  <2> HIDE DEF d
  <2>9. Min({Recorded[i], d}) = IF Recorded[i] <= d THEN Recorded[i] ELSE d
    BY <2>5, <2>8, MinTwo
  <2> QED BY <2>5, <2>7, <2>8, <2>9 DEF d
<1>12. s = [i \in 1 .. j - 1 |-> Actual[i]]
  BY <1>10, <1>11
<1>13. \A i \in 1 .. j - 1 : Actual[i] \in Nat /\ i \in Messages /\ i \in 1 .. N
  BY <1>1, <1>6, AssumedFacts DEF Messages
<1>j. j - 1 \in Nat
  BY <1>6
<1> HIDE DEF s, kept, Past, N, r
<1>14. s \in Seq(Nat) /\ Len(s) = j - 1 /\ \A i \in 1 .. j - 1 : s[i] = Actual[i]
  BY <1>12, <1>13, <1>j
<1>15. ASSUME NEW i \in 1 .. Len(s)
       PROVE  /\ s[i] <= Recorded[i] /\ Before(s, i) = Before(Actual, i)
              /\ i = N => s[i] \in {Recorded[i], Actual[i]}
  <2>1. i \in 1 .. j - 1 /\ s[i] = Actual[i] /\ i \in Messages
    BY <1>13, <1>14
  <2>2. \A k \in 1 .. i - 1 : s[k] = Actual[k]
    BY <1>14, <2>1
  <2>3. Before(s, i) = Before(Actual, i)
    BY <2>2, BeforeSame
  <2> QED BY <2>1, <2>3, AssumedFacts
<1>16. r <= SizeOf(s)
  <2>1. SizeOf(s) = Before(s, j)
    BY <1>6, <1>14 DEF SizeOf
  <2>2. \A k \in 1 .. j - 1 : s[k] = Actual[k]
    BY <1>14
  <2>3. Before(s, j) = Before(Actual, j)
    BY <2>2, BeforeSame
  <2>4. CASE j = N + 1
    BY <1>2, <2>1, <2>3, <2>4
  <2>5. CASE j # N + 1
    <3>1. j \in 1 .. N /\ j \in Messages /\ j \in 1 .. N + 1
      BY <1>1, <1>6, <2>5 DEF Messages, N
    <3>2. ~(Before(Recorded, j) < r)
      BY <1>3, <1>6, <3>1 DEF kept
    <3>3. Before(Recorded, j) = Before(Actual, j)
      BY <3>1, BeforeAgrees
    <3>4. Before(Actual, j) \in Nat
      BY <1>1, <3>1, BeforeType
    <3> QED BY <1>2, <2>1, <2>3, <3>2, <3>3, <3>4
  <2> QED BY <2>4, <2>5
<1>17. Len(s) <= N /\ Len(File) <= SizeOf(s)
  BY <1>1, <1>6, <1>14, <1>16, FileFacts DEF r
<1> QED BY <1>14, <1>15, <1>17 DEF TableOK, s, N, r

RealType == real \in {SizeOf(Actual), Unknown}

LEMMA SizesFacts ==
    ASSUME RealType
    PROVE  TableOK(Sizes) /\ Total = SizeOf(Sizes) /\ Total \in Nat /\ Len(File) <= Total
<1>1. TableOK(Sizes)
  <2>1. CASE real = Unknown
    BY <2>1, WholeTable DEF Sizes, Clip
  <2>2. CASE real = SizeOf(Actual)
    BY <2>2, ClippedTable DEF Sizes
  <2> QED BY <2>1, <2>2 DEF RealType
<1>2. Sizes \in Seq(Nat) /\ Len(Sizes) + 1 \in 1 .. Len(Sizes) + 1
  BY <1>1 DEF TableOK
<1>3. SizeOf(Sizes) \in Nat
  BY <1>2, BeforeType DEF SizeOf
<1> QED BY <1>1, <1>3 DEF Total, TableOK

\* A piece of the right message is the bytes of the file that it stands for.
LEMMA PieceBytes ==
    ASSUME AlienType, NEW m \in Messages, m \notin alien,
           NEW inner \in Nat, NEW n \in Nat, inner + n <= Recorded[m]
    PROVE  Slice(Media(m), inner, n) = FileSlice(Before(Actual, m) + inner, n)
<1> DEFINE M == Media(m)
           b == Before(Actual, m)
           x == Slice(M, inner, n)
           y == Slice(File, b + inner, n)
           N == Len(Recorded)
           l == Len(File)
           k == Actual[m]
<1>1. M \in Seq(Byte) /\ Len(M) = k /\ \A i \in 1 .. k : M[i] = <<m, i>>
  BY MediaFacts
<1>2. File \in Seq(Byte) /\ l \in Nat /\ \A i \in 1 .. k : File[b + i] = <<m, i>>
  BY FileFacts
<1>3. /\ N \in Nat /\ m \in 1 .. N /\ k \in Nat /\ Actual \in Seq(Nat) /\ Len(Actual) = N
      /\ (m # N => k = Recorded[m])
  BY AssumedFacts DEF Messages
<1>4. m \in 1 .. N + 1 /\ m + 1 \in 1 .. N + 1 /\ N + 1 \in 1 .. N + 1 /\ m + 1 <= N + 1
  BY <1>3
<1>5. b \in Nat
  BY <1>3, <1>4, BeforeType
<1>6. Before(Actual, m + 1) = b + k
  BY <1>3, BeforeNext
<1>7. Before(Actual, m + 1) <= l /\ (m = N => Before(Actual, m + 1) = l)
  BY <1>3, <1>4, BeforeGrows, FileFacts DEF SizeOf
<1> HIDE DEF M, b, N, l, k
<1>8. /\ x \in Seq(Byte)
      /\ Len(x) = IF n <= k - inner THEN IF n <= 0 THEN 0 ELSE n
                  ELSE IF k <= inner THEN 0 ELSE k - inner
      /\ \A i \in 1 .. Len(x) : inner + i \in 1 .. k /\ x[i] = M[inner + i]
  <2>1. n \in Int
    OBVIOUS
  <2> QED BY <1>1, <2>1, SliceType
<1>9. /\ y \in Seq(Byte)
      /\ Len(y) = IF n <= l - (b + inner) THEN IF n <= 0 THEN 0 ELSE n
                  ELSE IF l <= b + inner THEN 0 ELSE l - (b + inner)
      /\ \A i \in 1 .. Len(y) : y[i] = File[(b + inner) + i]
  <2>1. n \in Int /\ b + inner \in Nat
    BY <1>5
  <2>2. /\ y \in Seq(Byte)
        /\ Len(y) = IF n <= Len(File) - (b + inner) THEN IF n <= 0 THEN 0 ELSE n
                    ELSE IF Len(File) <= b + inner THEN 0 ELSE Len(File) - (b + inner)
        /\ \A i \in 1 .. Len(y) : y[i] = File[(b + inner) + i]
    BY <1>2, <2>1, SliceType
  <2> QED BY <2>2 DEF l
<1> HIDE DEF x, y
<1>10. m # N => inner + n <= k
  BY <1>3
<1>11. Len(x) = Len(y)
  <2>1. CASE m = N
    BY <1>2, <1>3, <1>5, <1>6, <1>7, <1>8, <1>9, <2>1
  <2>2. CASE m # N
    BY <1>2, <1>3, <1>5, <1>6, <1>7, <1>8, <1>9, <1>10, <2>2
  <2> QED BY <2>1, <2>2
<1>12. ASSUME NEW i \in 1 .. Len(x) PROVE x[i] = y[i]
  <2>1. i \in Nat /\ inner + i \in 1 .. k /\ x[i] = <<m, inner + i>>
    BY <1>1, <1>8
  <2>2. y[i] = File[(b + inner) + i] /\ (b + inner) + i = b + (inner + i)
    BY <1>5, <1>9, <1>11, <2>1
  <2> QED BY <1>2, <2>1, <2>2
<1>13. x = y
  BY <1>8, <1>9, <1>11, <1>12, SameBytes
<1> QED BY <1>13 DEF x, y, M, b, FileSlice

-----------------------------------------------------------------------------
(* The pieces of a range *)

\* The parts that have a byte between lo and hi.
Touched(s, lo, hi) ==
  {m \in 1 .. Len(s) : s[m] > 0 /\ Before(s, m) + s[m] > lo /\ Before(s, m) < hi}

\* A place in a part lies before every later part.
LEMMA PartsApart ==
    ASSUME NEW s \in Seq(Nat), NEW i \in 1 .. Len(s), NEW j \in 1 .. Len(s), i < j
    PROVE  Before(s, i) + s[i] <= Before(s, j)
<1>1. i + 1 \in 1 .. Len(s) + 1 /\ j \in 1 .. Len(s) + 1 /\ i + 1 <= j
  OBVIOUS
<1> QED BY <1>1, BeforeNext, BeforeGrows

\* h lists the c members of H: they follow each other from lo to hi.
InSequence(s, lo, hi, H, h, c) ==
  /\ c \in Nat \ {0} /\ Len(h) = c /\ DOMAIN h = 1 .. c
  /\ \A i \in 1 .. c : h[i] \in H
  /\ Before(s, h[1]) <= lo
  /\ hi <= Before(s, h[c]) + s[h[c]]
  /\ \A i \in 1 .. c : i + 1 \in 1 .. c => Before(s, h[i + 1]) = Before(s, h[i]) + s[h[i]]

LEMMA TouchedFacts ==
    ASSUME NEW s \in Seq(Nat), NEW lo \in Nat, NEW hi \in Nat, lo < hi, hi <= SizeOf(s)
    PROVE  InSequence(s, lo, hi, Touched(s, lo, hi), InOrder(Touched(s, lo, hi)),
                   Cardinality(Touched(s, lo, hi)))
<1> DEFINE L == Len(s)
           H == Touched(s, lo, hi)
           h == InOrder(H)
           c == Cardinality(H)
<1>0. L \in Nat /\ \A m \in H : m \in 1 .. L
  BY DEF Touched
<1>4. \A m \in H : s[m] > 0 /\ Before(s, m) + s[m] > lo /\ Before(s, m) < hi
  BY DEF Touched
<1>h. \A m \in 1 .. L : s[m] > 0 /\ Before(s, m) + s[m] > lo /\ Before(s, m) < hi => m \in H
  BY DEF Touched
<1> HIDE DEF H
<1>a. H \in SUBSET (0 .. L)
  <2>1. \A m \in H : m \in 0 .. L
    BY <1>0
  <2> QED BY <2>1
<1>1. /\ c \in Nat /\ Len(h) = c /\ DOMAIN h = 1 .. c
      /\ \A i \in 1 .. c : h[i] \in H
      /\ \A x \in H : \E i \in 1 .. c : h[i] = x
  BY <1>0, <1>a, InOrderFacts
<1>2. \A i, j \in 1 .. c : (i < j => h[i] < h[j]) /\ (h[i] < h[j] => i < j)
  BY <1>0, <1>a, InOrderSteps
<1> HIDE DEF h, c
<1>3. \A m \in 1 .. L : Before(s, m) \in Nat /\ s[m] \in Nat
  <2>1. \A m \in 1 .. L : m \in 1 .. L + 1
    BY <1>0
  <2> QED BY <2>1, BeforeType
<1>5. ASSUME NEW p \in Nat, p < hi,
             NEW m \in 1 .. L, Before(s, m) <= p, p < Before(s, m) + s[m],
             Before(s, m) + s[m] > lo
      PROVE  m \in H
  <2>1. Before(s, m) \in Nat /\ s[m] \in Nat
    BY <1>3
  <2>2. s[m] > 0 /\ Before(s, m) < hi
    BY <1>5, <2>1
  <2> QED BY <1>5, <1>h, <2>2
<1>6. PICK f \in H : Before(s, f) <= lo
  <2>1. PICK m \in 1 .. L : Before(s, m) <= lo /\ lo < Before(s, m) + s[m]
    <3>1. SizeOf(s) \in Nat
      <4>1. L + 1 \in 1 .. Len(s) + 1
        BY <1>0
      <4> QED BY <4>1, BeforeType DEF SizeOf
    <3>2. lo < SizeOf(s)
      BY <3>1
    <3> QED BY <3>2, Located
  <2>2. m \in H
    BY <1>3, <1>5, <2>1
  <2> QED BY <2>1, <2>2
<1>7. PICK l \in H : hi <= Before(s, l) + s[l]
  <2>1. PICK m \in 1 .. L : Before(s, m) <= hi - 1 /\ hi - 1 < Before(s, m) + s[m]
    <3>1. SizeOf(s) \in Nat
      <4>1. L + 1 \in 1 .. Len(s) + 1
        BY <1>0
      <4> QED BY <4>1, BeforeType DEF SizeOf
    <3>2. hi - 1 < SizeOf(s) /\ hi - 1 \in Nat
      BY <3>1
    <3> QED BY <3>2, Located
  <2>2. hi - 1 \in Nat /\ hi - 1 < hi /\ Before(s, m) + s[m] > lo
    BY <1>3, <2>1
  <2>3. m \in H
    BY <1>5, <2>1, <2>2
  <2>4. hi <= Before(s, m) + s[m]
    BY <1>3, <2>1
  <2> QED BY <2>3, <2>4
<1>8. c # 0
  BY <1>1, <1>6
<1>9. 1 \in 1 .. c /\ c \in 1 .. c
  BY <1>1, <1>8
<1>10. Before(s, h[1]) <= lo
  <2>1. PICK i \in 1 .. c : h[i] = f
    BY <1>1, <1>6
  <2>2. CASE i = 1
    BY <1>6, <2>1, <2>2
  <2>3. CASE i # 1
    <3>1. h[1] < f
      BY <1>2, <1>9, <2>1, <2>3
    <3>2. Before(s, h[1]) + s[h[1]] <= Before(s, f)
      BY <1>0, <1>1, <1>6, <1>9, <3>1, PartsApart
    <3>3. h[1] \in 1 .. L /\ f \in 1 .. L
      BY <1>0, <1>1, <1>6, <1>9
    <3> QED BY <1>3, <1>6, <3>2, <3>3
  <2> QED BY <2>2, <2>3
<1>11. hi <= Before(s, h[c]) + s[h[c]]
  <2>1. PICK i \in 1 .. c : h[i] = l
    BY <1>1, <1>7
  <2>2. CASE i = c
    BY <1>7, <2>1, <2>2
  <2>3. CASE i # c
    <3>1. l < h[c]
      BY <1>1, <1>2, <1>9, <2>1, <2>3
    <3>2. Before(s, l) + s[l] <= Before(s, h[c])
      BY <1>0, <1>1, <1>7, <1>9, <3>1, PartsApart
    <3>3. h[c] \in 1 .. L /\ l \in 1 .. L
      BY <1>0, <1>1, <1>7, <1>9
    <3>4. /\ Before(s, h[c]) \in Nat /\ s[h[c]] \in Nat
          /\ Before(s, l) \in Nat /\ s[l] \in Nat
      BY <1>3, <3>3
    <3> QED BY <1>7, <3>2, <3>4
  <2> QED BY <2>2, <2>3
<1>12. ASSUME NEW i \in 1 .. c, i + 1 \in 1 .. c
       PROVE  Before(s, h[i + 1]) = Before(s, h[i]) + s[h[i]]
  <2> DEFINE m == h[i]
             n == h[i + 1]
  <2>1. m \in H /\ n \in H /\ m \in 1 .. L /\ n \in 1 .. L
    BY <1>0, <1>1, <1>12
  <2>2. i < i + 1
    OBVIOUS
  <2>3. m < n
    BY <1>2, <1>12, <2>2
  <2>4. \A k \in 1 .. c : ~(i < k /\ k < i + 1)
    OBVIOUS
  <2>4a. \A x \in H : ~(m < x /\ x < n)
    <3> SUFFICES ASSUME NEW x \in H, m < x, x < n PROVE FALSE
      OBVIOUS
    <3>1. PICK k \in 1 .. c : h[k] = x
      BY <1>1
    <3>2. i < k /\ k < i + 1
      BY <1>2, <1>12, <3>1
    <3> QED BY <2>4, <3>2
  <2> HIDE DEF m, n
  <2>5. Before(s, m) + s[m] <= Before(s, n)
    BY <2>1, <2>3, PartsApart
  <2>6. /\ Before(s, m) \in Nat /\ s[m] \in Nat /\ Before(s, n) \in Nat /\ s[n] \in Nat
        /\ Before(s, m) + s[m] > lo /\ Before(s, n) < hi
    BY <1>3, <1>4, <2>1
  <2>s. ~(Before(s, m) + s[m] < Before(s, n)) => Before(s, n) = Before(s, m) + s[m]
    BY <2>5, <2>6
  <2> SUFFICES ASSUME Before(s, m) + s[m] < Before(s, n) PROVE FALSE
    BY <2>s DEF m, n
  <2> DEFINE p == Before(s, n) - 1
  <2>7. p \in Nat /\ p < hi /\ p >= Before(s, m) + s[m] /\ p < Before(s, n)
    <3> DEFINE x == Before(s, m)
               y == s[m]
               z == Before(s, n)
    <3>1. x \in Nat /\ y \in Nat /\ z \in Nat /\ x + y < z /\ z < hi
      BY <2>6
    <3> HIDE DEF x, y, z
    <3>2. z - 1 \in Nat /\ z - 1 < hi /\ z - 1 >= x + y /\ z - 1 < z
      BY <3>1
    <3> QED BY <3>2 DEF x, y, z
  <2>8. PICK q \in 1 .. L : Before(s, q) <= p /\ p < Before(s, q) + s[q]
    <3>1. SizeOf(s) \in Nat
      <4>1. L + 1 \in 1 .. Len(s) + 1
        BY <1>0
      <4> QED BY <4>1, BeforeType DEF SizeOf
    <3>2. p < SizeOf(s)
      BY <2>7, <3>1
    <3> QED BY <2>7, <3>2, Located
  <2>9. Before(s, q) \in Nat /\ s[q] \in Nat
    BY <1>3, <2>8
  <2> HIDE DEF p
  <2>10. Before(s, q) + s[q] > lo
    <3> DEFINE b == Before(s, q)
               k == s[q]
               x == Before(s, m)
               y == s[m]
    <3>1. /\ b \in Nat /\ k \in Nat /\ x \in Nat /\ y \in Nat /\ p \in Nat
          /\ x + y > lo /\ p >= x + y /\ p < b + k
      BY <2>6, <2>7, <2>8, <2>9
    <3> HIDE DEF b, k, x, y
    <3>2. b + k > lo
      BY <3>1
    <3> QED BY <3>2 DEF b, k
  <2>11. q \in H
    BY <1>5, <2>7, <2>8, <2>10
  <2>12. ~(q <= m)
    <3> SUFFICES ASSUME q <= m PROVE FALSE
      OBVIOUS
    <3>1. CASE q = m
      BY <2>6, <2>7, <2>8, <3>1
    <3>2. CASE q # m
      <4>1. q < m
        BY <2>1, <2>8, <3>2
      <4>2. Before(s, q) + s[q] <= Before(s, m)
        BY <2>1, <2>8, <4>1, PartsApart
      <4> DEFINE b == Before(s, q)
                 k == s[q]
                 x == Before(s, m)
                 y == s[m]
      <4>3. /\ b \in Nat /\ k \in Nat /\ x \in Nat /\ y \in Nat /\ p \in Nat
            /\ b + k <= x /\ p >= x + y /\ p < b + k
        BY <2>6, <2>7, <2>8, <2>9, <4>2
      <4> HIDE DEF b, k, x, y
      <4> QED BY <4>3
    <3> QED BY <3>1, <3>2
  <2>13. ~(n <= q)
    <3> SUFFICES ASSUME n <= q PROVE FALSE
      OBVIOUS
    <3>1. CASE q = n
      BY <2>6, <2>7, <2>8, <3>1
    <3>2. CASE q # n
      <4>1. n < q
        BY <2>1, <2>8, <3>2
      <4>2. Before(s, n) + s[n] <= Before(s, q)
        BY <2>1, <2>8, <4>1, PartsApart
      <4> QED BY <2>6, <2>7, <2>8, <2>9, <4>2
    <3> QED BY <3>1, <3>2
  <2>14. m < q /\ q < n
    BY <2>1, <2>8, <2>12, <2>13
  <2> QED BY <2>4a, <2>11, <2>14
<1>13. InSequence(s, lo, hi, H, h, c)
  BY <1>1, <1>8, <1>10, <1>11, <1>12 DEF InSequence
<1> QED BY <1>13 DEF H, h, c

PieceType == [message : Messages, inner : Nat, n : Nat]
At(p) == Before(Actual, p.message) + p.inner
PieceOK(p, T) ==
  p \in PieceType /\ p.message \in DOMAIN T /\ p.inner + p.n <= Recorded[p.message]

\* The pieces ps are the bytes from x up to y, in order.
Chain(ps, x, y, T) ==
  /\ ps \in Seq(PieceType) /\ ps # <<>>
  /\ \A i \in 1 .. Len(ps) : PieceOK(ps[i], T)
  /\ At(ps[1]) = x
  /\ \A i \in 1 .. Len(ps) : i + 1 \in 1 .. Len(ps) => At(ps[i + 1]) = At(ps[i]) + ps[i].n
  /\ At(ps[Len(ps)]) + ps[Len(ps)].n = y

LEMMA TableFacts ==
    ASSUME RealType
    PROVE  /\ Sizes \in Seq(Nat) /\ Len(Sizes) \in Nat /\ Len(Sizes) <= Len(Recorded)
           /\ DOMAIN Table = {m \in 1 .. Len(Sizes) : Sizes[m] > 0}
           /\ \A m \in DOMAIN Table :
                /\ m \in Messages /\ m \in 1 .. Len(Sizes)
                /\ Table[m].start = Before(Sizes, m) /\ Table[m].size = Sizes[m]
                /\ Before(Sizes, m) = Before(Actual, m) /\ Before(Sizes, m) \in Nat
                /\ Sizes[m] \in Nat /\ Sizes[m] <= Recorded[m]
                /\ m = Len(Recorded) => Sizes[m] \in {Recorded[m], Actual[m]}
<1>1. TableOK(Sizes)
  BY SizesFacts
<1>2. /\ Sizes \in Seq(Nat) /\ Len(Sizes) <= Len(Recorded)
      /\ \A i \in 1 .. Len(Sizes) :
           /\ Sizes[i] <= Recorded[i] /\ Before(Sizes, i) = Before(Actual, i)
           /\ i = Len(Recorded) => Sizes[i] \in {Recorded[i], Actual[i]}
  BY <1>1 DEF TableOK
<1>3. Len(Sizes) \in Nat /\ DOMAIN Sizes = 1 .. Len(Sizes)
  BY <1>2
<1>4. Table = [i \in {j \in DOMAIN Sizes : Sizes[j] > 0} |-> [start |-> Before(Sizes, i), size |-> Sizes[i]]]
  BY DEF Table, PartTable
<1>5. DOMAIN Table = {m \in 1 .. Len(Sizes) : Sizes[m] > 0}
  BY <1>3, <1>4
<1>6. ASSUME NEW m \in DOMAIN Table
      PROVE  /\ m \in Messages /\ m \in 1 .. Len(Sizes)
             /\ Table[m].start = Before(Sizes, m) /\ Table[m].size = Sizes[m]
             /\ Before(Sizes, m) \in Nat /\ Sizes[m] \in Nat
  <2>1. m \in 1 .. Len(Sizes) /\ m \in 1 .. Len(Sizes) + 1
    BY <1>3, <1>5
  <2>2. m \in Messages
    BY <1>2, <1>3, <2>1, AssumedFacts DEF Messages
  <2>3. Table[m] = [start |-> Before(Sizes, m), size |-> Sizes[m]]
    BY <1>3, <1>4, <1>5, <1>6
  <2> QED BY <1>2, <2>1, <2>2, <2>3, BeforeType
<1> QED BY <1>2, <1>3, <1>5, <1>6

LEMMA MapRangeFacts ==
    ASSUME RealType, NEW offset \in Nat, NEW length \in Nat, length > 0, offset + length <= Total
    PROVE  Chain(MapRange(Table, Total, offset, length), offset, offset + length, Table)
<1> DEFINE s == Sizes
           hi == offset + length
           H == Touched(s, offset, hi)
           h == InOrder(H)
           c == Cardinality(H)
           ps == MapRange(Table, Total, offset, length)
<1>1. /\ Total = SizeOf(s) /\ Total \in Nat /\ hi \in Nat /\ offset < hi /\ hi <= Total
      /\ ~(length <= 0) /\ ~(offset >= Total) /\ ~(offset < 0)
  BY SizesFacts
<1>2. Min({offset + length, Total}) = hi
  BY <1>1, MinTwo
<1>3. s \in Seq(Nat) /\ Len(s) \in Nat
  BY TableFacts
<1>4. {m \in DOMAIN Table : /\ Table[m].start + Table[m].size > offset
                            /\ Table[m].start < hi} = H
  <2> HIDE DEF hi
  <2>1. \A m : m \in H <=> /\ m \in DOMAIN Table
                           /\ Table[m].start + Table[m].size > offset /\ Table[m].start < hi
    BY TableFacts DEF Touched
  <2> QED BY <2>1
<1>5. /\ c \in Nat \ {0} /\ Len(h) = c /\ DOMAIN h = 1 .. c
      /\ \A i \in 1 .. c : h[i] \in H
      /\ Before(s, h[1]) <= offset
      /\ hi <= Before(s, h[c]) + s[h[c]]
      /\ \A i \in 1 .. c : i + 1 \in 1 .. c => Before(s, h[i + 1]) = Before(s, h[i]) + s[h[i]]
  <2> HIDE DEF hi, s
  <2>1. InSequence(s, offset, hi, H, h, c)
    BY <1>1, <1>3, TouchedFacts
  <2> HIDE DEF H, h, c
  <2> QED BY <2>1 DEF InSequence
<1> DEFINE In(m) == Max({0, offset - Table[m].start})
           P(m) == [message |-> m, inner |-> In(m),
                    n |-> Min({Table[m].start + Table[m].size, hi}) - (Table[m].start + In(m))]
<1>6. ps = [i \in 1 .. c |-> P(h[i])]
  <2>1. ps = [i \in DOMAIN InOrder(H) |-> P(InOrder(H)[i])]
    <3> HIDE DEF hi, H
    <3> QED BY <1>1, <1>2, <1>4 DEF MapRange
  <2> QED BY <1>5, <2>1
<1>7. \A m \in H : /\ m \in DOMAIN Table /\ s[m] > 0
                   /\ Before(s, m) + s[m] > offset /\ Before(s, m) < hi
  BY TableFacts DEF Touched
<1> HIDE DEF H, h, c, hi, ps
<1>8. ASSUME NEW m \in H
      PROVE  /\ P(m) \in PieceType /\ PieceOK(P(m), Table)
             /\ At(P(m)) = IF Before(s, m) <= offset THEN offset ELSE Before(s, m)
             /\ At(P(m)) + P(m).n = IF Before(s, m) + s[m] <= hi THEN Before(s, m) + s[m] ELSE hi
  <2> DEFINE b == Before(s, m)
             z == s[m]
  <2>1. /\ m \in DOMAIN Table /\ m \in Messages
        /\ Table[m].start = b /\ Table[m].size = z /\ Before(Actual, m) = b
        /\ b \in Nat /\ z \in Nat /\ z <= Recorded[m] /\ Recorded[m] \in Nat
        /\ b + z > offset /\ b < hi
    BY <1>7, TableFacts, AssumedFacts
  <2> HIDE DEF b, z
  <2>2. offset - b \in Int /\ b + z \in Int /\ hi \in Int
    BY <1>1, <2>1
  <2>3. In(m) = IF 0 <= offset - b THEN offset - b ELSE 0
    BY <2>1, <2>2, MaxTwo
  <2>4. Min({b + z, hi}) = IF b + z <= hi THEN b + z ELSE hi
    BY <2>2, MinTwo
  <2> DEFINE e == Min({b + z, hi})
             k == In(m)
  <2>5. P(m) = [message |-> m, inner |-> k, n |-> e - (b + k)]
    BY <2>1
  <2>6. k = IF 0 <= offset - b THEN offset - b ELSE 0
    BY <2>3
  <2> HIDE DEF e, k, P
  <2>7. e = IF b + z <= hi THEN b + z ELSE hi
    BY <2>4 DEF e
  <2>8. k \in Nat /\ b + k = IF b <= offset THEN offset ELSE b
    BY <2>1, <2>6
  <2>9. e - (b + k) \in Nat /\ k + (e - (b + k)) <= z /\ (b + k) + (e - (b + k)) = e
    BY <1>1, <2>1, <2>7, <2>8
  <2>10. P(m).message = m /\ P(m).inner = k /\ P(m).n = e - (b + k)
    BY <2>5
  <2>11. P(m) \in PieceType
    BY <2>1, <2>5, <2>8, <2>9 DEF PieceType
  <2>12. PieceOK(P(m), Table)
    BY <2>1, <2>8, <2>9, <2>10, <2>11 DEF PieceOK
  <2>13. At(P(m)) = b + k
    BY <2>1, <2>10 DEF At
  <2>14. At(P(m)) = IF b <= offset THEN offset ELSE b
    BY <2>8, <2>13
  <2>15. At(P(m)) + P(m).n = IF b + z <= hi THEN b + z ELSE hi
    BY <2>7, <2>9, <2>10, <2>13
  <2> QED BY <2>11, <2>12, <2>14, <2>15 DEF b, z
<1> HIDE DEF P
<1>9. ps \in Seq(PieceType) /\ Len(ps) = c /\ ps # <<>> /\ \A i \in 1 .. c : ps[i] = P(h[i])
  <2>1. \A i \in 1 .. c : P(h[i]) \in PieceType
    BY <1>5, <1>8
  <2>2. ps \in Seq(PieceType) /\ Len(ps) = c
    BY <1>5, <1>6, <2>1
  <2> QED BY <1>5, <1>6, <2>2
<1>10. 1 \in 1 .. c /\ c \in 1 .. c
  BY <1>5
<1>11. At(ps[1]) = offset
  BY <1>5, <1>8, <1>9, <1>10
<1>12. At(ps[c]) + ps[c].n = hi
  <2>1. At(ps[c]) + ps[c].n = IF Before(s, h[c]) + s[h[c]] <= hi THEN Before(s, h[c]) + s[h[c]] ELSE hi
    BY <1>5, <1>8, <1>9, <1>10
  <2>2. Before(s, h[c]) \in Nat /\ s[h[c]] \in Nat
    BY <1>5, <1>7, <1>10, TableFacts
  <2>3. hi <= Before(s, h[c]) + s[h[c]]
    BY <1>5
  <2> DEFINE x == Before(s, h[c]) + s[h[c]]
             e == At(ps[c]) + ps[c].n
  <2>4. x \in Nat /\ hi <= x /\ e = IF x <= hi THEN x ELSE hi
    BY <2>1, <2>2, <2>3
  <2> HIDE DEF x, e
  <2>5. e = hi
    BY <1>1, <2>4
  <2> QED BY <2>5 DEF e
<1>13. ASSUME NEW i \in 1 .. c, i + 1 \in 1 .. c
       PROVE  At(ps[i + 1]) = At(ps[i]) + ps[i].n
  <2> DEFINE m == h[i]
             n == h[i + 1]
  <2>1. m \in H /\ n \in H /\ ps[i] = P(m) /\ ps[i + 1] = P(n)
    BY <1>5, <1>9, <1>13
  <2>2. Before(s, n) = Before(s, m) + s[m]
    BY <1>5, <1>13
  <2> HIDE DEF m, n
  <2>3. Before(s, n) \in Nat /\ Before(s, m) \in Nat /\ s[m] \in Nat
    BY <1>7, <2>1, TableFacts
  <2>4. Before(s, m) + s[m] > offset /\ Before(s, n) < hi
    BY <1>7, <2>1
  <2>5. At(P(n)) = Before(s, n)
    BY <1>8, <2>1, <2>2, <2>3, <2>4
  <2>6. At(P(m)) + P(m).n = Before(s, m) + s[m]
    BY <1>1, <1>8, <2>1, <2>2, <2>3, <2>4
  <2> QED BY <2>1, <2>2, <2>5, <2>6
<1>14. \A i \in 1 .. c : PieceOK(ps[i], Table)
  BY <1>5, <1>8, <1>9
<1>15. Chain(ps, offset, hi, Table)
  BY <1>9, <1>11, <1>12, <1>13, <1>14 DEF Chain
<1> QED BY <1>15 DEF ps, hi

-----------------------------------------------------------------------------
(* The runs of a read *)

LEMMA MinFacts ==
    ASSUME NEW S \in SUBSET Nat, S # {}
    PROVE  Min(S) \in S /\ \A x \in S : Min(S) <= x
<1>1. \E x \in S : \A y \in S : x <= y
  BY Least
<1> QED BY <1>1 DEF Min

RunType == [first : Nat, last : Nat, data : Seq(Byte), pieces : Seq(PieceType)]

\* The byte after a run.
Stop(r, total) == Min({(r.last + 1) * BLOCK_SIZE, total})

\* A run has read the file up to x, and its pieces go on from there.
RunOK(r, T, total) ==
  /\ r \in RunType
  /\ \E x \in Nat : /\ r.first * BLOCK_SIZE <= x
                    /\ r.data = FileSlice(r.first * BLOCK_SIZE, x - r.first * BLOCK_SIZE)
                    /\ Chain(r.pieces, x, Stop(r, total), T)

LEMMA SliceNone ==
    ASSUME NEW s \in Seq(Byte), NEW a \in Nat
    PROVE  Slice(s, a, 0) = <<>>
<1>1. 0 \in Int
  OBVIOUS
<1>2. /\ Slice(s, a, 0) \in Seq(Byte)
      /\ Len(Slice(s, a, 0)) = IF 0 <= Len(s) - a THEN IF 0 <= 0 THEN 0 ELSE 0
                               ELSE IF Len(s) <= a THEN 0 ELSE Len(s) - a
  BY <1>1, SliceType
<1>3. Len(Slice(s, a, 0)) = 0
  <2>1. Len(s) \in Nat
    OBVIOUS
  <2> DEFINE n == Len(Slice(s, a, 0))
             l == Len(s)
  <2>2. n = IF 0 <= l - a THEN 0 ELSE IF l <= a THEN 0 ELSE l - a
    BY <1>2
  <2> HIDE DEF n, l
  <2>3. l \in Nat => n = 0
    BY <2>2
  <2> QED BY <2>1, <2>3 DEF n, l
<1> QED BY <1>2, <1>3

LEMMA RunEnds ==
    ASSUME NEW top \in Nat, NEW missing \in SUBSET (0 .. top), NEW s \in missing,
           NEW e, e = Min({k \in missing : k >= s /\ k + 1 \notin missing})
    PROVE  /\ e \in missing /\ e >= s /\ e + 1 \notin missing
<1> DEFINE S == {k \in missing : k >= s /\ k + 1 \notin missing}
           D == {k \in Nat : k >= s /\ k + 1 \notin missing}
<1>0. \A k \in missing : k \in Nat /\ k <= top
  OBVIOUS
<1>1. top \in D
  <2>1. top + 1 \notin missing
    <3>1. ~(top + 1 <= top)
      OBVIOUS
    <3> QED BY <1>0, <3>1
  <2> QED BY <1>0, <2>1
<1>2. D \in SUBSET Nat
  OBVIOUS
<1>3. PICK d \in D : \A k \in D : d <= k
  BY <1>1, <1>2, Least
<1>4. d \in missing
  <2>1. CASE d = s
    BY <2>1
  <2>2. CASE d # s
    <3>1. d \in Nat /\ d >= s /\ s \in Nat
      BY <1>0, <1>3
    <3>2. d - 1 \in Nat /\ d - 1 >= s /\ d - 1 < d
      BY <2>2, <3>1
    <3>3. d - 1 \notin D
      BY <1>3, <3>1, <3>2
    <3>4. (d - 1) + 1 \in missing /\ (d - 1) + 1 = d
      BY <3>1, <3>2, <3>3
    <3> QED BY <3>4
  <2> QED BY <2>1, <2>2
<1>5. d \in S /\ S \in SUBSET Nat
  BY <1>0, <1>3, <1>4
<1>6. e \in S
  <2> HIDE DEF S
  <2>1. Min(S) \in S
    BY <1>5, MinFacts
  <2> QED BY <2>1 DEF S
<1> QED BY <1>6

LEMMA RunsFacts ==
    ASSUME RealType, NEW top \in Nat, NEW missing \in SUBSET (0 .. top),
           \A i \in missing : i * BLOCK_SIZE < Total
    PROVE  /\ Runs(missing) \in Seq(RunType)
           /\ \A k \in 1 .. Len(Runs(missing)) : RunOK(Runs(missing)[k], Table, Total)
           /\ \A i \in missing : \E k \in 1 .. Len(Runs(missing)) :
                i \in Runs(missing)[k].first .. Runs(missing)[k].last
<1> DEFINE starts == {i \in missing : i - 1 \notin missing}
           h == InOrder(starts)
           c == Cardinality(starts)
           EndOf(s) == Min({e \in missing : e >= s /\ e + 1 \notin missing})
           Run(s) == [first |-> s, last |-> EndOf(s), data |-> <<>>,
                      pieces |-> MapRange(Table, Total, s * BLOCK_SIZE,
                                   Min({(EndOf(s) + 1) * BLOCK_SIZE, Total}) - s * BLOCK_SIZE)]
           rs == Runs(missing)
<1>0. \A i \in missing : i \in Nat /\ i <= top
  OBVIOUS
<1>1. Total \in Nat /\ BLOCK_SIZE \in Nat \ {0}
  BY SizesFacts, AssumedFacts
<1>2. starts \in SUBSET (0 .. top)
  OBVIOUS
<1>3. /\ c \in Nat /\ Len(h) = c /\ DOMAIN h = 1 .. c
      /\ \A k \in 1 .. c : h[k] \in starts
      /\ \A x \in starts : \E k \in 1 .. c : h[k] = x
  <2> HIDE DEF starts
  <2> QED BY <1>2, InOrderFacts
<1>4. rs = [k \in 1 .. c |-> Run(h[k])]
  <2>1. rs = [k \in DOMAIN h |-> Run(h[k])]
    BY DEF Runs
  <2> QED BY <1>3, <2>1
<1>5. ASSUME NEW s \in missing
      PROVE  EndOf(s) \in missing /\ EndOf(s) >= s /\ EndOf(s) + 1 \notin missing
  BY RunEnds
<1> HIDE DEF EndOf
<1>6. ASSUME NEW s \in missing PROVE RunOK(Run(s), Table, Total)
  <2> DEFINE e == EndOf(s)
             a == s * BLOCK_SIZE
             b == (e + 1) * BLOCK_SIZE
             z == Min({b, Total})
             ps == MapRange(Table, Total, a, z - a)
  <2>1. s \in Nat /\ e \in Nat /\ e >= s
    BY <1>0, <1>5
  <2>2. a \in Nat /\ b \in Nat /\ a < b
    <3> DEFINE d == e - s
    <3>1. d \in Nat /\ e + 1 = s + d + 1
      BY <2>1
    <3>2. (s + d + 1) * BLOCK_SIZE = a + d * BLOCK_SIZE + BLOCK_SIZE
      <4> HIDE DEF d
      <4> QED BY <1>1, <2>1, <3>1
    <3>3. a \in Nat /\ d * BLOCK_SIZE \in Nat
      <4> HIDE DEF d
      <4> QED BY <1>1, <2>1, <3>1, Products
    <3> DEFINE y == d * BLOCK_SIZE
    <3>4. b = a + y + BLOCK_SIZE /\ y \in Nat
      BY <3>1, <3>2, <3>3
    <3> HIDE DEF a, b, y
    <3> QED BY <1>1, <3>3, <3>4
  <2>3. a < Total
    OBVIOUS
  <2> HIDE DEF a, b, e
  <2>4. z = IF b <= Total THEN b ELSE Total
    BY <1>1, <2>2, MinTwo
  <2>5. z \in Nat /\ a < z /\ z <= Total
    BY <1>1, <2>2, <2>3, <2>4
  <2> HIDE DEF z
  <2>6. z - a \in Nat /\ z - a > 0 /\ a + (z - a) = z /\ a + (z - a) <= Total
    BY <2>2, <2>5
  <2>7. Chain(ps, a, z, Table)
    <3>1. Chain(ps, a, a + (z - a), Table)
      BY <2>2, <2>6, MapRangeFacts
    <3> QED BY <2>6, <3>1
  <2> HIDE DEF ps
  <2> DEFINE r == [first |-> s, last |-> e, data |-> <<>>, pieces |-> ps]
  <2>8. Run(s) = r
    BY DEF ps, z, a, b, e
  <2>9. r \in RunType
    BY <2>1, <2>7 DEF RunType, Chain
  <2>10. r.data = FileSlice(a, a - a)
    <3>1. a - a = 0
      BY <2>2
    <3>2. Slice(File, a, 0) = <<>>
      BY <2>2, FileFacts, SliceNone
    <3> QED BY <3>1, <3>2 DEF FileSlice
  <2>11. r.first * BLOCK_SIZE = a /\ Stop(r, Total) = z /\ r.pieces = ps
    BY DEF Stop, a, b, z
  <2> HIDE DEF r
  <2>12. RunOK(r, Table, Total)
    BY <2>2, <2>7, <2>9, <2>10, <2>11 DEF RunOK
  <2> QED BY <2>8, <2>12
<1>7. ASSUME NEW i \in missing PROVE \E s \in starts : i \in s .. EndOf(s)
  <2> DEFINE D == {j \in Nat : j <= i /\ \A k \in j .. i : k \in missing}
  <2>1. i \in D /\ D \in SUBSET Nat
    BY <1>0
  <2>2. PICK s \in D : \A j \in D : s <= j
    BY <2>1, Least
  <2>3. s \in Nat /\ i \in Nat /\ s <= i /\ \A k \in s .. i : k \in missing
    BY <1>0, <2>2
  <2>4. s \in missing
    BY <2>3
  <2>5. s - 1 \notin missing
    <3> SUFFICES ASSUME s - 1 \in missing PROVE FALSE
      OBVIOUS
    <3>1. s - 1 \in Nat
      BY <1>0
    <3>2. \A k \in s - 1 .. i : k = s - 1 \/ k \in s .. i
      BY <2>3
    <3>3. s - 1 \in D
      BY <2>3, <3>1, <3>2
    <3> QED BY <2>2, <2>3, <3>3
  <2>6. EndOf(s) \in Nat /\ EndOf(s) >= s /\ EndOf(s) + 1 \notin missing
    BY <1>0, <1>5, <2>4
  <2>7. i <= EndOf(s)
    <3> SUFFICES ASSUME ~(i <= EndOf(s)) PROVE FALSE
      OBVIOUS
    <3>1. EndOf(s) + 1 \in s .. i
      BY <2>3, <2>6
    <3> QED BY <2>3, <2>6, <3>1
  <2>8. s \in starts /\ i \in s .. EndOf(s)
    BY <2>3, <2>4, <2>5, <2>6, <2>7
  <2> QED BY <2>8
<1>8. \A s : Run(s).first = s /\ Run(s).last = EndOf(s)
  OBVIOUS
<1>9. \A s \in starts : s \in missing
  OBVIOUS
<1> HIDE DEF starts, h, c, Run, rs
<1>10. \A s \in missing : Run(s) \in RunType
  BY <1>6 DEF RunOK
<1>11. rs \in Seq(RunType) /\ Len(rs) = c
  <2>1. \A k \in 1 .. c : Run(h[k]) \in RunType
    BY <1>3, <1>9, <1>10
  <2>2. c \in Nat
    BY <1>3
  <2> QED BY <1>4, <2>1, <2>2
<1>12. \A k \in 1 .. Len(rs) : RunOK(rs[k], Table, Total)
  BY <1>3, <1>4, <1>6, <1>9, <1>11
<1>13. ASSUME NEW i \in missing
       PROVE  \E k \in 1 .. Len(rs) : i \in rs[k].first .. rs[k].last
  <2>1. PICK s \in starts : i \in s .. EndOf(s)
    BY <1>7
  <2>2. PICK k \in 1 .. c : h[k] = s
    BY <1>3
  <2>3. rs[k] = Run(s)
    BY <1>4, <2>2
  <2> QED BY <1>8, <1>11, <2>1, <2>2, <2>3
<1> QED BY <1>11, <1>12, <1>13 DEF rs

-----------------------------------------------------------------------------
(* The blocks of a read laid end to end *)

Block(i) == FileSlice(i * BLOCK_SIZE, BLOCK_SIZE)

LEMMA DivGrows ==
    ASSUME NEW x \in Nat, NEW y \in Nat, x <= y, NEW r \in Nat \ {0}
    PROVE  x \div r <= y \div r
<1> DEFINE a == x \div r
           b == y \div r
           c == x % r
           d == y % r
<1>1. /\ a \in Nat /\ b \in Nat /\ c \in Nat /\ d \in Nat /\ d < r
      /\ x = r * a + c /\ y = r * b + d /\ r * a \in Nat /\ r * b \in Nat
  BY Division
<1> HIDE DEF a, b, c, d
<1>2. ASSUME b < a PROVE FALSE
  <2> DEFINE k == a - (b + 1)
  <2>1. k \in Nat /\ a = (b + 1) + k
    BY <1>1, <1>2
  <2> HIDE DEF k
  <2>2. r * a = r * b + r + r * k /\ r * k \in Nat
    <3>1. r * ((b + 1) + k) = r * b + r + r * k
      BY <1>1, <2>1
    <3>2. r * k \in Nat
      BY <2>1, Products
    <3> QED BY <2>1, <3>1, <3>2
  <2> DEFINE u == r * a
             v == r * b
             w == r * k
  <2>3. u = v + r + w /\ w \in Nat /\ u \in Nat /\ v \in Nat /\ x = u + c /\ y = v + d
    BY <1>1, <2>2
  <2> HIDE DEF u, v, w
  <2> QED BY <1>1, <2>3
<1>3. a <= b
  BY <1>1, <1>2
<1> QED BY <1>3 DEF a, b

\* A place of a block is the place of the file it stands for.
LEMMA BlockFacts ==
    ASSUME NEW i \in Nat, NEW r \in Nat, r < BLOCK_SIZE
    PROVE  /\ Block(i) \in Seq(Byte) /\ Len(Block(i)) \in Nat
           /\ r < Len(Block(i)) <=> i * BLOCK_SIZE + r < Len(File)
           /\ r < Len(Block(i)) => Block(i)[r + 1] = File[(i * BLOCK_SIZE + r) + 1]
<1> DEFINE B == BLOCK_SIZE
           a == i * B
           l == Len(File)
           s == Block(i)
           n == Len(s)
<1>1. B \in Nat \ {0} /\ B \in Int /\ l \in Nat /\ File \in Seq(Byte)
  BY AssumedFacts, FileFacts
<1>2. a \in Nat
  BY <1>1, Products
<1>3. /\ s \in Seq(Byte)
      /\ n = IF B <= l - a THEN IF B <= 0 THEN 0 ELSE B ELSE IF l <= a THEN 0 ELSE l - a
      /\ \A j \in 1 .. n : s[j] = File[a + j]
  <2>1. s = Slice(File, a, B)
    BY DEF Block, FileSlice
  <2>2. /\ Slice(File, a, B) \in Seq(Byte)
        /\ Len(Slice(File, a, B)) = IF B <= Len(File) - a THEN IF B <= 0 THEN 0 ELSE B
                                    ELSE IF Len(File) <= a THEN 0 ELSE Len(File) - a
        /\ \A j \in 1 .. Len(Slice(File, a, B)) : Slice(File, a, B)[j] = File[a + j]
    BY <1>1, <1>2, SliceType
  <2> HIDE DEF a, B, s
  <2> QED BY <2>1, <2>2
<1>a. r < B
  OBVIOUS
<1> HIDE DEF a, l, s, n, B
<1>4. n \in Nat
  BY <1>1, <1>2, <1>3
<1>5. r < n <=> a + r < l
  BY <1>1, <1>2, <1>3, <1>a
<1>6. r < n => s[r + 1] = File[(a + r) + 1]
  <2>1. r < n => r + 1 \in 1 .. n
    BY <1>4
  <2>2. a + (r + 1) = (a + r) + 1
    BY <1>2
  <2> QED BY <1>3, <2>1, <2>2
<1> QED BY <1>3, <1>4, <1>5, <1>6 DEF n, s, a, B, l

LEMMA AssembledFacts ==
    ASSUME NEW found, NEW from \in Nat, NEW end \in Nat, from <= end,
           from < end => \A i \in from \div BLOCK_SIZE .. (end - 1) \div BLOCK_SIZE :
                           found[i] = Block(i)
    PROVE  Assembled(found, from, end) = FileSlice(from, end - from)
<1> DEFINE B == BLOCK_SIZE
           l == Len(File)
           Reached == {p \in from .. end - 1 :
                         \A q \in from .. p : q % B < Len(found[q \div B])}
           ByteAt(p) == found[p \div B][(p % B) + 1]
           y == Slice(File, from, end - from)
           n == Len(y)
<1>1. B \in Nat \ {0} /\ l \in Nat /\ File \in Seq(Byte)
  BY AssumedFacts, FileFacts
<1>2. /\ y \in Seq(Byte)
      /\ n = IF end - from <= l - from THEN IF end - from <= 0 THEN 0 ELSE end - from
             ELSE IF l <= from THEN 0 ELSE l - from
      /\ \A j \in 1 .. n : y[j] = File[from + j]
  <2>1. end - from \in Int
    OBVIOUS
  <2> QED BY <1>1, <2>1, SliceType
<1> HIDE DEF y, n, l
<1>3. ASSUME NEW q \in from .. end - 1
      PROVE  /\ q % B < Len(found[q \div B]) <=> q < l
             /\ q < l => ByteAt(q) = File[q + 1]
  <2> DEFINE d == q \div B
             r == q % B
  <2>1. q \in Nat /\ end - 1 \in Nat /\ from < end /\ from <= q /\ q <= end - 1
    BY <1>3
  <2>2. d \in Nat /\ r \in Nat /\ r < B /\ q = B * d + r
    BY <1>1, <2>1, Division
  <2>3. from \div B \in Nat /\ (end - 1) \div B \in Nat
    BY <1>1, <2>1, Division
  <2>4. from \div B <= d /\ d <= (end - 1) \div B
    BY <1>1, <2>1, DivGrows
  <2>5. found[d] = Block(d)
    <3>1. d \in from \div B .. (end - 1) \div B
      <4> DEFINE u == from \div B
                 v == (end - 1) \div B
      <4>1. u \in Nat /\ v \in Nat /\ u <= d /\ d <= v
        BY <2>3, <2>4
      <4> HIDE DEF u, v, d
      <4>2. d \in u .. v
        BY <2>2, <4>1
      <4> QED BY <4>2 DEF u, v, d
    <3> QED BY <2>1, <3>1
  <2>6. /\ r < Len(Block(d)) <=> d * BLOCK_SIZE + r < Len(File)
        /\ r < Len(Block(d)) => Block(d)[r + 1] = File[(d * BLOCK_SIZE + r) + 1]
    <3> HIDE DEF d, r
    <3> QED BY <2>2, BlockFacts DEF B
  <2>7. d * BLOCK_SIZE + r = q
    <3>1. d * B = B * d
      BY <1>1, <2>2, Products
    <3> QED BY <2>2, <3>1
  <2> HIDE DEF d, r, B
  <2> QED BY <2>5, <2>6, <2>7 DEF d, r, l
<1> HIDE DEF ByteAt
<1>4. Reached = from .. (from + n) - 1
  <2>1. ASSUME NEW p \in Reached PROVE p \in from .. (from + n) - 1
    <3>1. p \in from .. end - 1 /\ p \in from .. p /\ p \in Nat
      BY <2>1
    <3>2. p % B < Len(found[p \div B])
      BY <2>1, <3>1
    <3>3. p < l /\ p <= end - 1 /\ from <= p
      BY <1>3, <3>1, <3>2
    <3> HIDE DEF Reached
    <3> QED BY <1>1, <1>2, <3>1, <3>3
  <2>2. ASSUME NEW p \in from .. (from + n) - 1 PROVE p \in Reached
    <3>1. p \in Nat /\ p < l /\ p \in from .. end - 1
      <4> HIDE DEF Reached
      <4> QED BY <1>1, <1>2
    <3>2. ASSUME NEW q \in from .. p PROVE q % B < Len(found[q \div B])
      <4>1. q \in from .. end - 1 /\ q < l
        <5> HIDE DEF Reached
        <5> QED BY <1>1, <3>1
      <4> QED BY <1>3, <4>1
    <3> QED BY <3>1, <3>2
  <2> HIDE DEF Reached
  <2> QED BY <2>1, <2>2
<1>5. n \in Nat
  BY <1>1, <1>2
<1>6. Cardinality(Reached) = n
  <2>1. from \in Int /\ (from + n) - 1 \in Int
    BY <1>5
  <2>2. Cardinality(from .. (from + n) - 1) =
          IF from > (from + n) - 1 THEN 0 ELSE ((from + n) - 1) - from + 1
    BY <2>1, FS_Interval
  <2> HIDE DEF Reached
  <2>3. (IF from > (from + n) - 1 THEN 0 ELSE ((from + n) - 1) - from + 1) = n
    BY <1>5
  <2> QED BY <1>4, <2>2, <2>3
<1>7. Assembled(found, from, end) = [i \in 1 .. n |-> ByteAt(from + i - 1)]
  <2>1. Assembled(found, from, end) = [i \in 1 .. Cardinality(Reached) |-> ByteAt(from + i - 1)]
    BY DEF Assembled, ByteAt, B
  <2> HIDE DEF Reached
  <2> QED BY <1>6, <2>1
<1> HIDE DEF Reached
<1>8. ASSUME NEW i \in 1 .. n PROVE ByteAt(from + i - 1) = y[i]
  <2> DEFINE q == from + i - 1
  <2>1. q \in from .. end - 1 /\ q < l /\ q + 1 = from + i
    BY <1>1, <1>2
  <2> HIDE DEF q
  <2>2. ByteAt(q) = File[q + 1]
    BY <1>3, <2>1
  <2> QED BY <1>2, <2>1, <2>2 DEF q
<1>9. y = [i \in 1 .. n |-> y[i]]
  BY <1>2 DEF n
<1>10. Assembled(found, from, end) = y
  BY <1>7, <1>8, <1>9
<1> QED BY <1>10 DEF y, FileSlice

-----------------------------------------------------------------------------
(* The pieces of a run, read one by one *)

LEMMA Distributes ==
    ASSUME NEW a \in Nat, NEW b \in Nat, NEW c \in Nat
    PROVE  (a + b) * c = a * c + b * c
OBVIOUS

\* A run that was read to its end.
DoneOK(r) ==
  r \in RunType /\ r.data = FileSlice(r.first * BLOCK_SIZE,
                                      (r.last + 1) * BLOCK_SIZE - r.first * BLOCK_SIZE)

\* What is asked for past the end of the file makes no difference.
LEMMA SlicePast ==
    ASSUME NEW s \in Seq(Byte), NEW a \in Nat, NEW n \in Int, NEW k \in Int,
           n <= k, n = k \/ Len(s) <= a + n
    PROVE  Slice(s, a, n) = Slice(s, a, k)
<1> DEFINE l == Len(s)
           d == l - a
<1>1. l \in Nat /\ d \in Int
  OBVIOUS
<1>2. Min({n, d}) = (IF n <= d THEN n ELSE d) /\ Min({k, d}) = (IF k <= d THEN k ELSE d)
  BY <1>1, MinTwo
<1>3. n # k => d <= n
  BY <1>1
<1> HIDE DEF d
<1>4. Min({n, d}) = Min({k, d})
  BY <1>1, <1>2, <1>3
<1> QED BY <1>4 DEF Slice, d, l

LEMMA RunDone ==
    ASSUME RealType, NEW r \in RunType,
           r.data = FileSlice(r.first * BLOCK_SIZE, Stop(r, Total) - r.first * BLOCK_SIZE)
    PROVE  DoneOK(r)
<1> DEFINE a == r.first * BLOCK_SIZE
           b == (r.last + 1) * BLOCK_SIZE
           z == Stop(r, Total)
<1>1. Total \in Nat /\ Len(File) <= Total /\ Len(File) \in Nat /\ File \in Seq(Byte)
  BY SizesFacts, FileFacts
<1>2. a \in Nat /\ b \in Nat
  <2>1. r.first \in Nat /\ r.last + 1 \in Nat /\ BLOCK_SIZE \in Nat
    BY AssumedFacts DEF RunType
  <2> QED BY <2>1, Products
<1>3. z = IF b <= Total THEN b ELSE Total
  BY <1>1, <1>2, MinTwo DEF Stop
<1> HIDE DEF a, b, z
<1>4. z - a \in Int /\ b - a \in Int /\ z - a <= b - a /\ (z - a = b - a \/ Len(File) <= a + (z - a))
  BY <1>1, <1>2, <1>3
<1>5. Slice(File, a, z - a) = Slice(File, a, b - a)
  BY <1>1, <1>2, <1>4, SlicePast
<1> QED BY <1>5 DEF DoneOK, FileSlice, a, b, z

\* The blocks of a run are the blocks of the file.
LEMMA DoneBlocks ==
    ASSUME NEW r, DoneOK(r), NEW i \in r.first .. r.last
    PROVE  Slice(r.data, (i - r.first) * BLOCK_SIZE, BLOCK_SIZE) = Block(i)
<1> DEFINE B == BLOCK_SIZE
           f == r.first
           a == f * B
           n == (r.last + 1) * B - a
           b == (i - f) * B
<1>1. /\ B \in Nat \ {0} /\ f \in Nat /\ r.last \in Nat /\ File \in Seq(Byte)
      /\ r.data = Slice(File, a, n) /\ i \in Nat /\ f <= i /\ i <= r.last
  BY AssumedFacts, FileFacts DEF DoneOK, RunType, FileSlice
<1> DEFINE k == i - f
           m == r.last - i
<1>2. k \in Nat /\ m \in Nat /\ i = f + k /\ r.last + 1 = ((f + k) + 1) + m
  BY <1>1
<1> HIDE DEF k, m
<1>3. a \in Nat /\ k * B \in Nat /\ m * B \in Nat
  BY <1>1, <1>2, Products
<1>4. i * B = a + k * B
  <2>1. (f + k) * B = f * B + k * B
    BY <1>1, <1>2
  <2> QED BY <1>2, <2>1
<1>5. (r.last + 1) * B = ((a + k * B) + B) + m * B
  <2>0. r.last \in Nat /\ i \in Nat /\ m \in Nat /\ r.last + 1 = ((f + k) + 1) + m /\ i = f + k
    BY <1>1, <1>2
  <2>1. (i + 1) + m \in Nat /\ i + 1 \in Nat /\ r.last + 1 = (i + 1) + m
    BY <2>0
  <2>2. ((i + 1) + m) * B = (i + 1) * B + m * B
    BY <1>1, <1>2, <2>1, Distributes
  <2>3. (i + 1) * B = i * B + B
    BY <1>1, <2>1, Products
  <2> QED BY <1>4, <2>1, <2>2, <2>3
<1>6. b = k * B
  BY DEF k
<1> DEFINE u == k * B
           v == m * B
<1>7. n = (u + B) + v /\ u \in Nat /\ v \in Nat /\ b = u
  <2> DEFINE w == (r.last + 1) * B
  <2>1. w = ((a + u) + B) + v
    BY <1>5
  <2>2. u \in Nat /\ v \in Nat /\ n = w - a
    BY <1>3
  <2> HIDE DEF w, u, v, a, n
  <2>3. n = (u + B) + v
    BY <1>1, <1>3, <2>1, <2>2
  <2> QED BY <1>6, <2>2, <2>3 DEF u
<1>8. i * B = a + u
  BY <1>4
<1> HIDE DEF a, n, b, u, v, B, f
<1>9. n \in Nat /\ b \in Nat /\ B \in Int /\ b + B <= n
  BY <1>1, <1>7
<1>10. Slice(Slice(File, a, n), b, B) = Slice(File, a + b, B)
  BY <1>1, <1>3, <1>9, SliceOfSlice
<1>11. Slice(r.data, b, B) = Slice(File, i * B, B)
  BY <1>1, <1>7, <1>8, <1>10
<1> QED BY <1>11 DEF B, b, f, Block, FileSlice

\* What a chain goes on with after its first piece.
LEMMA ChainTail ==
    ASSUME NEW ps, NEW x, NEW y, NEW T, Chain(ps, x, y, T)
    PROVE  /\ PieceOK(ps[1], T) /\ At(ps[1]) = x /\ Head(ps) = ps[1]
           /\ Len(ps) > 1 => Chain(Tail(ps), x + ps[1].n, y, T)
           /\ ~(Len(ps) > 1) => x + ps[1].n = y
<1> DEFINE n == Len(ps)
<1>1. /\ ps \in Seq(PieceType) /\ ps # <<>> /\ n \in Nat
      /\ \A i \in 1 .. n : PieceOK(ps[i], T)
      /\ At(ps[1]) = x
      /\ \A i \in 1 .. n : i + 1 \in 1 .. n => At(ps[i + 1]) = At(ps[i]) + ps[i].n
      /\ At(ps[n]) + ps[n].n = y
  BY DEF Chain
<1>a. ps \in Seq(PieceType) /\ ps # <<>> /\ n \in Nat
  BY <1>1
<1>2. n # 0 /\ Head(ps) = ps[1] /\ 1 \in 1 .. n
  BY <1>a
<1>3. ASSUME n > 1 PROVE Chain(Tail(ps), x + ps[1].n, y, T)
  <2> DEFINE t == Tail(ps)
  <2>0. t \in Seq(PieceType) /\ Len(t) = n - 1
    BY <1>a
  <2>1. t \in Seq(PieceType) /\ Len(t) = n - 1 /\ t # <<>>
    <3>0. n \in Nat /\ n > 1
      BY <1>a, <1>3
    <3>1. n - 1 # 0
      <4> HIDE DEF n
      <4> QED BY <3>0
    <3>2. Len(t) # 0
      BY <2>0, <3>1
    <3>3. Len(<<>>) = 0
      OBVIOUS
    <3>4. t # <<>>
      <4> HIDE DEF t
      <4> QED BY <3>2, <3>3
    <3> QED BY <2>0, <3>4
  <2>2. \A i \in 1 .. n - 1 : t[i] = ps[i + 1]
    BY <1>a
  <2> HIDE DEF t, n
  <2>3. \A i \in 1 .. n - 1 : i + 1 \in 1 .. n /\ i \in 1 .. n
    BY <1>1
  <2>4. \A i \in 1 .. Len(t) : PieceOK(t[i], T)
    BY <1>1, <2>1, <2>2, <2>3
  <2>5. At(t[1]) = x + ps[1].n
    <3>1. 1 \in 1 .. n - 1 /\ 1 + 1 \in 1 .. n
      BY <1>1, <1>3
    <3> QED BY <1>1, <1>2, <2>2, <3>1
  <2>6. ASSUME NEW i \in 1 .. Len(t), i + 1 \in 1 .. Len(t)
        PROVE  At(t[i + 1]) = At(t[i]) + t[i].n
    <3>1. i \in 1 .. n - 1 /\ i + 1 \in 1 .. n - 1 /\ (i + 1) + 1 \in 1 .. n /\ i + 1 \in 1 .. n
      BY <1>1, <2>1, <2>6
    <3>2. t[i] = ps[i + 1] /\ t[i + 1] = ps[(i + 1) + 1]
      BY <2>2, <3>1
    <3> QED BY <1>1, <3>1, <3>2
  <2>7. At(t[Len(t)]) + t[Len(t)].n = y
    <3>1. n - 1 \in 1 .. n - 1 /\ (n - 1) + 1 = n
      BY <1>1, <1>3
    <3>2. t[n - 1] = ps[n]
      BY <2>2, <3>1
    <3> QED BY <1>1, <2>1, <3>2
  <2>8. Chain(t, x + ps[1].n, y, T)
    BY <2>1, <2>4, <2>5, <2>6, <2>7 DEF Chain
  <2> QED BY <2>8 DEF t
<1>4. ASSUME ~(n > 1) PROVE x + ps[1].n = y
  <2>0. n \in Nat /\ n # 0 /\ ~(n > 1)
    BY <1>a, <1>2, <1>4
  <2>1. n = 1
    <3> HIDE DEF n
    <3> QED BY <2>0
  <2> QED BY <1>1, <2>1
<1> QED BY <1>1, <1>2, <1>3, <1>4

\* One more piece of a run.
LEMMA PieceFacts ==
    ASSUME RealType, AlienType, NEW r, RunOK(r, Table, Total),
           Head(r.pieces).message \notin alien,
           NEW data, data = r.data \o DocRead(Head(r.pieces).message, Head(r.pieces).inner, Head(r.pieces).n)
    PROVE  /\ Len(r.pieces) > 1 => RunOK([r EXCEPT !.pieces = Tail(r.pieces), !.data = data], Table, Total)
           /\ ~(Len(r.pieces) > 1) => DoneOK([r EXCEPT !.pieces = <<>>, !.data = data])
<1> DEFINE p == Head(r.pieces)
           a == r.first * BLOCK_SIZE
           z == Stop(r, Total)
<1>1. PICK x \in Nat : a <= x /\ r.data = FileSlice(a, x - a) /\ Chain(r.pieces, x, z, Table)
  BY DEF RunOK
<1>2. r \in RunType
  BY DEF RunOK
<1>3. /\ PieceOK(p, Table) /\ At(p) = x
      /\ Len(r.pieces) > 1 => Chain(Tail(r.pieces), x + p.n, z, Table)
      /\ ~(Len(r.pieces) > 1) => x + p.n = z
  BY <1>1, ChainTail
<1>4. p.message \in Messages /\ p.inner \in Nat /\ p.n \in Nat /\ p.inner + p.n <= Recorded[p.message]
  BY <1>3 DEF PieceOK, PieceType
<1>5. DocRead(p.message, p.inner, p.n) = FileSlice(x, p.n)
  <2>1. DocRead(p.message, p.inner, p.n) = Slice(Media(p.message), p.inner, p.n)
    BY <1>4, MediaFacts, DocReadFacts
  <2>2. Slice(Media(p.message), p.inner, p.n) = FileSlice(Before(Actual, p.message) + p.inner, p.n)
    BY <1>4, PieceBytes
  <2> QED BY <1>3, <2>1, <2>2 DEF At
<1>6. a \in Nat
  <2>1. r.first \in Nat /\ BLOCK_SIZE \in Nat
    BY <1>2, AssumedFacts DEF RunType
  <2> QED BY <2>1, Products
<1> HIDE DEF p, a, z
<1> DEFINE y == x + p.n
<1>7. y \in Nat /\ a <= y /\ y - a = (x - a) + p.n /\ a + (x - a) = x /\ x - a \in Nat
  BY <1>1, <1>4, <1>6
<1>8. data = FileSlice(a, y - a)
  <2>0. File \in Seq(Byte) /\ p.n \in Nat /\ x - a \in Nat
    BY <1>4, <1>7, FileFacts
  <2>1. Slice(File, a, x - a) \o Slice(File, a + (x - a), p.n) = Slice(File, a, (x - a) + p.n)
    BY <1>6, <2>0, SlicesJoin
  <2>2. data = Slice(File, a, x - a) \o Slice(File, x, p.n)
    BY <1>1, <1>5 DEF p, FileSlice
  <2> QED BY <1>7, <2>1, <2>2 DEF FileSlice
<1>9. data \in Seq(Byte)
  <2>1. y - a \in Int
    BY <1>6, <1>7
  <2> QED BY <1>6, <1>8, <2>1, FileFacts, SliceType DEF FileSlice
<1> HIDE DEF y
<1>10. ASSUME Len(r.pieces) > 1
       PROVE  RunOK([r EXCEPT !.pieces = Tail(r.pieces), !.data = data], Table, Total)
  <2> DEFINE t == Tail(r.pieces)
             w == [r EXCEPT !.pieces = t, !.data = data]
  <2>1. Chain(t, y, z, Table)
    BY <1>3, <1>10 DEF y, p
  <2>2. t \in Seq(PieceType)
    BY <2>1 DEF Chain
  <2> HIDE DEF t
  <2>3. w \in RunType
    BY <1>2, <1>9, <2>2 DEF RunType
  <2>4. w.first = r.first /\ w.last = r.last /\ w.data = data /\ w.pieces = t
    BY <1>2 DEF RunType
  <2> HIDE DEF w
  <2>5. Stop(w, Total) = z
    BY <2>4 DEF Stop, z
  <2>6. w.first * BLOCK_SIZE = a
    BY <2>4 DEF a
  <2>7. RunOK(w, Table, Total)
    BY <1>7, <1>8, <2>1, <2>3, <2>4, <2>5, <2>6 DEF RunOK
  <2> QED BY <2>7 DEF w, t
<1>11. ASSUME ~(Len(r.pieces) > 1)
       PROVE  DoneOK([r EXCEPT !.pieces = <<>>, !.data = data])
  <2> DEFINE w == [r EXCEPT !.pieces = <<>>, !.data = data]
  <2>1. y = z
    BY <1>3, <1>11 DEF y, p
  <2>2. w \in RunType
    <3>1. <<>> \in Seq(PieceType)
      OBVIOUS
    <3> QED BY <1>2, <1>9, <3>1 DEF RunType
  <2>3. w.first = r.first /\ w.last = r.last /\ w.data = data
    BY <1>2 DEF RunType
  <2> HIDE DEF w
  <2>4. Stop(w, Total) = z /\ w.first * BLOCK_SIZE = a
    BY <2>3 DEF Stop, z, a
  <2>5. DoneOK(w)
    BY <1>8, <2>1, <2>2, <2>3, <2>4, RunDone
  <2> QED BY <2>5 DEF w
<1> QED BY <1>10, <1>11

-----------------------------------------------------------------------------
(* The invariant of a reader *)

OpType ==
  [pc : {"fetch", "store", "read", "refresh"}, want : Nat, from : Nat, end : Nat, doc : Nat,
   retried : BOOLEAN, runs : Seq(RunType), done : Seq(RunType), all : SUBSET Nat]

Needed(from, end) ==
  IF from < end THEN from \div BLOCK_SIZE .. (end - 1) \div BLOCK_SIZE ELSE {}
Within(i, q) == \E k \in 1 .. Len(q) : i \in q[k].first .. q[k].last

\* The range of the read o from position p: what was asked for, as far as the
\* table goes.
Ranges(o, p, z) ==
  /\ p <= o.from /\ o.from <= o.end /\ o.end <= z
  /\ o.end <= p + o.want /\ (o.end = p + o.want \/ o.end = z)
  /\ o.all = Needed(o.from, o.end)

\* Its runs hold the bytes of the file, and together with the cached blocks C
\* they hold all of it.
Gathers(o, C, T, z) ==
  /\ \A k \in 1 .. Len(o.runs) : RunOK(o.runs[k], T, z)
  /\ \A k \in 1 .. Len(o.done) : DoneOK(o.done[k])
  /\ \A i \in o.all : i \in C \/ Within(i, o.runs) \/ Within(i, o.done)

\* A document is read only of a message that does not hold another file.
Checked(o, A) ==
  /\ o.pc # "fetch" => o.runs # <<>>
  /\ o.pc \in {"store", "read"} => Head(Head(o.runs).pieces).message \notin A

Reading(o, p, C, T, z, A) ==
  o \in OpType /\ Ranges(o, p, z) /\ Gathers(o, C, T, z) /\ Checked(o, A)

BlockType == [index : Nat, data : Seq(Byte)]
Exact(q) == \A i \in 1 .. Len(q) : q[i].data = Block(q[i].index)

\* A document is cached only of a message that does not hold another file.
DocsChecked == \A m \in Messages : docs[m] # 0 => m \notin alien

ReaderInv ==
  /\ RealType /\ AlienType
  /\ reference \in [Messages -> Nat] /\ docs \in [Messages -> Nat] /\ DocsChecked
  /\ head \in Nat /\ pos \in Nat
  /\ blocks \in Seq(BlockType) /\ Exact(blocks)
  /\ op = NoRead \/ Reading(op, pos, Cached, Table, Total, alien)
  /\ ReadIsExact

\* What the invariant says of the file and the cache is kept by every step that
\* leaves them alone.
LEMMA ReaderKept ==
    ASSUME ReaderInv, UNCHANGED <<real, alien, head, blocks>>,
           reference' \in [Messages -> Nat], docs' \in [Messages -> Nat], DocsChecked',
           pos' \in Nat, op' = NoRead \/ Reading(op', pos', Cached, Table, Total, alien),
           ReadIsExact'
    PROVE  ReaderInv'
<1>1. RealType /\ AlienType /\ head \in Nat /\ blocks \in Seq(BlockType) /\ Exact(blocks)
  BY DEF ReaderInv
<1>2. RealType' /\ AlienType' /\ (head \in Nat)' /\ (blocks \in Seq(BlockType))'
  BY <1>1 DEF RealType, AlienType
<1>3. Exact(blocks)'
  BY <1>1
<1>4. Cached' = Cached
  BY DEF Cached
<1>5. Sizes' = Sizes
  BY DEF Sizes
<1>6. Table' = Table /\ Total' = Total
  BY <1>5 DEF Table, Total
<1>7. op' = NoRead \/ Reading(op', pos', Cached', Table', Total', alien')
  BY <1>4, <1>6
<1> QED BY <1>2, <1>3, <1>7 DEF ReaderInv

LEMMA AnswerKept ==
    ASSUME ReadIsExact, answer' = answer \/ answer' = NoAnswer
    PROVE  ReadIsExact'
<1>1. FileSlice(0, 0) = <<>>
  <2>1. 0 \in Nat
    OBVIOUS
  <2> QED BY <2>1, FileFacts, SliceNone DEF FileSlice
<1>2. CASE answer' = answer
  BY <1>2 DEF ReadIsExact
<1>3. CASE answer' = NoAnswer
  BY <1>1, <1>3 DEF ReadIsExact, NoAnswer
<1> QED BY <1>2, <1>3

LEMMA NeededFacts ==
    ASSUME NEW from \in Nat, NEW end \in Nat
    PROVE  /\ Needed(from, end) \in SUBSET (0 .. end) /\ Needed(from, end) \in SUBSET Nat
           /\ \A i \in Needed(from, end) : i * BLOCK_SIZE < end
<1> DEFINE B == BLOCK_SIZE
<1>1. B \in Nat \ {0}
  BY AssumedFacts
<1> SUFFICES ASSUME NEW i \in Needed(from, end)
             PROVE  i \in Nat /\ i <= end /\ i * BLOCK_SIZE < end
  OBVIOUS
<1>2. from < end /\ end - 1 \in Nat /\ i \in from \div B .. (end - 1) \div B
  BY DEF Needed
<1> DEFINE d == (end - 1) \div B
           r == (end - 1) % B
           f == from \div B
<1>3. d \in Nat /\ r \in Nat /\ end - 1 = B * d + r /\ f \in Nat
  BY <1>1, <1>2, Division
<1>4. i \in f .. d
  BY <1>2
<1> HIDE DEF d, r, f
<1> DEFINE k == d - i
<1>5. i \in Nat /\ k \in Nat /\ d = i + k
  BY <1>3, <1>4
<1> HIDE DEF k, B
<1>6. B * d = i * B + k * B /\ i * B \in Nat /\ k * B \in Nat
  <2>1. B * d = d * B
    BY <1>1, <1>3, Products
  <2>2. (i + k) * B = i * B + k * B /\ i * B \in Nat /\ k * B \in Nat
    BY <1>1, <1>5, Distributes, Products
  <2> QED BY <1>5, <2>1, <2>2
<1>7. i <= i * B
  BY <1>1, <1>5
<1> DEFINE u == i * B
           v == k * B
           w == B * d
<1>8. u \in Nat /\ v \in Nat /\ w = u + v /\ end - 1 = w + r /\ i <= u
  BY <1>3, <1>6, <1>7
<1> HIDE DEF u, v, w
<1>9. u < end /\ i <= end
  BY <1>3, <1>5, <1>8
<1> QED BY <1>5, <1>9 DEF u, B

\* A read begins: every block it needs is cached or in a run.
LEMMA BeginKeeps ==
    ASSUME ReaderInv, NEW offset \in Nat, NEW want \in Nat, ReadBegin(offset, want)
    PROVE  ReaderInv'
<1> DEFINE d == Min({want, Total - offset})
           size == Max({0, d})
           end == offset + size
           e == Min({end, head, Total})
           take == Max({0, e - offset})
           from == offset + take
           all == IF from < end THEN from \div BLOCK_SIZE .. (end - 1) \div BLOCK_SIZE ELSE {}
           missing == all \ Cached
           new == [pc |-> "fetch", want |-> want, from |-> from, end |-> end, doc |-> 0,
                   retried |-> FALSE, runs |-> Runs(missing), done |-> <<>>, all |-> all]
<1>1. /\ size > 0 /\ pos' = offset /\ answer' = NoAnswer
      /\ UNCHANGED <<real, alien, reference, docs, head, blocks>>
  BY DEF ReadBegin
<1>2. op' = new
  BY DEF ReadBegin
<1>3. RealType /\ Total \in Nat /\ head \in Nat
  BY SizesFacts DEF ReaderInv
<1>4. d = (IF want <= Total - offset THEN want ELSE Total - offset) /\ d \in Int
  BY <1>3, MinTwo
<1> HIDE DEF d
<1>5. size = IF 0 <= d THEN d ELSE 0
  BY <1>4, MaxTwo
<1> HIDE DEF size
<1>6. size \in Nat /\ size <= want /\ offset + size <= Total /\ (size = want \/ offset + size = Total)
  BY <1>1, <1>3, <1>4, <1>5
<1>7. end \in Nat /\ end <= Total /\ end <= offset + want /\ (end = offset + want \/ end = Total) /\ offset <= end
  BY <1>3, <1>6
<1> HIDE DEF end
<1>8. e \in Int /\ e <= end
  <2>1. end \in Int /\ head \in Int /\ Total \in Int
    BY <1>3, <1>7
  <2> QED BY <2>1, MinThree
<1> HIDE DEF e
<1>9. e - offset \in Int /\ take = IF 0 <= e - offset THEN e - offset ELSE 0
  <2>1. e - offset \in Int
    BY <1>8
  <2> QED BY <2>1, MaxTwo
<1> HIDE DEF take
<1>10. from \in Nat /\ offset <= from /\ from <= end
  BY <1>7, <1>8, <1>9
<1> HIDE DEF from
<1>11. all = Needed(from, end)
  BY DEF Needed
<1> HIDE DEF all
<1>12. /\ missing \in SUBSET (0 .. end) /\ all \in SUBSET Nat
       /\ \A i \in missing : i * BLOCK_SIZE < Total
  <2>1. /\ all \in SUBSET (0 .. end) /\ all \in SUBSET Nat
        /\ \A i \in all : i * BLOCK_SIZE < end
    BY <1>7, <1>10, <1>11, NeededFacts
  <2>2. ASSUME NEW i \in missing PROVE i * BLOCK_SIZE < Total
    <3>1. i \in Nat /\ i * BLOCK_SIZE < end /\ BLOCK_SIZE \in Nat
      BY <2>1, AssumedFacts
    <3>2. i * BLOCK_SIZE \in Nat
      BY <3>1, Products
    <3> DEFINE u == i * BLOCK_SIZE
    <3>3. u \in Nat /\ u < end
      BY <3>1, <3>2
    <3> HIDE DEF u
    <3>4. u < Total
      BY <1>3, <1>7, <3>3
    <3> QED BY <3>4 DEF u
  <2> QED BY <2>1, <2>2
<1>13. /\ Runs(missing) \in Seq(RunType)
       /\ \A k \in 1 .. Len(Runs(missing)) : RunOK(Runs(missing)[k], Table, Total)
       /\ \A i \in missing : Within(i, Runs(missing))
  <2> HIDE DEF missing
  <2> QED BY <1>3, <1>7, <1>12, RunsFacts DEF Within
<1>14. new \in OpType
  <2>1. <<>> \in Seq(RunType)
    OBVIOUS
  <2> HIDE DEF missing
  <2> QED BY <1>7, <1>10, <1>12, <1>13, <2>1 DEF OpType
<1>15. /\ new.from = from /\ new.end = end /\ new.want = want /\ new.all = all
       /\ new.runs = Runs(missing) /\ new.done = <<>> /\ new.pc = "fetch"
  OBVIOUS
<1>16. \A i \in all : i \in Cached \/ Within(i, Runs(missing))
  BY <1>13
<1> HIDE DEF new, missing
<1>17. Ranges(new, offset, Total)
  BY <1>7, <1>10, <1>11, <1>15 DEF Ranges
<1>18. Gathers(new, Cached, Table, Total)
  <2>1. \A k \in 1 .. Len(new.done) : DoneOK(new.done[k])
    BY <1>15
  <2> QED BY <1>13, <1>15, <1>16, <2>1 DEF Gathers
<1>19. Checked(new, alien)
  BY <1>15 DEF Checked
<1>20. Reading(op', pos', Cached, Table, Total, alien)
  BY <1>1, <1>2, <1>14, <1>17, <1>18, <1>19 DEF Reading
<1>21. ReadIsExact'
  BY <1>1, AnswerKept DEF ReaderInv
<1>22. reference' \in [Messages -> Nat] /\ docs' \in [Messages -> Nat] /\ DocsChecked'
  BY <1>1 DEF ReaderInv, DocsChecked
<1> QED BY <1>1, <1>20, <1>21, <1>22, ReaderKept

-----------------------------------------------------------------------------
(* The steps of a read *)

\* The media of another file is not taken for this one.
LEMMA Honest ==
    ASSUME ~AlienFits, RealType, AlienType, NEW m \in DOMAIN Table, IsExpected(m)
    PROVE  m \notin alien
<1> SUFFICES ASSUME m \in alien PROVE FALSE
  OBVIOUS
<1>1. m = Len(Recorded)
  BY DEF AlienType
<1>2. Table[m].size \in {Recorded[Len(Recorded)], Actual[Len(Recorded)]}
  BY <1>1, TableFacts
<1>3. SizeConfirms(Table[m].size, AlienSize)
  BY DEF IsExpected, MediaSize
<1> QED BY <1>2, <1>3 DEF AlienFits

\* The piece that is read next is one of the table.
LEMMA PieceNow ==
    ASSUME ReaderInv, op.pc # "idle", op.runs # <<>>
    PROVE  /\ op \in OpType /\ op # NoRead /\ Reading(op, pos, Cached, Table, Total, alien)
           /\ Len(op.runs) \in Nat \ {0} /\ Head(op.runs) = op.runs[1]
           /\ RunOK(op.runs[1], Table, Total)
           /\ Piece = Head(op.runs[1].pieces)
           /\ Piece.message \in DOMAIN Table /\ Piece.message \in Messages
<1>1. op # NoRead
  BY DEF NoRead
<1>2. Reading(op, pos, Cached, Table, Total, alien) /\ op \in OpType
  BY <1>1 DEF ReaderInv, Reading
<1>3. op.runs \in Seq(RunType)
  BY <1>2 DEF OpType
<1>4. Len(op.runs) \in Nat \ {0} /\ Head(op.runs) = op.runs[1]
  BY <1>3
<1>5. RunOK(op.runs[1], Table, Total)
  <2>1. 1 \in 1 .. Len(op.runs)
    BY <1>4
  <2> QED BY <1>2, <2>1 DEF Reading, Gathers
<1>6. Piece = Head(op.runs[1].pieces)
  BY <1>4 DEF Piece
<1>7. PICK x \in Nat : Chain(op.runs[1].pieces, x, Stop(op.runs[1], Total), Table)
  BY <1>5 DEF RunOK
<1>8. PieceOK(Piece, Table)
  BY <1>6, <1>7, ChainTail
<1>9. Piece.message \in DOMAIN Table /\ Piece.message \in Messages
  BY <1>8 DEF PieceOK, PieceType
<1> QED BY <1>1, <1>2, <1>4, <1>5, <1>6, <1>9

\* A step on which only pc, doc and retried of the read change.
LEMMA StepKeeps ==
    ASSUME NEW o, NEW p, NEW C, NEW T, NEW z, NEW A, Reading(o, p, C, T, z, A),
           NEW w, w \in OpType, w.want = o.want, w.from = o.from, w.end = o.end, w.all = o.all,
           w.runs = o.runs, w.done = o.done, Checked(w, A)
    PROVE  Reading(w, p, C, T, z, A)
<1>1. Ranges(w, p, z)
  BY DEF Reading, Ranges
<1>2. Gathers(w, C, T, z)
  BY DEF Reading, Gathers
<1> QED BY <1>1, <1>2 DEF Reading

\* The document of the piece is known: from the cache, from Telegram or stored.
LEMMA DocKeeps ==
    ASSUME ReaderInv, ~AlienFits, DocCached \/ DocFetch \/ DocStore \/ ReferenceExpired
    PROVE  ReaderInv'
<1> DEFINE m == Piece.message
<1>1. op.pc # "idle" /\ op.runs # <<>>
  <2>1. CASE DocCached
    BY <2>1 DEF DocCached, Fetching
  <2>2. CASE DocFetch
    BY <2>2 DEF DocFetch, Fetching
  <2>3. ASSUME op.pc \in {"store", "read"} PROVE op.pc # "idle" /\ op.runs # <<>>
    <3>1. op # NoRead
      BY <2>3 DEF NoRead
    <3> QED BY <2>3, <3>1 DEF ReaderInv, Reading, Checked
  <2> QED BY <2>1, <2>2, <2>3 DEF DocStore, ReferenceExpired
<1>2. /\ op \in OpType /\ Reading(op, pos, Cached, Table, Total, alien)
      /\ m \in DOMAIN Table /\ m \in Messages
  BY <1>1, PieceNow
<1>3. /\ RealType /\ AlienType /\ DocsChecked /\ ReadIsExact /\ pos \in Nat
      /\ reference \in [Messages -> Nat] /\ docs \in [Messages -> Nat]
  BY DEF ReaderInv
<1>4. reference[m] \in Nat /\ docs[m] \in Nat /\ op.doc \in Nat /\ op.runs # <<>>
  BY <1>1, <1>2, <1>3 DEF OpType
<1>5. m = Head(Head(op.runs).pieces).message
  BY DEF Piece
<1>6. (op.pc \in {"store", "read"}) => m \notin alien
  BY <1>2, <1>5 DEF Reading, Checked
<1>7. answer' = answer /\ UNCHANGED <<real, alien, reference, head, pos, blocks>>
  BY DEF DocCached, DocFetch, DocStore, ReferenceExpired
<1>8. ReadIsExact'
  BY <1>3, <1>7, AnswerKept
<1> HIDE DEF m
<1>9. ASSUME NEW pc \in {"store", "read", "refresh"}, NEW doc \in Nat, NEW retried \in BOOLEAN,
             op' = [op EXCEPT !.pc = pc, !.doc = doc, !.retried = retried],
             pc \in {"store", "read"} => m \notin alien
      PROVE  Reading(op', pos', Cached, Table, Total, alien)
  <2>1. /\ op' \in OpType /\ op'.pc = pc /\ op'.want = op.want /\ op'.from = op.from
        /\ op'.end = op.end /\ op'.all = op.all /\ op'.runs = op.runs /\ op'.done = op.done
    BY <1>2, <1>9 DEF OpType
  <2>2. Checked(op', alien)
    BY <1>4, <1>5, <1>9, <2>1 DEF Checked
  <2> QED BY <1>2, <1>7, <2>1, <2>2, StepKeeps
<1>10. op.retried \in BOOLEAN
  BY <1>2 DEF OpType
<1>11. CASE DocCached
  <2>1. op' = [op EXCEPT !.pc = "read", !.doc = docs[m], !.retried = op.retried]
    BY <1>2, <1>11 DEF DocCached, Step, OpType, m
  <2>2. m \notin alien
    BY <1>2, <1>3, <1>11 DEF DocCached, DocsChecked, m
  <2>3. Reading(op', pos', Cached, Table, Total, alien)
    BY <1>4, <1>9, <1>10, <2>1, <2>2
  <2>4. reference' \in [Messages -> Nat] /\ docs' \in [Messages -> Nat] /\ DocsChecked'
    BY <1>3, <1>7, <1>11 DEF DocCached, DocsChecked
  <2> QED BY <1>3, <1>7, <1>8, <2>3, <2>4, ReaderKept
<1>12. CASE DocFetch
  <2>1. op' = [op EXCEPT !.pc = "store", !.doc = reference[m], !.retried = op.retried]
    BY <1>2, <1>12 DEF DocFetch, Step, OpType, m
  <2>2. m \notin alien
    <3>1. IsExpected(m)
      BY <1>12 DEF DocFetch, m
    <3> QED BY <1>2, <1>3, <3>1, Honest
  <2>3. Reading(op', pos', Cached, Table, Total, alien)
    BY <1>4, <1>9, <1>10, <2>1, <2>2
  <2>4. reference' \in [Messages -> Nat] /\ docs' \in [Messages -> Nat] /\ DocsChecked'
    BY <1>3, <1>7, <1>12 DEF DocFetch, DocsChecked
  <2> QED BY <1>3, <1>7, <1>8, <2>3, <2>4, ReaderKept
<1>13. CASE DocStore
  <2>1. op.pc = "store" /\ docs' = [docs EXCEPT ![m] = op.doc]
    BY <1>13 DEF DocStore, m
  <2>2. op' = [op EXCEPT !.pc = "read", !.doc = op.doc, !.retried = op.retried]
    BY <1>2, <1>13 DEF DocStore, Step, OpType
  <2>3. m \notin alien
    BY <1>6, <2>1
  <2>4. Reading(op', pos', Cached, Table, Total, alien)
    BY <1>4, <1>9, <1>10, <2>2, <2>3
  <2>5. reference' \in [Messages -> Nat] /\ docs' \in [Messages -> Nat]
    BY <1>3, <1>4, <1>7, <2>1
  <2>6. DocsChecked'
    BY <1>2, <1>3, <1>7, <2>1, <2>3 DEF DocsChecked
  <2> QED BY <1>3, <1>7, <1>8, <2>4, <2>5, <2>6, ReaderKept
<1>14. CASE ReferenceExpired
  <2>1. op' = [op EXCEPT !.pc = "refresh", !.doc = op.doc, !.retried = TRUE]
    BY <1>2, <1>14 DEF ReferenceExpired, Step, OpType
  <2>2. Reading(op', pos', Cached, Table, Total, alien)
    BY <1>4, <1>9, <2>1
  <2>3. reference' \in [Messages -> Nat] /\ docs' \in [Messages -> Nat] /\ DocsChecked'
    BY <1>3, <1>7, <1>14 DEF ReferenceExpired, DocsChecked
  <2> QED BY <1>3, <1>7, <1>8, <2>2, <2>3, ReaderKept
<1> QED BY <1>11, <1>12, <1>13, <1>14

\* The read raises; Telegram and the other readers of the account.
LEMMA OthersKeep ==
    ASSUME ReaderInv, ~AlienFits,
           ReadRaises \/ \E m \in Messages : Expires(m) \/ DocLapses(m) \/ OtherStores(m)
    PROVE  ReaderInv'
<1>1. /\ RealType /\ AlienType /\ DocsChecked /\ ReadIsExact /\ pos \in Nat
      /\ reference \in [Messages -> Nat] /\ docs \in [Messages -> Nat]
      /\ op = NoRead \/ Reading(op, pos, Cached, Table, Total, alien)
  BY DEF ReaderInv
<1>2. answer' = answer /\ UNCHANGED <<real, alien, head, pos, blocks>>
  BY DEF ReadRaises, Expires, DocLapses, OtherStores
<1>3. ReadIsExact'
  BY <1>1, <1>2, AnswerKept
<1>4. op' = NoRead \/ Reading(op', pos', Cached, Table, Total, alien)
  BY <1>1, <1>2 DEF ReadRaises, Expires, DocLapses, OtherStores
<1>5. reference' \in [Messages -> Nat] /\ docs' \in [Messages -> Nat] /\ DocsChecked'
  <2>1. CASE ReadRaises
    BY <1>1, <2>1 DEF ReadRaises, DocsChecked
  <2>2. ASSUME NEW m \in Messages, Expires(m)
        PROVE  reference' \in [Messages -> Nat] /\ docs' \in [Messages -> Nat] /\ DocsChecked'
    BY <1>1, <2>2 DEF Expires, DocsChecked
  <2>3. ASSUME NEW m \in Messages, DocLapses(m)
        PROVE  reference' \in [Messages -> Nat] /\ docs' \in [Messages -> Nat] /\ DocsChecked'
    BY <1>1, <2>3 DEF DocLapses, DocsChecked
  <2>4. ASSUME NEW m \in Messages, OtherStores(m)
        PROVE  reference' \in [Messages -> Nat] /\ docs' \in [Messages -> Nat] /\ DocsChecked'
    <3>1. PICK v \in 1 .. reference[m] : docs' = [docs EXCEPT ![m] = v]
      BY <2>4 DEF OtherStores
    <3>2. v \in Nat /\ reference' = reference /\ alien' = alien
      BY <1>1, <2>4, <3>1 DEF OtherStores
    <3>3. m \notin alien
      BY <1>1, <2>4, Honest DEF OtherStores
    <3> QED BY <1>1, <3>1, <3>2, <3>3 DEF DocsChecked
  <2> QED BY <2>1, <2>2, <2>3, <2>4
<1> QED BY <1>1, <1>2, <1>3, <1>4, <1>5, ReaderKept

LEMMA HeadReplaced ==
    ASSUME NEW S, NEW q \in Seq(S), q # <<>>, NEW r \in S
    PROVE  /\ <<r>> \o Tail(q) \in Seq(S) /\ Len(<<r>> \o Tail(q)) = Len(q)
           /\ (<<r>> \o Tail(q))[1] = r
           /\ \A k \in 2 .. Len(q) : (<<r>> \o Tail(q))[k] = q[k]
<1> DEFINE t == Tail(q)
           w == <<r>> \o t
<1>1. Len(q) \in Nat /\ Len(q) # 0
  OBVIOUS
<1>2. t \in Seq(S) /\ Len(t) = Len(q) - 1
  OBVIOUS
<1>3. \A k \in 1 .. Len(q) - 1 : t[k] = q[k + 1]
  OBVIOUS
<1>4. <<r>> \in Seq(S) /\ Len(<<r>>) = 1 /\ <<r>>[1] = r
  OBVIOUS
<1> HIDE DEF t
<1>5. w \in Seq(S) /\ Len(w) = Len(q)
  BY <1>1, <1>2, <1>4
<1>6. w[1] = r
  BY <1>2
<1>7. ASSUME NEW k \in 2 .. Len(q) PROVE w[k] = q[k]
  <2>1. k - 1 \in 1 .. Len(q) - 1 /\ (k - 1) + 1 = k /\ k \in 1 .. Len(w) /\ k > 1
    BY <1>1, <1>5
  <2>2. w[k] = t[k - 1]
    BY <1>2, <1>5, <2>1
  <2> QED BY <1>3, <2>1, <2>2
<1> QED BY <1>5, <1>6, <1>7 DEF t

\* The requests of a piece were answered.
LEMMA PieceReadKeeps ==
    ASSUME ReaderInv, PieceRead
    PROVE  ReaderInv'
<1> DEFINE run == Head(op.runs)
           data == run.data \o DocRead(Piece.message, Piece.inner, Piece.n)
           more == [run EXCEPT !.pieces = Tail(run.pieces), !.data = data]
           over == [run EXCEPT !.pieces = <<>>, !.data = data]
           next == [[op EXCEPT !.pc = "fetch"] EXCEPT !.doc = 0, !.retried = FALSE]
<1>1. op.pc = "read" /\ answer' = answer /\ UNCHANGED <<real, alien, reference, docs, head, pos, blocks>>
  BY DEF PieceRead
<1>2. op' = IF Len(run.pieces) > 1
            THEN [next EXCEPT !.runs = <<more>> \o Tail(op.runs)]
            ELSE [next EXCEPT !.runs = Tail(op.runs), !.done = Append(op.done, over)]
  <2>1. op' = IF Len(run.pieces) > 1
              THEN [next EXCEPT !.runs = <<more>> \o Tail(op.runs)]
              ELSE [next EXCEPT !.runs = Tail(@), !.done = Append(@, over)]
    BY DEF PieceRead, Step
  <2>2. op \in OpType
    <3>1. op # NoRead
      BY <1>1 DEF NoRead
    <3> QED BY <3>1 DEF ReaderInv, Reading
  <2>3. next.runs = op.runs /\ next.done = op.done
    BY <2>2 DEF OpType
  <2> HIDE DEF next, more, over, run
  <2> QED BY <2>1, <2>3
<1>3. op.runs # <<>> /\ op.pc # "idle"
  <2>1. op # NoRead
    BY <1>1 DEF NoRead
  <2> QED BY <1>1, <2>1 DEF ReaderInv, Reading, Checked
<1>4. /\ op \in OpType /\ Reading(op, pos, Cached, Table, Total, alien)
      /\ Len(op.runs) \in Nat \ {0} /\ run = op.runs[1]
      /\ RunOK(op.runs[1], Table, Total)
      /\ Piece = Head(run.pieces)
  BY <1>3, PieceNow
<1>5. Piece.message \notin alien
  BY <1>1, <1>4 DEF Reading, Checked
<1>6. RealType /\ AlienType /\ DocsChecked /\ ReadIsExact /\ pos \in Nat
      /\ reference \in [Messages -> Nat] /\ docs \in [Messages -> Nat]
  BY DEF ReaderInv
<1>7. /\ Len(run.pieces) > 1 => RunOK(more, Table, Total)
      /\ ~(Len(run.pieces) > 1) => DoneOK(over)
  <2> HIDE DEF run, data
  <2>1. RunOK(run, Table, Total) /\ Head(run.pieces).message \notin alien
    BY <1>4, <1>5
  <2>2. data = run.data \o DocRead(Head(run.pieces).message, Head(run.pieces).inner, Head(run.pieces).n)
    BY <1>4 DEF data
  <2> QED BY <1>6, <2>1, <2>2, PieceFacts
<1>8. run \in RunType
  BY <1>4 DEF RunOK
<1>9. /\ more.first = run.first /\ more.last = run.last
      /\ over.first = run.first /\ over.last = run.last
  <2> HIDE DEF run, data
  <2> QED BY <1>8 DEF RunType
<1>10. /\ next \in OpType /\ next.pc = "fetch" /\ next.want = op.want /\ next.from = op.from
       /\ next.end = op.end /\ next.all = op.all /\ next.runs = op.runs /\ next.done = op.done
  BY <1>4 DEF OpType
<1>11. op.runs \in Seq(RunType) /\ op.done \in Seq(RunType) /\ Len(op.done) \in Nat
  BY <1>4 DEF OpType
<1>12. /\ \A k \in 1 .. Len(op.runs) : RunOK(op.runs[k], Table, Total)
       /\ \A k \in 1 .. Len(op.done) : DoneOK(op.done[k])
       /\ \A i \in op.all : i \in Cached \/ Within(i, op.runs) \/ Within(i, op.done)
       /\ Ranges(op, pos, Total)
  BY <1>4 DEF Reading, Gathers
<1> HIDE DEF run, data, more, over, next
<1> DEFINE n == Len(op.runs)
<1>13. CASE Len(run.pieces) > 1
  <2> DEFINE q == <<more>> \o Tail(op.runs)
  <2>1. op' = [next EXCEPT !.runs = q]
    BY <1>2, <1>13
  <2>2. RunOK(more, Table, Total) /\ more \in RunType
    BY <1>7, <1>13 DEF RunOK
  <2>3. q \in Seq(RunType) /\ Len(q) = n /\ q[1] = more /\ \A k \in 2 .. n : q[k] = op.runs[k]
    BY <1>3, <1>11, <2>2, HeadReplaced
  <2> HIDE DEF q
  <2>4. /\ op' \in OpType /\ op'.pc = "fetch" /\ op'.want = op.want /\ op'.from = op.from
        /\ op'.end = op.end /\ op'.all = op.all /\ op'.runs = q /\ op'.done = op.done
    BY <1>10, <2>1, <2>3 DEF OpType
  <2>5. \A k \in 1 .. n : k = 1 \/ k \in 2 .. n
    BY <1>4
  <2> HIDE DEF n
  <2>6. \A k \in 1 .. n : RunOK(q[k], Table, Total)
    BY <1>12, <2>2, <2>3, <2>5 DEF n
  <2>7. \A k \in 1 .. n : q[k].first = op.runs[k].first /\ q[k].last = op.runs[k].last
    BY <1>4, <1>9, <2>3, <2>5
  <2>8. \A i : Within(i, op.runs) => Within(i, q)
    BY <2>3, <2>7 DEF Within, n
  <2>9. Gathers(op', Cached, Table, Total)
    BY <1>12, <2>3, <2>4, <2>6, <2>8 DEF Gathers
  <2>10. Ranges(op', pos, Total)
    BY <1>12, <2>4 DEF Ranges
  <2>11. Checked(op', alien)
    BY <2>4 DEF Checked
  <2> QED BY <2>4, <2>9, <2>10, <2>11, <1>1, <1>6, AnswerKept, ReaderKept DEF Reading, DocsChecked
<1>14. CASE ~(Len(run.pieces) > 1)
  <2> DEFINE q == Tail(op.runs)
             d == Append(op.done, over)
             l == Len(op.done)
  <2>1. op' = [next EXCEPT !.runs = q, !.done = d]
    BY <1>2, <1>14
  <2>2. DoneOK(over) /\ over \in RunType
    BY <1>7, <1>14 DEF DoneOK
  <2>3. q \in Seq(RunType) /\ Len(q) = n - 1 /\ \A k \in 1 .. n - 1 : q[k] = op.runs[k + 1]
    BY <1>3, <1>11
  <2>4. /\ d \in Seq(RunType) /\ Len(d) = l + 1 /\ d[l + 1] = over
        /\ \A k \in 1 .. l : d[k] = op.done[k]
    BY <1>11, <2>2
  <2> HIDE DEF q, d
  <2>5. /\ op' \in OpType /\ op'.pc = "fetch" /\ op'.want = op.want /\ op'.from = op.from
        /\ op'.end = op.end /\ op'.all = op.all /\ op'.runs = q /\ op'.done = d
    BY <1>10, <2>1, <2>3, <2>4 DEF OpType
  <2>6. n \in Nat \ {0} /\ l \in Nat
    BY <1>4, <1>11
  <2> HIDE DEF n, l
  <2>7. \A k \in 1 .. n - 1 : k + 1 \in 1 .. n
    BY <2>6
  <2>8. \A k \in 1 .. Len(q) : RunOK(q[k], Table, Total)
    BY <1>12, <2>3, <2>7 DEF n
  <2>9. \A k \in 1 .. l + 1 : k = l + 1 \/ k \in 1 .. l
    BY <2>6
  <2>10. \A k \in 1 .. Len(d) : DoneOK(d[k])
    BY <1>12, <2>2, <2>4, <2>9 DEF l
  <2>11. ASSUME NEW i, Within(i, op.done) PROVE Within(i, d)
    <3>1. PICK k \in 1 .. l : i \in op.done[k].first .. op.done[k].last
      BY <2>11 DEF Within, l
    <3>2. k \in 1 .. Len(d)
      BY <2>4, <2>6
    <3> QED BY <2>4, <3>1, <3>2 DEF Within
  <2>12. ASSUME NEW i, Within(i, op.runs) PROVE Within(i, q) \/ Within(i, d)
    <3>1. PICK k \in 1 .. n : i \in op.runs[k].first .. op.runs[k].last
      BY <2>12 DEF Within, n
    <3>2. CASE k = 1
      <4>1. l + 1 \in 1 .. Len(d)
        BY <2>4, <2>6
      <4>2. i \in d[l + 1].first .. d[l + 1].last
        BY <1>4, <1>9, <2>4, <3>1, <3>2
      <4> QED BY <4>1, <4>2 DEF Within
    <3>3. CASE k # 1
      <4>1. k - 1 \in 1 .. n - 1 /\ (k - 1) + 1 = k
        BY <2>6, <3>3
      <4>2. q[k - 1] = op.runs[k]
        BY <2>3, <4>1
      <4> QED BY <2>3, <3>1, <4>1, <4>2 DEF Within
    <3> QED BY <3>2, <3>3
  <2>13. Gathers(op', Cached, Table, Total)
    BY <1>12, <2>5, <2>8, <2>10, <2>11, <2>12 DEF Gathers
  <2>14. Ranges(op', pos, Total)
    BY <1>12, <2>5 DEF Ranges
  <2>15. Checked(op', alien)
    BY <2>5 DEF Checked
  <2> QED BY <2>5, <2>13, <2>14, <2>15, <1>1, <1>6, AnswerKept, ReaderKept DEF Reading, DocsChecked
<1> QED BY <1>13, <1>14

-----------------------------------------------------------------------------
(* The end of a read *)

\* What the cache keeps of the blocks that were used.
LEMMA RememberFacts ==
    ASSUME blocks \in Seq(BlockType), Exact(blocks), NEW n \in Nat, NEW found,
           DOMAIN found \in SUBSET (0 .. n), \A i \in DOMAIN found : found[i] = Block(i)
    PROVE  Remember(found) \in Seq(BlockType) /\ Exact(Remember(found))
<1> DEFINE D == DOMAIN found
           new == {i \in D : found[i] # <<>>}
           used == InOrder(new)
           L == Len(blocks)
           old == {i \in DOMAIN blocks : blocks[i].index \notin new}
           kept == InOrder(old)
           K == [i \in DOMAIN kept |-> blocks[kept[i]]]
           U == [i \in DOMAIN used |-> [index |-> used[i], data |-> found[used[i]]]]
           now == K \o U
           a == Max({1, Len(now) - BLOCKS_CACHED + 1})
           ku == Cardinality(new)
           kk == Cardinality(old)
<1>1. Remember(found) = SubSeq(now, a, Len(now))
  BY DEF Remember
<1>2. L \in Nat /\ DOMAIN blocks = 1 .. L /\ \A i \in 1 .. L : blocks[i] \in BlockType
  OBVIOUS
<1>3. new \in SUBSET (0 .. n) /\ old \in SUBSET (0 .. L)
  <2>1. \A i \in 1 .. L : i \in 0 .. L
    BY <1>2
  <2> QED BY <1>2, <2>1
<1>4. \A i \in new : i \in D /\ i \in Nat
  <2>1. \A i \in D : i \in 0 .. n
    OBVIOUS
  <2> HIDE DEF D
  <2> QED BY <2>1
<1>5. \A i \in old : i \in 1 .. L
  BY <1>2
<1> HIDE DEF D, new, old, L
<1>6. ku \in Nat /\ DOMAIN used = 1 .. ku /\ \A i \in 1 .. ku : used[i] \in new
  BY <1>3, InOrderFacts
<1>7. kk \in Nat /\ DOMAIN kept = 1 .. kk /\ \A i \in 1 .. kk : kept[i] \in old
  <2>1. L \in Nat
    BY <1>2
  <2> QED BY <1>3, <2>1, InOrderFacts
<1> HIDE DEF used, kept, ku, kk
<1>8. /\ K \in Seq(BlockType) /\ Len(K) = kk
      /\ \A i \in 1 .. kk : K[i].data = Block(K[i].index)
  <2>1. \A i \in 1 .. kk : blocks[kept[i]] \in BlockType
    BY <1>2, <1>5, <1>7
  <2>2. K = [i \in 1 .. kk |-> blocks[kept[i]]]
    BY <1>7
  <2>3. \A i \in 1 .. kk : K[i] = blocks[kept[i]]
    BY <2>2
  <2>4. \A j \in 1 .. L : blocks[j].data = Block(blocks[j].index)
    BY DEF Exact, L
  <2>5. \A i \in 1 .. kk : kept[i] \in 1 .. L
    BY <1>5, <1>7
  <2> HIDE DEF K
  <2>6. \A i \in 1 .. kk : K[i].data = Block(K[i].index)
    BY <2>3, <2>4, <2>5
  <2>7. K \in Seq(BlockType) /\ Len(K) = kk
    BY <1>7, <2>1, <2>2
  <2> QED BY <2>6, <2>7
<1>9. /\ U \in Seq(BlockType) /\ Len(U) = ku
      /\ \A i \in 1 .. ku : U[i].data = Block(U[i].index)
  <2> DEFINE E(i) == [index |-> i, data |-> found[i]]
  <2>1. ASSUME NEW i \in new PROVE E(i) \in BlockType /\ E(i).data = Block(E(i).index)
    <3>1. i \in Nat /\ found[i] = Block(i)
      BY <1>4 DEF D
    <3>2. BLOCK_SIZE \in Nat \ {0}
      BY AssumedFacts
    <3>3. 0 \in Nat /\ 0 < BLOCK_SIZE
      BY <3>2
    <3>4. Block(i) \in Seq(Byte)
      BY <3>1, <3>3, BlockFacts
    <3> QED BY <3>1, <3>4 DEF BlockType
  <2>2. U = [i \in 1 .. ku |-> E(used[i])]
    BY <1>6
  <2> HIDE DEF E, U
  <2>3. \A i \in 1 .. ku : U[i] = E(used[i])
    BY <2>2
  <2>4. \A i \in 1 .. ku : U[i].data = Block(U[i].index)
    BY <1>6, <2>1, <2>3
  <2>5. \A i \in 1 .. ku : E(used[i]) \in BlockType
    BY <1>6, <2>1
  <2>6. U \in Seq(BlockType) /\ Len(U) = ku
    BY <1>6, <2>2, <2>5
  <2> QED BY <2>4, <2>6
<1> HIDE DEF K, U
<1> DEFINE l == Len(now)
<1>10. /\ now \in Seq(BlockType) /\ l = kk + ku /\ l \in Nat
       /\ \A i \in 1 .. kk : now[i] = K[i]
       /\ \A i \in 1 .. l : ~(i <= kk) => now[i] = U[i - kk] /\ i - kk \in 1 .. ku
  <2>k. /\ K \in Seq(BlockType) /\ U \in Seq(BlockType) /\ Len(K) = kk /\ Len(U) = ku
        /\ kk \in Nat /\ ku \in Nat
    BY <1>6, <1>7, <1>8, <1>9
  <2>1. now \in Seq(BlockType) /\ l = kk + ku
    BY <2>k
  <2>2. \A i \in 1 .. kk : now[i] = K[i]
    BY <2>k
  <2>3. ASSUME NEW i \in 1 .. l, ~(i <= kk) PROVE now[i] = U[i - kk] /\ i - kk \in 1 .. ku
    <3>0. i \in 1 .. kk + ku /\ ~(i <= kk) /\ kk \in Nat /\ ku \in Nat
      BY <1>6, <1>7, <2>1, <2>3
    <3>1. i - kk \in 1 .. ku /\ i > kk /\ i \in 1 .. kk + ku
      BY <3>0
    <3>2. /\ K \in Seq(BlockType) /\ U \in Seq(BlockType) /\ Len(K) = kk /\ Len(U) = ku
          /\ kk \in Nat /\ ku \in Nat
      BY <1>8, <1>9, <3>0
    <3>3. now[i] = U[i - kk]
      BY <3>1, <3>2
    <3> QED BY <3>1, <3>3
  <2>4. l \in Nat
    BY <1>6, <1>7, <2>1
  <2> QED BY <2>1, <2>2, <2>3, <2>4
<1>11. \A i \in 1 .. l : now[i].data = Block(now[i].index)
  <2> SUFFICES ASSUME NEW i \in 1 .. l PROVE now[i].data = Block(now[i].index)
    OBVIOUS
  <2>1. CASE i <= kk
    <3>1. i \in 1 .. kk
      BY <1>7, <1>10, <2>1
    <3> QED BY <1>8, <1>10, <3>1
  <2>2. CASE ~(i <= kk)
    BY <1>9, <1>10, <2>2
  <2> QED BY <2>1, <2>2
<1>12. a \in Nat \ {0}
  <2> DEFINE e == l - BLOCKS_CACHED + 1
  <2>1. e \in Int
    BY <1>10, AssumedFacts
  <2>2. a = Max({1, e})
    OBVIOUS
  <2> HIDE DEF e, a
  <2>3. a = IF 1 <= e THEN e ELSE 1
    BY <2>1, <2>2, MaxTwo
  <2> QED BY <2>1, <2>3
<1> HIDE DEF now, a
<1> DEFINE w == SubSeq(now, a, l)
<1>13. /\ w \in Seq(BlockType)
       /\ \A i \in 1 .. Len(w) : a + i - 1 \in 1 .. l /\ w[i] = now[a + i - 1]
  <2>1. l \in Nat /\ now \in Seq(BlockType) /\ l = Len(now)
    BY <1>10
  <2>2. \A i \in a .. l : i \in 1 .. Len(now)
    BY <1>12, <2>1
  <2>3. w \in Seq(BlockType) /\ Len(w) = IF a <= l THEN l - a + 1 ELSE 0
    BY <1>12, <2>1, <2>2
  <2>4. \A i \in 1 .. (l - a) + 1 : w[i] = now[a + i - 1]
    BY <1>12, <2>1
  <2> HIDE DEF w, l
  <2>5. \A i \in 1 .. Len(w) : i \in 1 .. (l - a) + 1 /\ a + i - 1 \in 1 .. l
    BY <1>12, <2>1, <2>3
  <2> QED BY <2>3, <2>4, <2>5
<1> HIDE DEF w, l
<1>14. \A i \in 1 .. Len(w) : w[i].data = Block(w[i].index)
  BY <1>11, <1>13
<1> QED BY <1>1, <1>13, <1>14 DEF Exact, w, l

\* Every block that a read has at its end is the block of the file.
LEMMA FoundFacts ==
    ASSUME ReaderInv, op.pc = "fetch", op.runs = <<>>
    PROVE  DOMAIN Found = op.all /\ \A i \in op.all : Found[i] = Block(i)
<1>1. op # NoRead
  BY DEF NoRead
<1>2. Reading(op, pos, Cached, Table, Total, alien) /\ op \in OpType
  BY <1>1 DEF ReaderInv, Reading
<1>3. DOMAIN Found = op.all
  BY DEF Found
<1>4. ASSUME NEW i \in op.all PROVE Found[i] = Block(i)
  <2>1. CASE i \in Cached
    <3> DEFINE k == CHOOSE j \in DOMAIN blocks : blocks[j].index = i
    <3>1. Found[i] = BlockOf(i)
      BY <2>1 DEF Found
    <3>2. \E j \in DOMAIN blocks : blocks[j].index = i
      BY <2>1 DEF Cached
    <3>3. k \in DOMAIN blocks /\ blocks[k].index = i
      BY <3>2
    <3>4. BlockOf(i) = blocks[k].data
      BY DEF BlockOf
    <3> HIDE DEF k
    <3>5. k \in 1 .. Len(blocks)
      BY <3>3 DEF ReaderInv
    <3>6. blocks[k].data = Block(i)
      BY <3>3, <3>5 DEF ReaderInv, Exact
    <3> QED BY <3>1, <3>4, <3>6
  <2>2. CASE i \notin Cached
    <3> DEFINE k == CHOOSE j \in DOMAIN op.done : i \in op.done[j].first .. op.done[j].last
    <3>1. Found[i] = Fetched(i)
      BY <2>2 DEF Found
    <3>2. ~Within(i, op.runs)
      BY DEF Within
    <3>3. Within(i, op.done)
      BY <1>2, <1>4, <2>2, <3>2 DEF Reading, Gathers
    <3>4. op.done \in Seq(RunType)
      BY <1>2 DEF OpType
    <3>5. DOMAIN op.done = 1 .. Len(op.done)
      BY <3>4
    <3>6. \E j \in DOMAIN op.done : i \in op.done[j].first .. op.done[j].last
      BY <3>3, <3>5 DEF Within
    <3>7. k \in DOMAIN op.done /\ i \in op.done[k].first .. op.done[k].last
      BY <3>6
    <3>8. Fetched(i) = Slice(op.done[k].data, (i - op.done[k].first) * BLOCK_SIZE, BLOCK_SIZE)
      BY DEF Fetched
    <3> HIDE DEF k
    <3>9. DoneOK(op.done[k])
      BY <1>2, <3>5, <3>7 DEF Reading, Gathers
    <3>10. Slice(op.done[k].data, (i - op.done[k].first) * BLOCK_SIZE, BLOCK_SIZE) = Block(i)
      BY <3>7, <3>9, DoneBlocks
    <3> QED BY <3>1, <3>8, <3>10
  <2> QED BY <2>1, <2>2
<1> QED BY <1>3, <1>4

LEMMA ReadEndsKeeps ==
    ASSUME ReaderInv, ReadEnds
    PROVE  ReaderInv'
<1> DEFINE lead == FileSlice(pos, op.from - pos)
           data == lead \o Assembled(Found, op.from, op.end)
<1>1. /\ op.pc = "fetch" /\ op.runs = <<>> /\ op' = NoRead
      /\ answer' = [offset |-> pos, want |-> op.want, data |-> data]
      /\ blocks' = Remember(Found) /\ pos' = pos + Len(data)
      /\ UNCHANGED <<real, alien, reference, docs, head>>
  BY DEF ReadEnds
<1>2. op # NoRead
  BY <1>1 DEF NoRead
<1>3. Reading(op, pos, Cached, Table, Total, alien) /\ op \in OpType /\ pos \in Nat /\ RealType
  BY <1>2 DEF ReaderInv, Reading
<1>4. DOMAIN Found = op.all /\ \A i \in op.all : Found[i] = Block(i)
  BY <1>1, FoundFacts
<1> DEFINE from == op.from
           end == op.end
           want == op.want
<1>5. /\ from \in Nat /\ end \in Nat /\ want \in Nat
      /\ pos <= from /\ from <= end /\ end <= Total
      /\ end <= pos + want /\ (end = pos + want \/ end = Total)
      /\ op.all = Needed(from, end)
  BY <1>3 DEF Reading, OpType, Ranges
<1>6. Total \in Nat /\ Len(File) <= Total /\ File \in Seq(Byte) /\ Len(File) \in Nat
  BY <1>3, SizesFacts, FileFacts
<1> HIDE DEF from, end, want
<1>7. Assembled(Found, from, end) = FileSlice(from, end - from)
  <2>1. from < end => \A i \in from \div BLOCK_SIZE .. (end - 1) \div BLOCK_SIZE : Found[i] = Block(i)
    BY <1>4, <1>5 DEF Needed
  <2> QED BY <1>5, <2>1, AssembledFacts
<1>8. data = FileSlice(pos, want)
  <2> DEFINE u == from - pos
             v == end - from
  <2>1. u \in Nat /\ v \in Nat /\ pos + u = from /\ u + v = end - pos
    BY <1>3, <1>5
  <2>2. data = Slice(File, pos, u) \o Slice(File, from, v)
    BY <1>7 DEF FileSlice, from, end
  <2> HIDE DEF u, v
  <2>n. File \in Seq(Byte) /\ pos \in Nat /\ u \in Nat /\ v \in Nat
    BY <1>3, <1>6, <2>1
  <2>3. Slice(File, pos, u) \o Slice(File, pos + u, v) = Slice(File, pos, u + v)
    BY <2>n, SlicesJoin
  <2>4. end - pos \in Int /\ want \in Int /\ end - pos <= want
        /\ (end - pos = want \/ Len(File) <= pos + (end - pos))
    BY <1>3, <1>5, <1>6
  <2>5. Slice(File, pos, end - pos) = Slice(File, pos, want)
    BY <1>3, <1>6, <2>4, SlicePast
  <2>6. data = Slice(File, pos, want)
    BY <2>1, <2>2, <2>3, <2>5
  <2> QED BY <2>6 DEF FileSlice
<1> HIDE DEF data
<1>9. ReadIsExact'
  <2>1. answer'.data = FileSlice(answer'.offset, answer'.want)
    BY <1>1, <1>8 DEF want
  <2> QED BY <2>1 DEF ReadIsExact
<1>10. pos' \in Nat
  <2>1. data \in Seq(Byte)
    <3>1. want \in Int
      BY <1>5
    <3> QED BY <1>3, <1>6, <1>8, <3>1, SliceType DEF FileSlice
  <2>2. Len(data) \in Nat
    BY <2>1
  <2> QED BY <1>1, <1>3, <2>2
<1>11. blocks' \in Seq(BlockType) /\ Exact(blocks')
  <2>1. op.all \in SUBSET (0 .. end)
    BY <1>5, NeededFacts
  <2>2. blocks \in Seq(BlockType) /\ Exact(blocks)
    BY DEF ReaderInv
  <2>3. Remember(Found) \in Seq(BlockType) /\ Exact(Remember(Found))
    BY <1>4, <1>5, <2>1, <2>2, RememberFacts
  <2> QED BY <1>1, <2>3
<1>12. Exact(blocks)'
  BY <1>11 DEF Exact
<1>13. RealType' /\ AlienType' /\ (head \in Nat)' /\ DocsChecked'
       /\ reference' \in [Messages -> Nat] /\ docs' \in [Messages -> Nat]
  BY <1>1 DEF ReaderInv, RealType, AlienType, DocsChecked
<1> QED BY <1>1, <1>9, <1>10, <1>11, <1>12, <1>13 DEF ReaderInv

-----------------------------------------------------------------------------
(* Every read is exact *)

LEMMA ReaderBegins ==
    ASSUME ReaderInit
    PROVE  ReaderInv
<1>1. RealType /\ AlienType /\ op = NoRead
  BY DEF ReaderInit, RealType, AlienType
<1>2. reference \in [Messages -> Nat] /\ docs \in [Messages -> Nat] /\ DocsChecked
  BY DEF ReaderInit, DocsChecked
<1>3. head \in Nat /\ pos \in Nat
  BY AssumedFacts DEF ReaderInit
<1>4. blocks \in Seq(BlockType) /\ Exact(blocks)
  BY DEF ReaderInit, Exact
<1>5. ReadIsExact
  <2>1. FileSlice(0, 0) = <<>>
    <3>1. 0 \in Nat
      OBVIOUS
    <3> QED BY <3>1, FileFacts, SliceNone DEF FileSlice
  <2> QED BY <2>1 DEF ReaderInit, ReadIsExact, NoAnswer
<1> QED BY <1>1, <1>2, <1>3, <1>4, <1>5 DEF ReaderInv

LEMMA ReaderKeeps ==
    ASSUME ReaderInv, ~AlienFits, [ReaderNext]_readerVars
    PROVE  ReaderInv'
<1>1. CASE UNCHANGED readerVars
  <2>1. UNCHANGED <<real, alien, reference, docs, head, pos, blocks, op, answer>>
    BY <1>1 DEF readerVars
  <2>2. ReadIsExact'
    BY <2>1, AnswerKept DEF ReaderInv
  <2>3. op' = NoRead \/ Reading(op', pos', Cached, Table, Total, alien)
    BY <2>1 DEF ReaderInv
  <2>4. reference' \in [Messages -> Nat] /\ docs' \in [Messages -> Nat] /\ DocsChecked' /\ pos' \in Nat
    BY <2>1 DEF ReaderInv, DocsChecked
  <2> QED BY <2>1, <2>2, <2>3, <2>4, ReaderKept
<1>2. CASE Read
  <2>1. PICK offset \in Offsets \union {pos}, want \in Wants : ReadBegin(offset, want)
    BY <1>2 DEF Read
  <2>2. offset \in Nat /\ want \in Nat
    BY <2>1, AssumedFacts DEF ReaderInv
  <2> QED BY <2>1, <2>2, BeginKeeps
<1>3. CASE ReadWindow
  <2>1. PICK offset \in 0 .. Window.size - 1, want \in Wants :
          ReadBegin(Window.start + offset, Min({want, Window.size - offset}))
    BY <1>3 DEF ReadWindow
  <2>2. Window.size \in Nat /\ Window.start \in Nat /\ want \in Nat
    BY <2>1, AssumedFacts
  <2>3. offset \in Nat /\ Window.size - offset \in Nat
    BY <2>1, <2>2
  <2>4. Window.start + offset \in Nat
    BY <2>2, <2>3
  <2>5. Min({want, Window.size - offset}) \in Nat
    <3> DEFINE d == Window.size - offset
    <3>1. d \in Nat /\ want \in Nat
      BY <2>2, <2>3
    <3> HIDE DEF d
    <3>2. Min({want, d}) = IF want <= d THEN want ELSE d
      BY <3>1, MinTwo
    <3>3. Min({want, d}) \in Nat
      BY <3>1, <3>2
    <3> QED BY <3>3 DEF d
  <2> QED BY <2>1, <2>4, <2>5, BeginKeeps
<1>4. CASE Work
  BY <1>4, DocKeeps, PieceReadKeeps, OthersKeep, ReadEndsKeeps DEF Work
<1>5. CASE \E m \in Messages : Expires(m) \/ DocLapses(m) \/ OtherStores(m)
  BY <1>5, OthersKeep
<1> QED BY <1>1, <1>2, <1>3, <1>4, <1>5 DEF ReaderNext

\* Unless the media of another file would be taken for this one (AlienFits:
\* _assert_media_id allows a document up to REQUEST_SIZE smaller), a read of any
\* length at any place, of parts, requests and blocks of any sizes, with
\* documents that expire and other readers that store old ones, returns exactly
\* the bytes of the file that it was asked for.
THEOREM ExactReads == ~AlienFits /\ ReaderSpec => []ReadIsExact
<1>1. ReaderInit => ReaderInv
  BY ReaderBegins
<1>2. ~AlienFits /\ ReaderInv /\ [ReaderNext]_readerVars => ReaderInv'
  BY ReaderKeeps
<1>3. ReaderInv => ReadIsExact
  BY DEF ReaderInv
<1>4. ASSUME ~AlienFits PROVE ReaderSpec => []ReadIsExact
  <2>1. ReaderInv /\ [ReaderNext]_readerVars => ReaderInv'
    BY <1>2, <1>4
  <2> QED BY <1>1, <1>3, <2>1, PTL DEF ReaderSpec
<1> QED BY <1>4

\* ... and so does every block that stays in the cache, whatever was evicted,
\* read again or failed in between.
THEOREM ExactBlocks == ~AlienFits /\ ReaderSpec => []CacheIsExact
<1>1. ReaderInit => ReaderInv
  BY ReaderBegins
<1>2. ~AlienFits /\ ReaderInv /\ [ReaderNext]_readerVars => ReaderInv'
  BY ReaderKeeps
<1>3. ReaderInv => CacheIsExact
  <2> SUFFICES ASSUME ReaderInv, NEW i \in DOMAIN blocks
               PROVE  blocks[i].data = FileSlice(blocks[i].index * BLOCK_SIZE, BLOCK_SIZE)
    BY DEF CacheIsExact
  <2>1. i \in 1 .. Len(blocks)
    BY DEF ReaderInv
  <2> QED BY <2>1 DEF ReaderInv, Exact, Block
<1>4. ASSUME ~AlienFits PROVE ReaderSpec => []CacheIsExact
  <2>1. ReaderInv /\ [ReaderNext]_readerVars => ReaderInv'
    BY <1>2, <1>4
  <2> QED BY <1>1, <1>3, <2>1, PTL DEF ReaderSpec
<1> QED BY <1>4
=============================================================================
