-------------------------- MODULE PlaytimeProofs ----------------------------
(***************************************************************************)
(* Proofs about Playtime, for any sessions, processes and bounds: a        *)
(* session that was saved once is never lost, and the queue counts on      *)
(* durable lines only.                                                     *)
(*                                                                         *)
(* NoSessionLost is not inductive: whether a session may leave the running *)
(* file depends on what the step that removes it has seen of the queue.    *)
(* Inv adds                                                                *)
(*   RemoveInv  a monitor that is about to remove a session has put it     *)
(*              away (FinishAppend was believed);                          *)
(*   SendInv    a record that is about to be acknowledged is counted;      *)
(*   SavedInv   only saved sessions are known anywhere;                    *)
(*   DownInv    nothing of the launcher or the sender survives in memory   *)
(*              while the bridge is down, so that nobody appends before    *)
(*              the next start has read the queue;                         *)
(* and the facts about sequences and records that these need.  The proof   *)
(* has three parts: a poll of the monitors takes no session out of the     *)
(* running file (a fold over a finite set, by induction on its subsets);   *)
(* no step un-does what was put away (QueueStep); and what leaves the      *)
(* running file was put away (StoreStep).                                  *)
(***************************************************************************)
EXTENDS Playtime, FiniteSetTheorems, SequenceTheorems, WellFoundedInduction, TLAPS

-----------------------------------------------------------------------------
(* A poll neither forgets a session nor takes one out of the running file. *)

\* The two parts of the books that say which sessions there are.
IsBooks(b) == "store" \in DOMAIN b /\ "sess" \in DOMAIN b

\* c has the sessions of b, and in the store those of b, perhaps some of X too.
Wider(b, c, X) ==
  /\ IsBooks(c) /\ DOMAIN c.sess = DOMAIN b.sess
  /\ DOMAIN b.store \subseteq DOMAIN c.store
  /\ DOMAIN c.store \subseteq DOMAIN b.store \union X

\* What claim_process and a poll may do to the books: save sessions in memory.
Grows(b, c) == Wider(b, c, DOMAIN b.sess)

\* One such change after the other is one.
LEMMA GrowsOn ==
  ASSUME NEW b, NEW c, NEW d, Grows(b, c), Grows(c, d)
  PROVE  Grows(b, d)
BY DEF Grows, Wider

\* claim_process: the sessions that lose a process are saved.
LEMMA ClaimedGrows ==
  ASSUME NEW b, IsBooks(b), NEW s, NEW R, NEW ok
  PROVE  Grows(b, Claimed(b, s, R, ok))
<1> DEFINE got == Granted(b, s, R, ok)
           left == [t \in DOMAIN b.sess |->
                 IF t = s THEN b.sess[t] ELSE [b.sess[t] EXCEPT !.pids = @ \ got]]
           lost == {t \in DOMAIN b.sess : left[t] # b.sess[t]}
           st == [t \in DOMAIN b.store \union lost |->
                    IF t \in lost THEN left[t] ELSE b.store[t]]
           c == [b EXCEPT !.sess = left, !.store = st]
<1>1. Claimed(b, s, R, ok) = c
  BY DEF Claimed
<1>2. /\ DOMAIN left = DOMAIN b.sess /\ lost \subseteq DOMAIN b.sess
      /\ DOMAIN st = DOMAIN b.store \union lost
  OBVIOUS
<1> HIDE DEF left, st, lost
<1>3. c.sess = left /\ c.store = st /\ DOMAIN c = DOMAIN b
  BY DEF IsBooks
<1> HIDE DEF c
<1> QED BY <1>1, <1>2, <1>3 DEF Grows, Wider, IsBooks

\* The second half of monitor_once saves at most the session it polls.
LEMMA AssignedWider ==
  ASSUME NEW b, IsBooks(b), NEW s, NEW cur, NEW ok
  PROVE  Wider(b, Assigned(b, s, cur, ok), {s})
<1> DEFINE seen == IF cur = {} THEN b ELSE [b EXCEPT !.alive[s] = now]
<1>1. DOMAIN seen = DOMAIN b /\ seen.sess = b.sess /\ seen.store = b.store
  BY DEF IsBooks
<1> DEFINE Saved(x) == [x EXCEPT !.store = With(@, s, x.sess[s])]
           held == [seen EXCEPT !.sess[s].pids = cur, !.empty[s] = IF cur = {} THEN 1 ELSE 0]
           beat == [seen EXCEPT !.sess[s].last = now, !.empty[s] = 0]
           more == [seen EXCEPT !.empty[s] = IF @ < 2 THEN @ + 1 ELSE 2]
           none == [seen EXCEPT !.empty[s] = 0]
<1>2. Assigned(b, s, cur, ok) \in {Saved(held), seen, more, Saved(beat), none}
  BY DEF Assigned
<1>3. /\ DOMAIN held = DOMAIN b /\ DOMAIN held.sess = DOMAIN b.sess /\ held.store = b.store
      /\ DOMAIN beat = DOMAIN b /\ DOMAIN beat.sess = DOMAIN b.sess /\ beat.store = b.store
      /\ DOMAIN more = DOMAIN b /\ more.sess = b.sess /\ more.store = b.store
      /\ DOMAIN none = DOMAIN b /\ none.sess = b.sess /\ none.store = b.store
  <2> HIDE DEF seen
  <2> QED BY <1>1 DEF IsBooks
<1>4. \A x : DOMAIN x = DOMAIN b =>
         /\ DOMAIN Saved(x) = DOMAIN b /\ Saved(x).sess = x.sess
         /\ DOMAIN Saved(x).store = DOMAIN x.store \union {s}
  BY DEF IsBooks, With
<1> HIDE DEF seen, held, beat, more, none, Saved
<1>5. /\ Wider(b, Saved(held), {s}) /\ Wider(b, Saved(beat), {s})
      /\ Wider(b, seen, {s}) /\ Wider(b, more, {s}) /\ Wider(b, none, {s})
  BY <1>1, <1>3, <1>4 DEF Wider, IsBooks
<1> QED BY <1>2, <1>5

\* A whole poll.
LEMMA PolledGrows ==
  ASSUME NEW b, IsBooks(b), NEW s \in DOMAIN b.sess
  PROVE  Grows(b, Polled(b, s))
<1> DEFINE mine == Retained(b, s, Alive)
           c == Claimed(b, s, mine, TRUE)
<1>1. Grows(b, c)
  BY ClaimedGrows
<1>2. Grows(c, Assigned(c, s, Granted(b, s, mine, TRUE), TRUE))
  <2> HIDE DEF c, mine
  <2>1. IsBooks(c) /\ s \in DOMAIN c.sess
    BY <1>1 DEF Grows, Wider, IsBooks
  <2>2. Wider(c, Assigned(c, s, Granted(b, s, mine, TRUE), TRUE), {s})
    BY <2>1, AssignedWider
  <2> QED BY <2>1, <2>2 DEF Wider, Grows, IsBooks
<1> QED BY <1>1, <1>2, GrowsOn DEF Polled

-----------------------------------------------------------------------------
\* A family of finite sets has a smallest member: induction over finite sets.
LEMMA Smallest ==
  ASSUME NEW S, NEW F, F \subseteq FiniteSubsetsOf(S), F # {}
  PROVE  \E X \in F : \A Y \in F : Y \subseteq X => Y = X
<1> DEFINE R == StrictSubsetOrdering(S)
<1>1. IsWellFoundedOn(R, FiniteSubsetsOf(S))
  BY FS_StrictSubsetOrderingWellFounded
<1> HIDE DEF R
<1>2. \E X \in F : \A Y \in F : ~(<<Y, X>> \in R)
  BY <1>1, WFMin
<1>3. \A Y, X \in SUBSET S : Y \subseteq X /\ Y # X => <<Y, X>> \in R
  BY DEF R, StrictSubsetOrdering
<1>4. F \subseteq SUBSET S
  BY DEF FiniteSubsetsOf
<1> QED BY <1>2, <1>3, <1>4

\* Subsets of finite sets are finite.
LEMMA SubsetsFinite ==
  ASSUME NEW S, NEW T \in FiniteSubsetsOf(S)
  PROVE  SUBSET T \subseteq FiniteSubsetsOf(S)
BY FS_Subset DEF FiniteSubsetsOf

\* The order in which FoldSet takes the elements of a set.
First(T) == CHOOSE s \in T : TRUE
Rest(T) == T \ {First(T)}
\* The rest of a set is a smaller one.
LEMMA RestSmaller ==
  ASSUME NEW T, T # {}
  PROVE  First(T) \in T /\ Rest(T) \subseteq T /\ Rest(T) # T
BY DEF First, Rest

\* f polls the sessions of every subset of T one after the other.
PollsOf(f, T) ==
  f = [U \in SUBSET T |-> IF U = {} THEN B ELSE Polled(f[Rest(U)], First(U))]

\* There is at most one such function.
LEMMA PollsEqual ==
  ASSUME NEW S, NEW T \in FiniteSubsetsOf(S), NEW f, NEW g, PollsOf(f, T), PollsOf(g, T)
  PROVE  f = g
<1> DEFINE D == {U \in SUBSET T : f[U] # g[U]}
<1>1. D = {}
  <2> SUFFICES ASSUME D # {} PROVE FALSE
    OBVIOUS
  <2>1. D \subseteq FiniteSubsetsOf(S)
    BY SubsetsFinite
  <2>2. PICK U \in D : \A V \in D : V \subseteq U => V = U
    <3> HIDE DEF D
    <3> QED BY <2>1, Smallest
  <2>3. f[U] = IF U = {} THEN B ELSE Polled(f[Rest(U)], First(U))
    BY <2>2 DEF PollsOf
  <2>4. g[U] = IF U = {} THEN B ELSE Polled(g[Rest(U)], First(U))
    BY <2>2 DEF PollsOf
  <2>5. U # {} => f[Rest(U)] = g[Rest(U)]
    BY <2>2, RestSmaller
  <2> QED BY <2>2, <2>3, <2>4, <2>5
<1>2. f = [U \in SUBSET T |-> f[U]] /\ g = [U \in SUBSET T |-> g[U]]
  BY DEF PollsOf
<1> QED BY <1>1, <1>2

\* It polls the subsets of a subset as well.
LEMMA PollsWithin ==
  ASSUME NEW f, NEW T, NEW U, U \subseteq T, PollsOf(f, T)
  PROVE  PollsOf([V \in SUBSET U |-> f[V]], U)
<1> DEFINE g == [V \in SUBSET U |-> f[V]]
<1>1. ASSUME NEW V \in SUBSET U
      PROVE  g[V] = IF V = {} THEN B ELSE Polled(g[Rest(V)], First(V))
  <2>1. f[V] = IF V = {} THEN B ELSE Polled(f[Rest(V)], First(V))
    BY <1>1 DEF PollsOf
  <2>2. Rest(V) \in SUBSET U
    BY <1>1 DEF Rest
  <2>3. g[V] = f[V] /\ g[Rest(V)] = f[Rest(V)]
    BY <1>1, <2>2
  <2> HIDE DEF g
  <2> QED BY <2>1, <2>3
<1> QED BY <1>1 DEF PollsOf

\* There is one.
LEMMA PollsExist == ASSUME NEW S, NEW T \in FiniteSubsetsOf(S) PROVE \E f : PollsOf(f, T)
<1> DEFINE D == {U \in FiniteSubsetsOf(S) : ~\E f : PollsOf(f, U)}
<1> SUFFICES ASSUME D # {} PROVE FALSE
  OBVIOUS
<1>1. D \subseteq FiniteSubsetsOf(S)
  OBVIOUS
<1>2. PICK U \in D : \A V \in D : V \subseteq U => V = U
  <2> HIDE DEF D
  <2> QED BY <1>1, Smallest
<1>3. SUBSET U \subseteq FiniteSubsetsOf(S)
  BY <1>2, SubsetsFinite
<1> DEFINE h(V) == CHOOSE f : PollsOf(f, V)
           Val(V) == IF V = {} THEN B ELSE Polled(h(Rest(V))[Rest(V)], First(V))
           f == [V \in SUBSET U |-> Val(V)]
<1>4. ASSUME NEW V \in SUBSET U, V # U PROVE PollsOf(h(V), V)
  BY <1>2, <1>3, <1>4
<1> HIDE DEF D, h
<1>5. ASSUME NEW V \in SUBSET U, V # U PROVE h(V)[V] = Val(V)
  <2>1. PollsOf(h(V), V)
    BY <1>4, <1>5
  <2>2. h(V)[V] = IF V = {} THEN B ELSE Polled(h(V)[Rest(V)], First(V))
    BY <2>1 DEF PollsOf
  <2>3. CASE V = {}
    BY <2>2, <2>3
  <2>4. CASE V # {}
    <3> DEFINE W == Rest(V)
               r == [X \in SUBSET W |-> h(V)[X]]
    <3>1. W \subseteq V /\ W \in SUBSET U /\ W # U
      BY <2>4, <1>5, RestSmaller
    <3>2. PollsOf(h(W), W)
      BY <3>1, <1>4
    <3>3. PollsOf(r, W)
      BY <3>1, <2>1, PollsWithin
    <3>4. W \in FiniteSubsetsOf(S)
      BY <3>1, <1>3
    <3>5. r[W] = h(V)[W]
      <4> HIDE DEF W
      <4> QED OBVIOUS
    <3> HIDE DEF W, r
    <3>6. r = h(W)
      BY <3>2, <3>3, <3>4, PollsEqual
    <3> QED BY <2>2, <2>4, <3>5, <3>6 DEF W
  <2> QED BY <2>3, <2>4
<1>6. ASSUME NEW V \in SUBSET U
      PROVE  f[V] = IF V = {} THEN B ELSE Polled(f[Rest(V)], First(V))
  <2>1. CASE V = {}
    BY <2>1
  <2>2. CASE V # {}
    <3> DEFINE W == Rest(V)
    <3>1. W # U /\ W \in SUBSET U
      BY <2>2, RestSmaller
    <3>2. h(W)[W] = Val(W)
      BY <3>1, <1>5
    <3>3. f[W] = Val(W) /\ f[V] = Val(V)
      <4> HIDE DEF Val, W
      <4> QED BY <3>1
    <3>4. f[V] = Polled(h(W)[W], First(V))
      BY <2>2, <3>3
    <3> HIDE DEF f
    <3> QED BY <2>2, <3>2, <3>3, <3>4
  <2> QED BY <2>1, <2>2
<1>7. f = [V \in SUBSET U |-> f[V]]
  <2> HIDE DEF Val
  <2> QED OBVIOUS
<1> HIDE DEF f
<1>8. PollsOf(f, U)
  BY <1>6, <1>7 DEF PollsOf
<1> QED BY <1>2, <1>8 DEF D

\* The books after launch has polled every session of the folder.
AllPolled == FoldSet(LAMBDA s, b : Polled(b, s), B, DOMAIN books.sess)

\* These polls too neither forget a session nor take one out of the file.
LEMMA PollsGrow == ASSUME IsFiniteSet(DOMAIN books.sess) PROVE Grows(B, AllPolled)
<1> DEFINE S == DOMAIN books.sess
           poll == CHOOSE f : PollsOf(f, S)
<1>1. AllPolled = poll[S]
  BY DEF AllPolled, FoldSet, MapThenFoldSet, PollsOf, First, Rest
<1>2. S \in FiniteSubsetsOf(S)
  BY DEF FiniteSubsetsOf
<1>3. PollsOf(poll, S)
  BY <1>2, PollsExist
<1> DEFINE D == {T \in SUBSET S : ~Grows(B, poll[T])}
<1> HIDE DEF poll
<1>4. D = {}
  <2> SUFFICES ASSUME D # {} PROVE FALSE
    OBVIOUS
  <2>1. D \subseteq FiniteSubsetsOf(S)
    BY <1>2, SubsetsFinite
  <2>2. PICK T \in D : \A V \in D : V \subseteq T => V = T
    <3> HIDE DEF D, S
    <3> QED BY <2>1, Smallest
  <2>3. poll[T] = IF T = {} THEN B ELSE Polled(poll[Rest(T)], First(T))
    BY <1>3, <2>2 DEF PollsOf
  <2>4. T # {}
    BY <2>2, <2>3 DEF Grows, Wider, IsBooks, B
  <2>5. Grows(B, poll[Rest(T)]) /\ First(T) \in S
    BY <2>2, <2>4, RestSmaller
  <2>6. IsBooks(poll[Rest(T)]) /\ First(T) \in DOMAIN poll[Rest(T)].sess
    BY <2>5 DEF Grows, Wider, IsBooks, B
  <2>7. Grows(B, poll[T])
    BY <2>3, <2>4, <2>5, <2>6, PolledGrows, GrowsOn
  <2> QED BY <2>2, <2>7
<1> QED BY <1>1, <1>4

-----------------------------------------------------------------------------
\* The sessions in the part of the queue that has been fsynced.
Durable == {queue[i].id : i \in 1..synced}
\* Put away: in the queue, in a file moved aside, or counted by the server.
Kept(s) == s \in Durable \/ s \in aside \/ s \in DOMAIN server
\* Append and SubSeq mean something, whatever the elements are.
IsSeq(q) == \E S : q \in Seq(S)

\* The records of the launcher, the monitors and the sender.
ShapeInv ==
  /\ "sess" \in DOMAIN books
  /\ mon = [s \in Sessions |-> mon[s]] /\ \A s \in Sessions : "pc" \in DOMAIN mon[s]
  /\ {"pc", "batch"} \subseteq DOMAIN sender
\* Only sessions that were saved are known anywhere.
SavedInv ==
  /\ IsFiniteSet(saved)
  /\ DOMAIN store \subseteq saved /\ DOMAIN books.sess \subseteq saved /\ todo \subseteq saved
  /\ \A s \in Sessions : mon[s].pc # "none" => s \in saved
\* While the bridge is down its threads are gone.
DownInv ==
  phase = "down" => /\ sender.pc = "idle" /\ launch.pc = "idle"
                    /\ \A s \in Sessions : mon[s].pc = "none"
\* An acknowledgement is for a record that the server has counted.
SendInv ==
  sender.pc = "ack" => sender.batch # <<>> /\ Head(sender.batch).id \in DOMAIN server
\* The queue, and the part of it that is on the platter.
SeqInv == IsSeq(queue) /\ synced \in 0..Len(queue)
\* A session that finish is about to remove has been put away.
RemoveInv == \A s \in Sessions : mon[s].pc = "remove" => Kept(s)
\* NoSessionLost, with Durable for the prefix of the queue.
StoreInv == \A s \in saved : s \in DOMAIN store \/ Kept(s)
\* The inductive invariant.
Inv == /\ ShapeInv /\ SavedInv /\ DownInv /\ SendInv /\ SeqInv
       /\ IndexIsDurable /\ RemoveInv /\ StoreInv

\* Append keeps every line where it is.
LEMMA AppendedSeq ==
  ASSUME NEW q, IsSeq(q), NEW r
  PROVE  /\ IsSeq(Append(q, r)) /\ Len(Append(q, r)) = Len(q) + 1
         /\ \A i \in 1..Len(q) : Append(q, r)[i] = q[i]
         /\ Append(q, r)[Len(q) + 1] = r
<1>1. PICK S : q \in Seq(S)
  BY DEF IsSeq
<1>2. q \in Seq(S \union {r}) /\ r \in S \union {r}
  BY <1>1
<1> QED BY <1>2 DEF IsSeq

\* What is left of a queue that lost its last lines.
LEMMA CutSeq ==
  ASSUME NEW q, IsSeq(q), NEW k \in 0..Len(q)
  PROVE  /\ IsSeq(SubSeq(q, 1, k)) /\ Len(SubSeq(q, 1, k)) = k
         /\ \A i \in 1..k : SubSeq(q, 1, k)[i] = q[i]
<1>1. PICK S : q \in Seq(S)
  BY DEF IsSeq
<1> QED BY <1>1 DEF IsSeq

\* An empty queue.
LEMMA EmptySeq0 == IsSeq(<<>>) /\ Len(<<>>) = 0
<1>1. <<>> \in Seq({})
  OBVIOUS
<1> QED BY <1>1 DEF IsSeq

\* ack takes out the record it was asked for, and no other one.
LEMMA RemovedSeq ==
  ASSUME NEW q, IsSeq(q), NEW id
  PROVE  IsSeq(Removed(q, id)) /\ Ids(q) \ {id} \subseteq Ids(Removed(q, id))
<1>1. PICK S : q \in Seq(S)
  BY DEF IsSeq
<1>2. CASE id \notin Ids(q)
  BY <1>2 DEF Removed
<1>3. CASE id \in Ids(q)
  <2> DEFINE i == CHOOSE i \in 1..Len(q) : q[i].id = id
             a == SubSeq(q, 1, i - 1)
             c == SubSeq(q, i + 1, Len(q))
  <2>1. i \in 1..Len(q) /\ q[i].id = id
    BY <1>3 DEF Ids
  <2> HIDE DEF i
  <2>2. /\ a \in Seq(S) /\ Len(a) = i - 1 /\ \A j \in 1..i - 1 : a[j] = q[j]
        /\ c \in Seq(S) /\ Len(c) = Len(q) - i /\ \A j \in 1..Len(q) - i : c[j] = q[i + j]
    BY <1>1, <2>1
  <2>3. Removed(q, id) = a \o c
    BY <1>3 DEF Removed, i
  <2> HIDE DEF a, c
  <2>4. /\ a \o c \in Seq(S) /\ Len(a \o c) = Len(q) - 1
        /\ \A j \in 1..Len(q) - 1 : (a \o c)[j] = IF j <= i - 1 THEN a[j] ELSE c[j - (i - 1)]
    <3>1. Len(q) \in Nat
      BY <1>1
    <3>2. /\ a \o c \in Seq(S) /\ Len(a \o c) = Len(a) + Len(c)
          /\ \A j \in 1..Len(a) + Len(c) :
                (a \o c)[j] = IF j <= Len(a) THEN a[j] ELSE c[j - Len(a)]
      BY <2>2, ConcatProperties
    <3> QED BY <2>1, <2>2, <3>1, <3>2
  <2>5. ASSUME NEW k \in 1..Len(q), q[k].id # id PROVE q[k].id \in Ids(a \o c)
    <3>1. CASE k < i
      <4>0. Len(q) \in Nat /\ i \in Nat /\ k \in Nat
        BY <1>1, <2>1
      <4>1. k \in 1..Len(q) - 1 /\ k <= i - 1 /\ k \in 1..i - 1
        BY <2>1, <3>1, <4>0
      <4>2. (a \o c)[k] = q[k]
        BY <2>2, <2>4, <4>1
      <4> QED BY <2>4, <4>1, <4>2 DEF Ids
    <3>2. CASE k > i
      <4>0. Len(q) \in Nat /\ i \in Nat /\ k \in Nat
        BY <1>1, <2>1
      <4>1. k - 1 \in 1..Len(q) - 1 /\ ~(k - 1 <= i - 1) /\ k - i \in 1..Len(q) - i
        BY <2>1, <3>2, <4>0
      <4>2. (a \o c)[k - 1] = c[k - i]
        <5> DEFINE j == k - 1
        <5>1. j \in 1..Len(q) - 1 /\ ~(j <= i - 1) /\ j - (i - 1) = k - i
          BY <4>0, <4>1
        <5> HIDE DEF j
        <5>2. (a \o c)[j] = c[j - (i - 1)]
          BY <2>4, <5>1
        <5> QED BY <5>1, <5>2 DEF j
      <4>3. c[k - i] = q[k]
        <5> DEFINE j == k - i
        <5>1. j \in 1..Len(q) - i /\ i + j = k
          BY <4>0, <4>1
        <5> HIDE DEF j
        <5>2. c[j] = q[i + j]
          BY <2>2, <5>1
        <5> QED BY <5>1, <5>2 DEF j
      <4>4. (a \o c)[k - 1].id = q[k].id
        BY <4>2, <4>3
      <4> QED BY <2>4, <4>1, <4>4 DEF Ids
    <3>3. k # i
      BY <2>1, <2>5
    <3> QED BY <1>1, <2>1, <3>1, <3>2, <3>3
  <2>6. IsSeq(a \o c)
    BY <2>4 DEF IsSeq
  <2>7. Ids(q) \ {id} \subseteq Ids(a \o c)
    BY <2>5 DEF Ids
  <2> QED BY <2>3, <2>6, <2>7
<1> QED BY <1>2, <1>3

\* The durable sessions, as NoSessionLost names them.
LEMMA DurableIds ==
  ASSUME IsSeq(queue), synced \in 0..Len(queue)
  PROVE  Ids(SubSeq(queue, 1, synced)) = Durable
BY CutSeq DEF Ids, Durable

-----------------------------------------------------------------------------
\* What a step may do to the queue and to the server.  Nothing:
Untouched == UNCHANGED <<queueVars, server>> /\ (phase' # "down" => phase # "down")
\* An append that returns;
Appends == /\ \E s, e : Appended(s, e)
           /\ UNCHANGED <<phase, server>> /\ phase # "down"
\* one that does not, which latches the queue or meets the end of the process;
Lands == /\ \E s, e : Landed(s, e)
         /\ UNCHANGED <<synced, aside, server>> /\ (failed' \/ phase' = "down")
\* a power loss;
Cuts == /\ \E k \in synced..Len(queue) : queue' = SubSeq(queue, 1, k)
        /\ UNCHANGED <<synced, torn, failed, aside, server>> /\ phase' = "down"
\* the next start;
Reopens == Reopened /\ UNCHANGED server
\* a record the server counts;
Counts == UNCHANGED <<queueVars, phase>> /\ \E r : server' = Counted(r)
\* an acknowledgement.
Drops == /\ \E id \in DOMAIN server : queue' = Removed(queue, id)
         /\ synced' = Len(queue') /\ UNCHANGED <<torn, failed, aside, server, phase>>

\* No step does anything else to them.
LEMMA QueueMoves ==
  ASSUME SendInv, DownInv, [Next]_vars
  PROVE  Untouched \/ Appends \/ Lands \/ Cuts \/ Reopens \/ Counts \/ Drops
<1> USE DEF queueVars
<1>1. CASE LaunchCheck \/ LaunchSpawn \/ \E ok \in BOOLEAN : LaunchSave(ok)
  BY <1>1 DEF LaunchCheck, LaunchSpawn, LaunchSave, Untouched
<1>2. ASSUME NEW s \in Sessions, Monitor(s)
      PROVE  Untouched \/ Appends \/ Lands
  <2>1. CASE FinishAppend(s)
    <3>1. phase # "down"
      BY <2>1 DEF FinishAppend, DownInv
    <3> QED BY <2>1, <3>1 DEF FinishAppend, AppendRaises, Untouched, Appends, Lands
  <2>2. CASE ~FinishAppend(s)
    BY <1>2, <2>2 DEF Monitor, MonSnap, MonDecide, FinishPop, MonClaim, MonAssign,
       FinishRemove,
                      Untouched
  <2> QED BY <2>1, <2>2
<1>3. CASE Send
  <2>1. CASE \E ok \in BOOLEAN : SendAck(ok)
    <3>1. Head(sender.batch).id \in DOMAIN server
      BY <2>1 DEF SendAck, SendInv
    <3> QED BY <2>1, <3>1 DEF SendAck, Untouched, Drops
  <2>2. CASE \E r \in Record, answered \in BOOLEAN : SendAccepted(r, answered)
    BY <2>2 DEF SendAccepted, Counts
  <2>3. CASE SendBegin \/ (\E s \in Sessions : HoldExpires(s))
             \/ \E r \in Record : SendHeld(r) \/ SendRejected(r) \/ SendPaused(r)
    BY <2>3 DEF SendBegin, HoldExpires, SendHeld, SendRejected, SendPaused, Untouched
  <2> QED BY <1>3, <2>1, <2>2, <2>3 DEF Send
<1>4. CASE Recover
  <2>1. CASE RecoverAborts
    <3>1. phase' = "down"
      BY <2>1 DEF RecoverAborts, MemoryGone
    <3> QED BY <2>1, <3>1 DEF RecoverAborts, AppendRaises, Untouched, Lands
  <2>2. CASE Wire
    BY <2>2 DEF Wire, Untouched
  <2>3. ASSUME NEW s \in Sessions, RecoverSettled(s) \/ RecoverResume(s) PROVE Untouched
    BY <2>3 DEF RecoverSettled, RecoverResume, Untouched
  <2>4. ASSUME NEW s \in Sessions, RecoverFinish(s) PROVE Appends
    BY <2>4 DEF RecoverFinish, Appends
  <2> QED BY <1>4, <2>1, <2>2, <2>3, <2>4 DEF Recover
<1>5. CASE Start
  BY <1>5 DEF Start, Reopens
<1>6. CASE Shutdown
  BY <1>6 DEF Shutdown, MemoryGone, Untouched
<1>7. CASE Killed
  <2>1. phase' = "down"
    BY <1>7 DEF Killed, MemoryGone
  <2> QED BY <1>7, <2>1 DEF Killed, Untouched, Lands
<1>8. CASE PowerLost
  BY <1>8 DEF PowerLost, MemoryGone, Cuts
<1>9. CASE \E p \in Procs : ProcExits(p) \/ \E q \in Procs \union {NoProc} : ProcStarts(p, q)
  BY <1>9 DEF ProcExits, ProcStarts, Untouched
<1>10. CASE UNCHANGED vars
  BY <1>10 DEF vars, Untouched
<1> QED BY <1>1, <1>2, <1>3, <1>4, <1>5, <1>6, <1>7, <1>8, <1>9, <1>10 DEF Next

\* What was put away stays put away, whatever happens.
LEMMA QueueStep ==
  ASSUME SendInv, DownInv, SeqInv, IndexIsDurable, [Next]_vars
  PROVE  /\ SeqInv' /\ IndexIsDurable' /\ \A s : Kept(s) => Kept(s)'
<1>0. Len(queue) \in Nat /\ synced \in 0..Len(queue) /\ IsSeq(queue)
  BY DEF SeqInv, IsSeq
<1>1. CASE Untouched
  BY <1>1 DEF Untouched, queueVars, SeqInv, IndexIsDurable, Kept, Durable
<1>2. CASE Appends
  <2>1. PICK s, e : Appended(s, e)
    BY <1>2 DEF Appends
  <2>2. CASE s \in Ids(queue)
    BY <1>2, <2>1, <2>2 DEF Appended, Appends, SeqInv, IndexIsDurable, Kept, Durable
  <2>3. CASE s \notin Ids(queue)
    <3>1. queue' = Append(queue, [id |-> s, end |-> e]) /\ synced' = Len(queue')
          /\ UNCHANGED <<torn, failed, aside, server, phase>>
      BY <1>2, <2>1, <2>3 DEF Appended, Appends
    <3>2. /\ IsSeq(queue') /\ Len(queue') = Len(queue) + 1
          /\ \A i \in 1..Len(queue) : queue'[i] = queue[i]
      BY <1>0, <3>1, AppendedSeq
    <3>3. Durable \subseteq Durable'
      BY <1>0, <3>1, <3>2 DEF Durable
    <3>4. SeqInv' /\ IndexIsDurable'
      BY <1>0, <1>2, <3>1, <3>2 DEF SeqInv, IndexIsDurable, Appends
    <3> QED BY <3>1, <3>3, <3>4 DEF Kept
  <2> QED BY <2>2, <2>3
<1>3. CASE Lands
  <2>1. PICK s, e : Landed(s, e)
    BY <1>3 DEF Lands
  <2>2. queue' = queue \/ queue' = Append(queue, [id |-> s, end |-> e])
    BY <2>1 DEF Landed
  <2>3. /\ IsSeq(queue') /\ Len(queue') \in Nat /\ Len(queue') >= Len(queue)
        /\ \A i \in 1..Len(queue) : queue'[i] = queue[i]
    <3> DEFINE r == [id |-> s, end |-> e]
    <3>1. CASE queue' = queue
      BY <1>0, <3>1
    <3>2. CASE queue' = Append(queue, r)
      <4> HIDE DEF r
      <4>1. /\ IsSeq(Append(queue, r)) /\ Len(Append(queue, r)) = Len(queue) + 1
            /\ \A i \in 1..Len(queue) : Append(queue, r)[i] = queue[i]
        BY <1>0, AppendedSeq
      <4> QED BY <1>0, <3>2, <4>1
    <3> QED BY <2>2, <3>1, <3>2
  <2>4. Durable' = Durable
    <3>1. synced' = synced /\ \A i \in 1..synced : queue'[i] = queue[i]
      BY <1>0, <1>3, <2>3 DEF Lands
    <3> QED BY <3>1 DEF Durable
  <2>5. SeqInv' /\ IndexIsDurable'
    BY <1>0, <1>3, <2>3 DEF SeqInv, IndexIsDurable, Lands
  <2> QED BY <1>3, <2>4, <2>5 DEF Kept, Lands
<1>4. CASE Cuts
  <2>1. PICK k \in synced..Len(queue) : queue' = SubSeq(queue, 1, k)
    BY <1>4 DEF Cuts
  <2>2. /\ IsSeq(queue') /\ Len(queue') = k /\ \A i \in 1..k : queue'[i] = queue[i]
    <3>1. k \in 0..Len(queue)
      BY <1>0
    <3>2. /\ IsSeq(SubSeq(queue, 1, k)) /\ Len(SubSeq(queue, 1, k)) = k
          /\ \A i \in 1..k : SubSeq(queue, 1, k)[i] = queue[i]
      BY <1>0, <3>1, CutSeq
    <3> QED BY <2>1, <3>2
  <2>3. Durable' = Durable
    <3>1. synced' = synced /\ \A i \in 1..synced : queue'[i] = queue[i]
      BY <1>0, <1>4, <2>1, <2>2 DEF Cuts
    <3> QED BY <3>1 DEF Durable
  <2>4. SeqInv' /\ IndexIsDurable'
    BY <1>0, <1>4, <2>1, <2>2 DEF SeqInv, IndexIsDurable, Cuts
  <2> QED BY <1>4, <2>3, <2>4 DEF Kept, Cuts
<1>5. CASE Reopens
  <2>1. CASE synced' = Len(queue) /\ UNCHANGED <<queue, aside>>
    <3>1. SeqInv' /\ IndexIsDurable'
      BY <1>0, <1>5, <2>1 DEF SeqInv, IndexIsDurable, Reopens, Reopened
    <3>2. Durable \subseteq Durable'
      BY <1>0, <2>1 DEF Durable
    <3> QED BY <1>5, <2>1, <3>1, <3>2 DEF Kept, Reopens
  <2>2. CASE aside' = aside \union Ids(queue) /\ queue' = <<>> /\ synced' = 0
    <3>1. SeqInv' /\ IndexIsDurable'
      BY <1>5, <2>2, EmptySeq0 DEF SeqInv, IndexIsDurable, Reopens, Reopened
    <3>2. Durable \subseteq Ids(queue)
      BY <1>0 DEF Durable, Ids
    <3> QED BY <1>5, <2>2, <3>1, <3>2 DEF Kept, Reopens
  <2> QED BY <1>5, <2>1, <2>2 DEF Reopens, Reopened
<1>6. CASE Counts
  <2>1. DOMAIN server \subseteq DOMAIN server'
    BY <1>6 DEF Counts, Counted, With
  <2> QED BY <1>6, <2>1 DEF Counts, queueVars, SeqInv, IndexIsDurable, Kept, Durable
<1>7. CASE Drops
  <2>1. PICK id \in DOMAIN server : queue' = Removed(queue, id)
    BY <1>7 DEF Drops
  <2>2. IsSeq(queue') /\ Ids(queue) \ {id} \subseteq Ids(queue') /\ Len(queue') \in Nat
    BY <1>0, <2>1, RemovedSeq DEF IsSeq
  <2>3. Durable \subseteq Ids(queue) /\ Durable' = Ids(queue')
    BY <1>0, <1>7 DEF Durable, Ids, Drops
  <2>4. SeqInv' /\ IndexIsDurable'
    BY <1>0, <1>7, <2>2 DEF SeqInv, IndexIsDurable, Drops
  <2> QED BY <1>7, <2>1, <2>2, <2>3, <2>4 DEF Kept, Drops
<1> QED BY <1>1, <1>2, <1>3, <1>4, <1>5, <1>6, <1>7, QueueMoves
-----------------------------------------------------------------------------
\* The shape of the state.
LEMMA ShapeStep ==
  ASSUME ShapeInv, [Next]_vars
  PROVE  ShapeInv'
<1> DEFINE Same == UNCHANGED <<books, mon, sender>>
<1>0. Same => ShapeInv'
  BY DEF ShapeInv
<1>1. CASE MemoryGone
  BY <1>1 DEF MemoryGone, ShapeInv, NoBooks, IdleMonitor, IdleSender
<1>2. CASE LaunchCheck
  BY <1>2 DEF LaunchCheck, SetB, ShapeInv
<1>3. CASE LaunchSpawn \/ Wire \/ (\E p \in Procs : ProcExits(p))
           \/ \E p \in Procs : \E q \in Procs \union {NoProc} : ProcStarts(p, q)
  BY <1>0, <1>3 DEF LaunchSpawn, Wire, ProcExits, ProcStarts
<1>4. ASSUME NEW ok \in BOOLEAN, LaunchSave(ok) PROVE ShapeInv'
  <2>1. sender' = sender
    BY <1>4 DEF LaunchSave
  <2>2. \/ UNCHANGED <<books, mon>>
        \/ \E s \in Sessions :
             /\ \E f : books' = [books EXCEPT !.sess = f]
             /\ mon' = [mon EXCEPT ![s] = [IdleMonitor EXCEPT !.pc = "idle"]]
    BY <1>4 DEF LaunchSave
  <2> QED BY <2>1, <2>2 DEF ShapeInv, IdleMonitor
<1>5. ASSUME NEW s \in Sessions, Monitor(s) PROVE ShapeInv'
  <2>1. sender' = sender
    BY <1>5 DEF Monitor, MonSnap, MonDecide, FinishAppend, FinishPop, MonClaim,
       MonAssign, FinishRemove
  <2>2. "sess" \in DOMAIN books'
    <3>1. CASE MonSnap(s) \/ FinishAppend(s) \/ \E ok \in BOOLEAN : FinishRemove(s, ok)
      BY <3>1 DEF MonSnap, FinishAppend, FinishRemove, ShapeInv
    <3>2. CASE MonDecide(s) \/ FinishPop(s)
      <4>1. DOMAIN books' = DOMAIN books
        BY <3>2 DEF MonDecide, FinishPop
      <4> QED BY <4>1 DEF ShapeInv
    <3>3. CASE \E ok \in BOOLEAN : MonClaim(s, ok) \/ MonAssign(s, ok)
      <4>1. PICK b : SetB(b)
        BY <3>3 DEF MonClaim, MonAssign
      <4> QED BY <4>1 DEF SetB
    <3> QED BY <1>5, <3>1, <3>2, <3>3 DEF Monitor
  <2>3. mon' = [t \in Sessions |-> mon'[t]] /\ \A t \in Sessions : "pc" \in DOMAIN mon'[t]
    BY <1>5 DEF Monitor, MonSnap, MonDecide, FinishAppend, FinishPop, MonClaim,
       MonAssign, FinishRemove,
         ShapeInv
  <2> QED BY <2>1, <2>2, <2>3 DEF ShapeInv
<1>6. CASE Send
  <2>1. UNCHANGED <<books, mon>>
    BY <1>6 DEF Send, SendBegin, SendHeld, SendRejected, SendPaused, SendAccepted,
       SendAck, HoldExpires
  <2>2. {"pc", "batch"} \subseteq DOMAIN NextRecord /\ {"pc", "batch"} \subseteq DOMAIN Return
    BY DEF ShapeInv, NextRecord, Return
  <2>3. {"pc", "batch"} \subseteq DOMAIN sender'
    BY <1>6, <2>2 DEF Send, SendBegin, SendHeld, SendRejected, SendPaused, SendAccepted,
       SendAck,
         HoldExpires, ShapeInv
  <2> QED BY <2>1, <2>3 DEF ShapeInv
<1>7. ASSUME NEW s \in Sessions, RecoverSettled(s) \/ RecoverResume(s) \/ RecoverFinish(s)
      PROVE  ShapeInv'
  BY <1>7 DEF RecoverSettled, RecoverResume, RecoverFinish, SetB, ShapeInv, IdleMonitor
<1>8. CASE Start
  BY <1>8 DEF Start, ShapeInv, NoBooks
<1>9. CASE Shutdown \/ Killed \/ PowerLost \/ RecoverAborts
  BY <1>1, <1>9 DEF Shutdown, Killed, PowerLost, RecoverAborts
<1>10. CASE UNCHANGED vars
  BY <1>0, <1>10 DEF vars
<1> QED BY <1>2, <1>3, <1>4, <1>5, <1>6, <1>7, <1>8, <1>9, <1>10 DEF Next, Recover

\* Every way down clears the memory, and only Start leads up again.
LEMMA DownStep ==
  ASSUME DownInv, ShapeInv, [Next]_vars
  PROVE  DownInv'
<1>1. CASE MemoryGone
  BY <1>1 DEF MemoryGone, DownInv, IdleMonitor, IdleSender, IdleLaunch
<1>2. CASE ~MemoryGone /\ phase = "down"
  <2>1. /\ sender.pc = "idle" /\ launch.pc = "idle"
        /\ \A s \in Sessions : mon[s].pc = "none"
    BY <1>2 DEF DownInv
  <2>2. \A s \in Sessions : ~Monitor(s)
    BY <2>1 DEF Monitor, MonSnap, MonDecide, FinishAppend, FinishPop, MonClaim,
       MonAssign, FinishRemove
  <2>3. ~LaunchCheck /\ ~LaunchSpawn /\ \A ok \in BOOLEAN : ~LaunchSave(ok)
    BY <1>2, <2>1 DEF LaunchCheck, LaunchSpawn, LaunchSave
  <2>4. CASE Send
    <3>1. PICK s \in Sessions : HoldExpires(s)
      BY <1>2, <2>1, <2>4 DEF Send, SendBegin, SendHeld, SendRejected, SendPaused,
         SendAccepted, SendAck,
           Posting
    <3> QED BY <3>1, <2>1 DEF HoldExpires, DownInv, ShapeInv
  <2>5. ~Recover
    BY <1>2 DEF Recover, RecoverSettled, RecoverResume, RecoverFinish, RecoverAborts, Wire
  <2>6. CASE Start
    BY <2>6 DEF Start, DownInv
  <2>7. ~Shutdown /\ ~Killed /\ ~PowerLost
    BY <1>2 DEF Shutdown, Killed, PowerLost
  <2>8. CASE \E p \in Procs : ProcExits(p) \/ \E q \in Procs \union {NoProc} : ProcStarts(p, q)
    BY <2>1, <2>8 DEF ProcExits, ProcStarts, DownInv
  <2>9. CASE UNCHANGED vars
    BY <2>1, <2>9 DEF vars, DownInv
  <2> QED BY <2>2, <2>3, <2>4, <2>5, <2>6, <2>7, <2>8, <2>9 DEF Next
<1>3. CASE ~MemoryGone /\ phase # "down"
  <2>1. phase' # "down"
    BY <1>3 DEF Next, vars, LaunchCheck, LaunchSpawn, LaunchSave, Monitor, MonSnap,
       MonDecide, FinishAppend,
         FinishPop, MonClaim, MonAssign, FinishRemove, Send, SendBegin, SendHeld,
         SendRejected, SendPaused,
         SendAccepted, SendAck, HoldExpires, Recover, RecoverSettled, RecoverResume,
         RecoverFinish,
         RecoverAborts, Wire, Start, Shutdown, Killed, PowerLost, ProcExits, ProcStarts
  <2> QED BY <2>1 DEF DownInv
<1> QED BY <1>1, <1>2, <1>3

\* The server forgets nothing.
LEMMA ServerGrows ==
  ASSUME [Next]_vars PROVE DOMAIN server \subseteq DOMAIN server'
<1>1. CASE UNCHANGED server
  BY <1>1
<1>2. ASSUME NEW r, NEW a, SendAccepted(r, a) PROVE DOMAIN server \subseteq DOMAIN server'
  BY <1>2 DEF SendAccepted, Counted, With
<1>3. UNCHANGED server \/ \E r \in Record, a \in BOOLEAN : SendAccepted(r, a)
  BY DEF Next, vars, LaunchCheck, LaunchSpawn, LaunchSave, Monitor, MonSnap, MonDecide,
     FinishAppend,
         FinishPop, MonClaim, MonAssign, FinishRemove, Send, SendBegin, SendHeld,
         SendRejected, SendPaused,
         SendAck, HoldExpires, Recover, RecoverSettled, RecoverResume, RecoverFinish,
         RecoverAborts, Wire, Start, Shutdown, Killed, PowerLost, ProcExits, ProcStarts
<1> QED BY <1>1, <1>2, <1>3

\* Only a 200 leads to an acknowledgement, and the pass keeps its record.
LEMMA SendStep ==
  ASSUME SendInv, ShapeInv, [Next]_vars
  PROVE  SendInv'
<1>1. DOMAIN server \subseteq DOMAIN server'
  BY ServerGrows
<1>2. CASE sender'.pc = sender.pc /\ sender'.batch = sender.batch
  BY <1>1, <1>2 DEF SendInv
<1>3. CASE sender'.pc \in {"idle", "post"}
  BY <1>3 DEF SendInv
<1>4. NextRecord.pc \in {"idle", "post"} /\ Return.pc = "idle" /\ "pc" \in DOMAIN NextRecord
  BY DEF NextRecord, Return, ShapeInv
<1>5. ASSUME NEW r, NEW a \in BOOLEAN, SendAccepted(r, a) PROVE SendInv'
  <2>1. r.id \in DOMAIN server' /\ sender.batch # <<>> /\ r = Head(sender.batch)
    BY <1>5 DEF SendAccepted, Counted, With, Posting
  <2>2. CASE a
    <3>1. sender'.batch = sender.batch
      BY <1>5, <2>2 DEF SendAccepted, ShapeInv
    <3> QED BY <2>1, <3>1 DEF SendInv
  <2>3. CASE ~a
    BY <1>3, <1>4, <1>5, <2>3 DEF SendAccepted
  <2> QED BY <2>2, <2>3
<1>6. CASE Send
  <2>1. CASE SendBegin
    BY <1>3, <2>1 DEF SendBegin, ShapeInv
  <2>2. ASSUME NEW r, SendHeld(r) \/ SendRejected(r) \/ SendPaused(r) PROVE SendInv'
    BY <1>3, <1>4, <2>2 DEF SendHeld, SendRejected, SendPaused
  <2>3. ASSUME NEW ok, SendAck(ok) PROVE SendInv'
    BY <1>3, <1>4, <2>3 DEF SendAck
  <2>4. ASSUME NEW s, HoldExpires(s) PROVE SendInv'
    BY <1>2, <2>4 DEF HoldExpires, ShapeInv
  <2> QED BY <1>5, <1>6, <2>1, <2>2, <2>3, <2>4 DEF Send
<1>7. CASE MemoryGone
  BY <1>3, <1>7 DEF MemoryGone, IdleSender
<1>8. CASE UNCHANGED sender
  BY <1>2, <1>8
<1>9. Send \/ MemoryGone \/ UNCHANGED sender
  BY DEF Next, vars, LaunchCheck, LaunchSpawn, LaunchSave, Monitor, MonSnap, MonDecide,
     FinishAppend,
         FinishPop, MonClaim, MonAssign, FinishRemove, Recover, RecoverSettled,
         RecoverResume, RecoverFinish,
         RecoverAborts, Wire, Start, Shutdown, Killed, PowerLost, ProcExits, ProcStarts
<1> QED BY <1>6, <1>7, <1>8, <1>9

\* A line that append believes in is on the platter.
LEMMA AppendedDurable ==
  ASSUME NEW s, NEW e, Appended(s, e), SeqInv, IndexIsDurable, phase # "down"
  PROVE  s \in Durable'
<1>1. IsSeq(queue) /\ Len(queue) \in Nat
  BY DEF SeqInv, IsSeq
<1>2. CASE s \in Ids(queue)
  <2>1. synced = Len(queue) /\ queue' = queue /\ synced' = synced
    BY <1>2 DEF Appended, IndexIsDurable
  <2> QED BY <1>2, <2>1 DEF Ids, Durable
<1>3. CASE s \notin Ids(queue)
  <2> DEFINE r == [id |-> s, end |-> e]
  <2>1. queue' = Append(queue, r) /\ synced' = Len(queue')
    BY <1>3 DEF Appended
  <2>2. r.id = s
    OBVIOUS
  <2> HIDE DEF r
  <2>3. Len(Append(queue, r)) = Len(queue) + 1 /\ Append(queue, r)[Len(queue) + 1] = r
    BY <1>1, AppendedSeq
  <2>4. Len(queue) + 1 \in 1..synced' /\ queue'[Len(queue) + 1] = r
    BY <1>1, <2>1, <2>3
  <2> QED BY <2>2, <2>4 DEF Durable
<1> QED BY <1>2, <1>3

\* Only an append that returned leads to a removal.
LEMMA RemoveStep ==
  ASSUME RemoveInv, ShapeInv, DownInv, SendInv, SeqInv, IndexIsDurable, [Next]_vars
  PROVE  RemoveInv'
<1>0. \A s : Kept(s) => Kept(s)'
  BY QueueStep
<1> SUFFICES ASSUME NEW s \in Sessions, mon'[s].pc = "remove"
             PROVE  Kept(s)'
  BY DEF RemoveInv
<1>1. CASE mon[s].pc = "remove"
  BY <1>0, <1>1 DEF RemoveInv
<1>2. CASE mon[s].pc # "remove"
  <2>1. FinishAppend(s) /\ Appended(s, books.sess[s].last)
    <3>1. ~MemoryGone
      BY DEF MemoryGone, IdleMonitor
    <3>2. mon' # mon
      BY <1>2
    <3>3. \A ok \in BOOLEAN : ~LaunchSave(ok)
      BY <1>2 DEF LaunchSave, IdleMonitor, ShapeInv
    <3>4. \A t \in Sessions : ~RecoverResume(t)
      BY <1>2 DEF RecoverResume, IdleMonitor, ShapeInv
    <3>5. PICK t \in Sessions : Monitor(t)
      BY <3>1, <3>2, <3>3, <3>4 DEF Next, vars, LaunchCheck, LaunchSpawn, Send,
         SendBegin, SendHeld,
         SendRejected, SendPaused, SendAccepted, SendAck, HoldExpires, Recover,
         RecoverSettled,
         RecoverFinish, RecoverAborts, Wire, Start, Shutdown, Killed, PowerLost,
         ProcExits, ProcStarts
    <3>6. t = s
      BY <1>2, <3>5 DEF Monitor, MonSnap, MonDecide, FinishAppend, FinishPop, MonClaim,
         MonAssign,
           FinishRemove, ShapeInv
    <3>7. ~MonSnap(s) /\ ~MonDecide(s) /\ ~FinishPop(s)
      BY DEF MonSnap, MonDecide, FinishPop, ShapeInv
    <3>8. \A ok \in BOOLEAN : ~MonClaim(s, ok) /\ ~MonAssign(s, ok) /\ ~FinishRemove(s, ok)
      <4> SUFFICES ASSUME NEW ok \in BOOLEAN
                   PROVE  ~MonClaim(s, ok) /\ ~MonAssign(s, ok) /\ ~FinishRemove(s, ok)
        OBVIOUS
      <4>1. ~MonClaim(s, ok)
        BY DEF MonClaim, ShapeInv
      <4>2. ~MonAssign(s, ok)
        BY DEF MonAssign, ShapeInv
      <4>3. ~FinishRemove(s, ok)
        BY DEF FinishRemove, ShapeInv
      <4> QED BY <4>1, <4>2, <4>3
    <3>9. FinishAppend(s)
      BY <3>5, <3>6, <3>7, <3>8 DEF Monitor
    <3>10. mon' # [mon EXCEPT ![s].pc = "idle"]
      BY DEF ShapeInv
    <3> DEFINE e == books.sess[s].last
    <3>11. \/ Appended(s, e) \/ mon' = [mon EXCEPT ![s].pc = "idle"]
      BY <3>9, Zenon DEF FinishAppend
    <3> QED BY <3>9, <3>10, <3>11
  <2>2. phase # "down"
    BY <2>1 DEF FinishAppend, DownInv
  <2> QED BY <2>1, <2>2, AppendedDurable DEF Kept
<1> QED BY <1>1, <1>2

-----------------------------------------------------------------------------
\* What a step does to the sessions the two stores know.
StoreChange ==
  /\ SavedInv'
  /\ \A s \in saved' : \/ s \in DOMAIN store'
                       \/ s \in saved /\ (s \in DOMAIN store => Kept(s))

\* A step that adds no session, and takes none from the store that is not put away.
NoneNew(X) ==
  /\ UNCHANGED saved
  /\ X \subseteq Sessions /\ X \subseteq saved
  /\ DOMAIN store \ X \subseteq DOMAIN store'
  /\ DOMAIN store' \subseteq saved
  /\ DOMAIN books'.sess \subseteq saved /\ todo' \subseteq saved
  /\ \A s \in X : s \in DOMAIN store' \/ Kept(s)
  /\ \A s \in Sessions : mon'[s].pc # "none" => s \in saved

\* Such a step is a change of the kind above.
LEMMA NoneNewChange == ASSUME NEW X, NoneNew(X), SavedInv PROVE StoreChange
<1>1. SavedInv'
  BY DEF NoneNew, SavedInv
<1> QED BY <1>1 DEF NoneNew, StoreChange

\* The books and the store become those of b.
LEMMA SetBDomains ==
  ASSUME NEW b, SetB(b)
  PROVE  books'.sess = b.sess /\ store' = b.store
BY DEF SetB

\* A monitor takes out only the session it has put away.
LEMMA MonitorStore ==
  ASSUME NEW s \in Sessions, Monitor(s), SavedInv, ShapeInv, RemoveInv
  PROVE  StoreChange
<1>0. mon[s].pc # "none" /\ s \in saved
  <2>1. mon[s].pc # "none"
    BY DEF Monitor, MonSnap, MonDecide, FinishAppend, FinishPop, MonClaim, MonAssign,
       FinishRemove
  <2> QED BY <2>1 DEF SavedInv
<1>1. /\ saved' = saved /\ todo' = todo
      /\ \A t \in Sessions : mon'[t].pc # "none" => t \in saved
  <2>1. UNCHANGED <<saved, todo>>
    BY DEF Monitor, MonSnap, MonDecide, FinishAppend, FinishPop, MonClaim, MonAssign,
       FinishRemove
  <2>2. \A t \in Sessions \ {s} : mon'[t] = mon[t]
    BY DEF Monitor, MonSnap, MonDecide, FinishAppend, FinishPop, MonClaim, MonAssign,
       FinishRemove,
           ShapeInv
  <2> QED BY <1>0, <2>1, <2>2 DEF SavedInv
<1>2. CASE UNCHANGED store /\ DOMAIN books'.sess \subseteq DOMAIN books.sess
  <2>1. NoneNew({})
    BY <1>1, <1>2 DEF NoneNew, SavedInv
  <2> QED BY <2>1, NoneNewChange
<1>3. CASE MonSnap(s) \/ FinishAppend(s)
  BY <1>2, <1>3 DEF MonSnap, FinishAppend
<1>4. CASE MonDecide(s)
  <2>1. DOMAIN books'.sess = DOMAIN books.sess
    <3>1. CASE books' = books
      BY <3>1
    <3>2. CASE books' = [books EXCEPT !.sess[s].last = Max({@, books.alive[s]}),
                                      !.alive[s] = 0]
      BY <3>2 DEF ShapeInv
    <3> QED BY <1>4, <3>1, <3>2 DEF MonDecide
  <2>2. store' = store
    BY <1>4 DEF MonDecide
  <2> QED BY <1>2, <2>1, <2>2
<1>5. CASE FinishPop(s)
  <2>1. DOMAIN books'.sess \subseteq DOMAIN books.sess
    BY <1>5 DEF FinishPop, ShapeInv, Without
  <2> QED BY <1>2, <1>5, <2>1 DEF FinishPop
<1>6. CASE \E ok \in BOOLEAN : MonClaim(s, ok) \/ MonAssign(s, ok)
  <2>1. PICK b : SetB(b) /\ (Grows(B, b) \/ Wider(B, b, {s}))
    <3>1. IsBooks(B)
      BY DEF IsBooks, B
    <3>2. ASSUME NEW ok \in BOOLEAN, MonClaim(s, ok)
          PROVE  \E b : SetB(b) /\ Grows(B, b)
      BY <3>1, <3>2, ClaimedGrows DEF MonClaim
    <3>3. ASSUME NEW ok \in BOOLEAN, MonAssign(s, ok)
          PROVE  \E b : SetB(b) /\ Wider(B, b, {s})
      BY <3>1, <3>3, AssignedWider DEF MonAssign
    <3> QED BY <1>6, <3>2, <3>3
  <2>2. books'.sess = b.sess /\ store' = b.store
    BY <2>1, SetBDomains
  <2>3. /\ DOMAIN books'.sess = DOMAIN books.sess /\ DOMAIN store \subseteq DOMAIN store'
        /\ DOMAIN store' \subseteq DOMAIN store \union DOMAIN books.sess \union {s}
    BY <2>1, <2>2 DEF B, Grows, Wider
  <2>4. NoneNew({})
    BY <1>0, <1>1, <2>3 DEF NoneNew, SavedInv
  <2> QED BY <2>4, NoneNewChange
<1>7. ASSUME NEW ok \in BOOLEAN, FinishRemove(s, ok) PROVE StoreChange
  <2>1. books' = books /\ Kept(s)
    BY <1>7 DEF FinishRemove, RemoveInv
  <2>2. DOMAIN store \ {s} \subseteq DOMAIN store' /\ DOMAIN store' \subseteq DOMAIN store
    BY <1>7 DEF FinishRemove, Without
  <2>3. NoneNew({s})
    BY <1>0, <1>1, <2>1, <2>2 DEF NoneNew, SavedInv
  <2> QED BY <2>3, NoneNewChange
<1> QED BY <1>3, <1>4, <1>5, <1>6, <1>7 DEF Monitor

\* recover_sessions takes out only what is already in the queue.
LEMMA RecoverStore ==
  ASSUME NEW s \in Sessions, RecoverSettled(s) \/ RecoverResume(s), SavedInv, ShapeInv, SeqInv,
         IndexIsDurable
  PROVE  StoreChange
<1>0. s \in saved /\ saved' = saved /\ todo' \subseteq todo
  BY DEF RecoverSettled, RecoverResume, SavedInv
<1>1. CASE RecoverSettled(s)
  <2>1. Kept(s)
    <3>1. synced = Len(queue) /\ s \in Ids(queue)
      BY <1>1 DEF RecoverSettled, IndexIsDurable
    <3> QED BY <3>1 DEF Kept, Durable, Ids
  <2>2. /\ mon' = mon /\ DOMAIN store' = DOMAIN store \ {s}
        /\ DOMAIN books'.sess = DOMAIN books.sess \ {s}
    BY <1>1 DEF RecoverSettled, Without, ShapeInv
  <2>3. NoneNew({s})
    BY <1>0, <2>1, <2>2 DEF NoneNew, SavedInv
  <2> QED BY <2>3, NoneNewChange
<1>2. CASE RecoverResume(s)
  <2> DEFINE b == [B EXCEPT !.sess[s].pids = Found(s)]
             c == Claimed(b, s, Found(s), TRUE)
             got == Granted(b, s, Found(s), TRUE)
             d == [c EXCEPT !.sess[s].pids = got]
             e == [d EXCEPT !.store = With(@, s, d.sess[s])]
  <2>1. /\ IsBooks(b) /\ DOMAIN b.sess = DOMAIN books.sess /\ b.store = store
    BY DEF IsBooks, B
  <2>2. Grows(b, c)
    BY <2>1, ClaimedGrows
  <2>3. SetB(e) /\ mon' = [mon EXCEPT ![s] = [IdleMonitor EXCEPT !.pc = "idle"]]
    BY <1>2 DEF RecoverResume
  <2> HIDE DEF b, c, got
  <2>4. /\ DOMAIN d = DOMAIN c /\ DOMAIN d.sess = DOMAIN c.sess /\ d.store = c.store
    BY <2>2 DEF Grows, Wider
  <2> HIDE DEF d
  <2>5. e.sess = d.sess /\ DOMAIN e.store = DOMAIN d.store \union {s}
    BY <2>2, <2>4 DEF Grows, Wider, With
  <2> HIDE DEF e
  <2>6. books'.sess = e.sess /\ store' = e.store
    BY <2>3, SetBDomains
  <2>7. /\ DOMAIN books'.sess = DOMAIN books.sess /\ DOMAIN store \subseteq DOMAIN store'
        /\ DOMAIN store' \subseteq DOMAIN store \union DOMAIN books.sess \union {s}
    BY <2>1, <2>2, <2>4, <2>5, <2>6 DEF Grows, Wider
  <2>8. \A t \in Sessions : mon'[t].pc # "none" => t \in saved
    BY <1>0, <2>3 DEF SavedInv, ShapeInv
  <2>9. NoneNew({})
    BY <1>0, <2>7, <2>8 DEF NoneNew, SavedInv
  <2> QED BY <2>9, NoneNewChange
<1> QED BY <1>1, <1>2

\* A launch adds a session; its polls take none away.
LEMMA LaunchStore ==
  ASSUME LaunchCheck \/ LaunchSpawn \/ \E ok \in BOOLEAN : LaunchSave(ok), SavedInv, ShapeInv
  PROVE  StoreChange
<1>1. CASE LaunchCheck
  <2>1. SetB(AllPolled) /\ UNCHANGED <<mon, todo, saved>>
    BY <1>1 DEF LaunchCheck, AllPolled
  <2>2. Grows(B, AllPolled)
    <3>1. IsFiniteSet(DOMAIN books.sess)
      BY FS_Subset DEF SavedInv
    <3> QED BY <3>1, PollsGrow
  <2>3. books'.sess = AllPolled.sess /\ store' = AllPolled.store
    BY <2>1, SetBDomains
  <2>4. /\ DOMAIN books'.sess = DOMAIN books.sess /\ DOMAIN store \subseteq DOMAIN store'
        /\ DOMAIN store' \subseteq DOMAIN store \union DOMAIN books.sess
    BY <2>2, <2>3 DEF Grows, Wider, B
  <2>5. NoneNew({})
    BY <2>1, <2>4 DEF NoneNew, SavedInv
  <2> QED BY <2>5, NoneNewChange
<1>2. CASE LaunchSpawn
  <2>1. NoneNew({})
    BY <1>2 DEF LaunchSpawn, NoneNew, SavedInv
  <2> QED BY <2>1, NoneNewChange
<1>3. ASSUME NEW ok \in BOOLEAN, LaunchSave(ok) PROVE StoreChange
  <2>1. CASE ~ok
    <3>1. NoneNew({})
      BY <1>3, <2>1 DEF LaunchSave, NoneNew, SavedInv
    <3> QED BY <3>1, NoneNewChange
  <2>2. CASE ok
    <3>1. PICK s \in Sessions \ saved : \E r :
            /\ store' = With(store, s, r)
            /\ books' = [books EXCEPT !.sess = With(@, s, r)]
            /\ mon' = [mon EXCEPT ![s] = [IdleMonitor EXCEPT !.pc = "idle"]]
            /\ saved' = saved \union {s}
      BY <1>3, <2>2 DEF LaunchSave
    <3>2. todo' = todo
      BY <1>3 DEF LaunchSave
    <3>3. /\ DOMAIN store' = DOMAIN store \union {s}
          /\ DOMAIN books'.sess = DOMAIN books.sess \union {s}
      BY <3>1 DEF With, ShapeInv
    <3>4. IsFiniteSet(saved')
      BY <3>1, FS_AddElement DEF SavedInv
    <3>5. \A t \in Sessions : mon'[t].pc # "none" => t \in saved'
      BY <3>1 DEF SavedInv, ShapeInv
    <3>6. SavedInv'
      BY <3>1, <3>2, <3>3, <3>4, <3>5 DEF SavedInv
    <3> QED BY <3>1, <3>3, <3>6 DEF StoreChange
  <2> QED BY <2>1, <2>2
<1> QED BY <1>1, <1>2, <1>3

\* No step takes a session out of the running file that is not put away.
LEMMA StoreStep ==
  ASSUME SavedInv, ShapeInv, RemoveInv, SeqInv, IndexIsDurable, DownInv, [Next]_vars
  PROVE  StoreChange
<1>1. ASSUME MemoryGone, store' \in {store, SaveAll}, UNCHANGED saved PROVE StoreChange
  <2>1. /\ DOMAIN store \subseteq DOMAIN store'
        /\ DOMAIN store' \subseteq DOMAIN store \union DOMAIN books.sess
    BY <1>1 DEF SaveAll
  <2>2. /\ DOMAIN books'.sess = {} /\ todo' = {} /\ \A s \in Sessions : mon'[s].pc = "none"
    BY <1>1 DEF MemoryGone, NoBooks, IdleMonitor
  <2>3. NoneNew({})
    BY <1>1, <2>1, <2>2 DEF NoneNew, SavedInv
  <2> QED BY <2>3, NoneNewChange
<1>2. CASE Shutdown \/ Killed \/ PowerLost \/ RecoverAborts
  BY <1>1, <1>2 DEF Shutdown, Killed, PowerLost, RecoverAborts
<1>3. CASE Start
  <2>1. UNCHANGED <<store, mon, saved>> /\ todo' = DOMAIN store /\ books'.sess = store
    BY <1>3 DEF Start, NoBooks
  <2>2. NoneNew({})
    BY <2>1 DEF NoneNew, SavedInv
  <2> QED BY <2>2, NoneNewChange
<1>4. CASE UNCHANGED <<store, books, mon, todo, saved>>
  <2>1. NoneNew({})
    BY <1>4 DEF NoneNew, SavedInv
  <2> QED BY <2>1, NoneNewChange
<1>5. CASE Send \/ Wire \/ (\E s \in Sessions : RecoverFinish(s)) \/ UNCHANGED vars
  BY <1>4, <1>5 DEF Send, SendBegin, SendHeld, SendRejected, SendPaused, SendAccepted,
     SendAck,
         HoldExpires, Wire, RecoverFinish, vars
<1>6. CASE \E p \in Procs : ProcExits(p) \/ \E q \in Procs \union {NoProc} : ProcStarts(p, q)
  BY <1>4, <1>6 DEF ProcExits, ProcStarts
<1>7. ASSUME NEW s \in Sessions, RecoverSettled(s) \/ RecoverResume(s) PROVE StoreChange
  BY <1>7, RecoverStore
<1>8. ASSUME NEW s \in Sessions, Monitor(s) PROVE StoreChange
  BY <1>8, MonitorStore
<1>9. CASE LaunchCheck \/ LaunchSpawn \/ \E ok \in BOOLEAN : LaunchSave(ok)
  BY <1>9, LaunchStore
<1> QED BY <1>2, <1>3, <1>5, <1>6, <1>7, <1>8, <1>9 DEF Next, Recover

-----------------------------------------------------------------------------
\* The invariant holds at first,
LEMMA InvInit == Init => Inv
<1> SUFFICES ASSUME Init PROVE Inv
  OBVIOUS
<1>1. ShapeInv
  BY DEF Init, ShapeInv, NoBooks, IdleMonitor, IdleSender
<1>2. SavedInv
  BY FS_EmptySet DEF Init, SavedInv, NoBooks, IdleMonitor
<1>3. DownInv /\ SendInv /\ RemoveInv /\ StoreInv
  BY DEF Init, DownInv, SendInv, RemoveInv, StoreInv, IdleMonitor, IdleSender
<1>4. SeqInv /\ IndexIsDurable
  BY EmptySeq0 DEF Init, SeqInv, IndexIsDurable
<1> QED BY <1>1, <1>2, <1>3, <1>4 DEF Inv

\* every step keeps it,
LEMMA InvStep == Inv /\ [Next]_vars => Inv'
<1> SUFFICES ASSUME Inv, [Next]_vars PROVE Inv'
  OBVIOUS
<1> USE DEF Inv
<1>1. ShapeInv'
  BY ShapeStep
<1>2. DownInv' /\ SendInv' /\ RemoveInv'
  BY DownStep, SendStep, RemoveStep
<1>3. SeqInv' /\ IndexIsDurable' /\ \A s : Kept(s) => Kept(s)'
  BY QueueStep
<1>4. StoreChange
  BY StoreStep
<1>5. StoreInv'
  <2> SUFFICES ASSUME NEW s \in saved', s \notin DOMAIN store' PROVE Kept(s)'
    BY DEF StoreInv
  <2>1. s \in saved /\ (s \in DOMAIN store => Kept(s))
    BY <1>4 DEF StoreChange
  <2>2. Kept(s)
    BY <2>1 DEF StoreInv
  <2> QED BY <1>3, <2>2
<1> QED BY <1>1, <1>2, <1>3, <1>4, <1>5 DEF StoreChange

\* and so it always holds.
LEMMA SpecInv == Spec => []Inv
BY InvInit, InvStep, PTL DEF Spec

\* While the queue answers, every line it counts on has been fsynced
\* (playtime.py:108, 191-194): for any sessions, processes and bounds.
THEOREM DurableIndex == Spec => []IndexIsDurable
<1>1. Inv => IndexIsDurable
  BY DEF Inv
<1> QED BY <1>1, SpecInv, PTL

\* Whatever crashes or fails to be written, no session that was saved once is
\* lost (playtime.py:240-252): for any sessions, processes and bounds.
THEOREM SessionsSurvive == Spec => []NoSessionLost
<1>1. Inv => NoSessionLost
  BY DurableIds DEF Inv, StoreInv, SeqInv, Kept, NoSessionLost
<1> QED BY <1>1, SpecInv, PTL
=============================================================================
