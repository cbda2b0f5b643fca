------------------------ MODULE UploadLimiterProofs ------------------------
(* Proofs about the upload limiter.  Two arguments.                          *)
(*                                                                           *)
(* Learning: RateInv is inductive for rate, ceiling and probe, and QuietInv  *)
(* next to it for the modes.                                                 *)
(*                                                                           *)
(* Pacing: the properties speak of what was sent, but what bounds it is how  *)
(* those who still wait have reserved.  Paced(.., x, w, k) says it of all    *)
(* who wait for a moment x or later, k requests having gone since; PaceInv   *)
(* has it for every moment with the burst as slack, for every request that   *)
(* was sent, and without slack for moments of the future and for the end of  *)
(* the last FLOOD_WAIT.  The lemmas Paced... are about a state of the        *)
(* senders and the next one, the lemmas ...Step about the actions.           *)
EXTENDS UploadLimiter, FiniteSetTheorems, TLAPS

\* The lesser and the greater of two numbers, by comparison.
LEMMA MinMax ==
    ASSUME NEW x \in Int, NEW y \in Int
    PROVE  /\ Least(x, y) = IF x <= y THEN x ELSE y
           /\ Greatest(x, y) = IF x >= y THEN x ELSE y
BY DEF Least, Greatest, Min, Max

\* A clamped number is the bound it exceeds, or itself.
LEMMA ClampBounds ==
    ASSUME NEW x \in Int, NEW low \in Int, NEW high \in Int, low <= high
    PROVE  /\ Clamp(low, high, x) = IF x <= low THEN low ELSE IF x >= high THEN high ELSE x
<1>1. Min({high, x}) = Least(high, x) /\ Least(high, x) \in Int
  BY MinMax DEF Least
<1>2. Clamp(low, high, x) = Greatest(low, Least(high, x))
  BY <1>1 DEF Clamp, Greatest
<1> QED BY <1>1, <1>2, MinMax

\* The percentages the limiter takes, within a rounding.
LEMMA PercentBounds ==
    ASSUME NEW x \in Nat
    PROVE  /\ Percent(x, 30) \in Nat /\ 100 * Percent(x, 30) <= x * 30
           /\ Percent(x, 50) \in Nat /\ 100 * Percent(x, 50) <= x * 50
           /\ x * 50 < 100 * Percent(x, 50) + 100
           /\ Percent(x, 80) \in Nat /\ 100 * Percent(x, 80) <= x * 80
           /\ Percent(x, 90) \in Nat /\ 100 * Percent(x, 90) <= x * 90
           /\ x * 90 < 100 * Percent(x, 90) + 100
           /\ Percent(x, 95) \in Nat /\ 100 * Percent(x, 95) <= x * 95
           /\ x * 95 < 100 * Percent(x, 95) + 100
BY DEF Percent

-----------------------------------------------------------------------------
\* The fields of AdaptiveUploadLimiter.
LimFields == {"rate", "ceiling", "next", "penalty", "lastFlood", "lastIncrease", "events",
              "escalated", "probe", "cooldown", "probeEnded", "mode", "clean"}

\* A ceiling there is is one.
CeilingIn(l) == l.ceiling \in Nat /\ l.ceiling >= ceiling_floor /\ l.ceiling <= maximum

\* Rate and ceiling within their bounds, the rate above the ceiling only while it
\* probes; and a rate that probes is high enough for a ceiling cut below it.
Sane(l) ==
    /\ LimFields \subseteq DOMAIN l
    /\ l.rate \in Nat /\ l.rate >= minimum /\ l.rate <= maximum
    /\ l.ceiling # None => CeilingIn(l)
    /\ l.ceiling # None /\ l.probe = None => l.rate <= l.ceiling
    /\ l.probe # None => l.rate >= ceiling_floor

\* What was saved are numbers.
StoreInv == store # None => /\ store.rate \in Nat
                            /\ store.ceiling # None => store.ceiling \in Nat

\* What the limiter has learned is sane.
RateInv == now \in Nat /\ Sane(lim) /\ StoreInv

\* The mean of two numbers is no less than the lower one.
LEMMA MeanBounds ==
    ASSUME NEW x \in Nat, NEW y \in Nat
    PROVE  (x + y) \div 2 \in Nat /\ (y <= x => (x + y) \div 2 >= y)
OBVIOUS

\* The ceiling a FLOOD_WAIT teaches leaves room for the rate that will be cut:
\* eight tenths of it are within the rate that probed, and the cut rate is within it.
\* The one exception, half of the rate when FLOOD_WAITs escalate, never comes up:
\* then the rate is cut to three tenths.
LEMMA Learned ==
    ASSUME NEW l, Sane(l), NEW e \in BOOLEAN
    PROVE  /\ NewCeiling(l, e) \in Nat
           /\ NewCeiling(l, e) >= ceiling_floor /\ NewCeiling(l, e) <= maximum
           /\ l.probe # None => 80 * NewCeiling(l, e) <= 100 * l.rate
           /\ l.probe = None => /\ Percent(l.rate, 30) <= NewCeiling(l, e)
                                /\ ~e => Percent(l.rate, 50) <= NewCeiling(l, e)
<1> USE DEF minimum, maximum, ceiling_floor
<1> DEFINE R == l.rate
           C == l.ceiling
<1>1. /\ R \in Nat /\ 50 <= R /\ R <= 1200
      /\ C # None => C \in Nat
      /\ l.probe # None => R >= 100
      /\ l.probe = None /\ C # None => R <= C
  BY DEF Sane, CeilingIn
<1> DEFINE half == Percent(R, 50)
           most == Percent(R, 95)
           mean == (C + R) \div 2
           x == IF C = None THEN half ELSE Least(most, mean)
           y == IF e THEN Percent(x, 90) ELSE x
           c == NewCeiling(l, e)
<1>4. c = Clamp(100, 1200, y)
  BY DEF NewCeiling
<1> HIDE DEF R, C
<1>2. /\ half \in Nat /\ 100 * half <= R * 50 /\ R * 50 < 100 * half + 100
      /\ most \in Nat /\ 100 * most <= R * 95 /\ R * 95 < 100 * most + 100
      /\ Percent(R, 30) \in Nat /\ 100 * Percent(R, 30) <= R * 30
  BY <1>1, PercentBounds
<1> HIDE DEF half, most, mean
<1>3. C # None => mean \in Nat /\ (l.probe = None => mean >= R)
  <2>1. ASSUME C # None PROVE mean \in Nat /\ (R <= C => mean >= R)
    BY <1>1, <2>1, MeanBounds DEF mean
  <2> QED BY <1>1, <2>1
<1>5. x \in Nat /\ 100 * x <= 95 * R /\ (l.probe = None => x >= half)
  <2>1. CASE C = None
    BY <1>1, <1>2, <2>1
  <2>2. CASE C # None
    <3>1. x = IF most <= mean THEN most ELSE mean
      BY <1>2, <1>3, <2>2, MinMax
    <3> QED BY <1>1, <1>2, <1>3, <2>2, <3>1
  <2> QED BY <2>1, <2>2
<1> HIDE DEF x
<1>6. /\ y \in Nat /\ y <= x
      /\ l.probe = None => Percent(R, 30) <= y /\ (~e => half <= y)
  <2>1. Percent(x, 90) \in Nat /\ 100 * Percent(x, 90) <= x * 90
        /\ x * 90 < 100 * Percent(x, 90) + 100
    BY <1>5, PercentBounds
  <2>2. CASE e
    BY <1>1, <1>2, <1>5, <2>1, <2>2
  <2>3. CASE ~e
    BY <1>1, <1>2, <1>5, <2>3
  <2> QED BY <2>2, <2>3
<1> HIDE DEF y
<1>7. c = IF y <= 100 THEN 100 ELSE IF y >= 1200 THEN 1200 ELSE y
  BY <1>4, <1>6, ClampBounds
<1> HIDE DEF c
<1>8. c \in Nat /\ c >= 100 /\ c <= 1200 /\ (l.probe # None => 80 * c <= 100 * R)
      /\ (l.probe = None => Percent(R, 30) <= c /\ (~e => half <= c))
  BY <1>1, <1>2, <1>5, <1>6, <1>7
<1> QED BY <1>8 DEF c, half, R

\* A cut lowers the rate, and to no more than the new ceiling.
LEMMA CutIsSane ==
    ASSUME NEW l, Sane(l), NEW e \in BOOLEAN, NEW c, c = NewCeiling(l, e),
           NEW r, r = CutRate(l, c, e)
    PROVE  /\ c \in Nat /\ c >= ceiling_floor /\ c <= maximum
           /\ r \in Nat /\ r >= minimum /\ r <= maximum /\ r <= c /\ r <= l.rate
<1> USE DEF minimum, maximum, ceiling_floor
<1> DEFINE R == l.rate
<1>1. /\ R \in Nat /\ 50 <= R /\ R <= 1200
      /\ l.probe # None => R >= 100
  BY DEF Sane
<1>2. /\ c \in Nat /\ c >= 100 /\ c <= 1200
      /\ l.probe # None => 80 * c <= 100 * R
      /\ l.probe = None => Percent(R, 30) <= c /\ (~e => Percent(R, 50) <= c)
  BY Learned
<1> DEFINE z == IF l.probe # None THEN SlowZone(c)
                ELSE Percent(R, IF e THEN 30 ELSE 50)
<1>3. r = Greatest(50, z)
  BY DEF CutRate
<1> HIDE DEF R
<1>4. z \in Nat /\ z <= c /\ z <= R
  <2>1. /\ SlowZone(c) \in Nat /\ 100 * SlowZone(c) <= c * 80
        /\ Percent(R, 30) \in Nat /\ 100 * Percent(R, 30) <= R * 30
        /\ Percent(R, 50) \in Nat /\ 100 * Percent(R, 50) <= R * 50
    <3>1. SlowZone(c) \in Nat /\ 100 * SlowZone(c) <= c * 80
      BY <1>2, PercentBounds DEF SlowZone
    <3>2. /\ Percent(R, 30) \in Nat /\ 100 * Percent(R, 30) <= R * 30
          /\ Percent(R, 50) \in Nat /\ 100 * Percent(R, 50) <= R * 50
      BY <1>1, PercentBounds
    <3> QED BY <3>1, <3>2
  <2>2. CASE l.probe # None
    <3>1. z = SlowZone(c)
      BY <2>2
    <3> HIDE DEF z
    <3> QED BY <1>1, <1>2, <2>1, <2>2, <3>1
  <2>3. CASE l.probe = None /\ e
    <3>1. z = Percent(R, 30)
      BY <2>3
    <3>2. z \in Nat /\ 100 * z <= R * 30
      BY <2>1, <3>1
    <3>3. z <= c
      BY <1>2, <2>3, <3>1
    <3> HIDE DEF z
    <3> QED BY <1>1, <3>2, <3>3
  <2>4. CASE l.probe = None /\ ~e
    <3>1. z = Percent(R, 50)
      BY <2>4
    <3>2. z \in Nat /\ 100 * z <= R * 50
      BY <2>1, <3>1
    <3>3. z <= c
      BY <1>2, <2>4, <3>1
    <3> HIDE DEF z
    <3> QED BY <1>1, <3>2, <3>3
  <2> QED BY <2>2, <2>3, <2>4
<1> HIDE DEF z
<1>5. r = IF 50 >= z THEN 50 ELSE z
  BY <1>3, <1>4, MinMax
<1> QED BY <1>1, <1>2, <1>4, <1>5 DEF R

\* What a cut sets, and what it leaves.
LEMMA CutFields ==
    ASSUME NEW l, Sane(l)
    PROVE  \E e \in BOOLEAN :
             /\ DOMAIN Cut(l) = DOMAIN l
             /\ Cut(l).ceiling = NewCeiling(l, e)
             /\ Cut(l).rate = CutRate(l, NewCeiling(l, e), e)
             /\ Cut(l).probe = None
             /\ Cut(l).mode = l.mode /\ Cut(l).clean = l.clean /\ Cut(l).lastFlood = l.lastFlood
             /\ Cut(l).next = l.next /\ Cut(l).penalty = l.penalty
<1> DEFINE events == {t \in l.events \cup {now} : now - t < escalation_window}
           e == Cardinality(events) >= escalation_count
<1>1. e \in BOOLEAN
  BY DEF escalation_count
<1> HIDE DEF e
<1> WITNESS e \in BOOLEAN
<1> QED BY DEF Cut, Sane, LimFields, e

\* What a FLOOD_WAIT makes of the limiter.
Told(premium) == IF premium
                 THEN [lim EXCEPT !.mode = "frozen", !.clean = None, !.lastFlood = now]
                 ELSE Frozen(lim)

\* The limiter after it: told, cut unless it is premium or one penalty covers it, and
\* penalised.
Flooded(premium, wait) ==
    Penalised(IF ~premium /\ now >= lim.penalty THEN Cut(Told(premium)) ELSE Told(premium), wait)

\* A FLOOD_WAIT of either kind keeps the limiter sane, never raises the rate, and
\* never leaves it cautious.
LEMMA FloodedIsSane ==
    ASSUME RateInv, NEW premium \in BOOLEAN, NEW wait \in Nat
    PROVE  LET l == Flooded(premium, wait)
           IN  /\ Sane(l) /\ l.rate <= lim.rate /\ l.lastFlood = now
               /\ \/ l.mode = "normal"
                  \/ l.mode = "frozen" /\ l.clean = None
               /\ lim.mode = "normal" /\ ~premium => l.mode = "normal"
<1> USE DEF RateInv
<1> DEFINE told == Told(premium)
           m == IF ~premium /\ now >= lim.penalty THEN Cut(told) ELSE told
           l == Flooded(premium, wait)
<1>1. /\ DOMAIN told = DOMAIN lim
      /\ told.rate = lim.rate /\ told.ceiling = lim.ceiling /\ told.probe = lim.probe
      /\ told.lastFlood = now
      /\ told.mode = "normal" \/ (told.mode = "frozen" /\ told.clean = None)
      /\ lim.mode = "normal" /\ ~premium => told.mode = "normal"
  BY DEF Told, Frozen, Sane, LimFields
<1>2. Sane(told)
  BY <1>1 DEF Sane, CeilingIn
<1> HIDE DEF told
<1>3. /\ Sane(m) /\ m.rate <= lim.rate /\ m.lastFlood = now
      /\ m.mode = told.mode /\ m.clean = told.clean
  <2>1. CASE m = told
    BY <1>1, <1>2, <2>1 DEF Sane
  <2>2. CASE m = Cut(told)
    <3>1. PICK e \in BOOLEAN :
             /\ DOMAIN Cut(told) = DOMAIN told
             /\ Cut(told).ceiling = NewCeiling(told, e)
             /\ Cut(told).rate = CutRate(told, NewCeiling(told, e), e)
             /\ Cut(told).probe = None
             /\ Cut(told).mode = told.mode /\ Cut(told).clean = told.clean
             /\ Cut(told).lastFlood = told.lastFlood
      BY <1>2, CutFields
    <3>2. /\ CeilingIn(m) /\ m.rate \in Nat /\ m.rate >= minimum /\ m.rate <= maximum
          /\ m.rate <= m.ceiling /\ m.rate <= told.rate
      BY <1>2, <2>2, <3>1, CutIsSane DEF CeilingIn
    <3>3. Sane(m)
      BY <1>2, <2>2, <3>1, <3>2 DEF Sane
    <3> QED BY <1>1, <2>2, <3>1, <3>2, <3>3
  <2> QED BY <2>1, <2>2
<1>4. l = Penalised(m, wait)
  BY DEF Flooded, told
<1> HIDE DEF m, l
<1>5. /\ DOMAIN l = DOMAIN m /\ l.rate = m.rate /\ l.ceiling = m.ceiling /\ l.probe = m.probe
      /\ l.mode = m.mode /\ l.clean = m.clean /\ l.lastFlood = m.lastFlood
  BY <1>3, <1>4 DEF Penalised, Sane, LimFields
<1>6. Sane(l)
  BY <1>3, <1>5 DEF Sane, CeilingIn
<1> QED BY <1>1, <1>3, <1>5, <1>6 DEF l

\* What a success may do, with what it needs.
LEMMA RaisedKinds ==
    \/ Raised = lim
    \/ Thaws /\ Raised = [lim EXCEPT !.mode = "cautious", !.lastIncrease = now]
    \/ Creeps /\ Raised = RaisedTo(Least(Cap, lim.rate + slow_step))
    \/ Unbounded /\ Raised = RaisedTo(Least(maximum, lim.rate + increase_step))
    \/ Confirms /\ Raised = [lim EXCEPT !.ceiling = Least(maximum, lim.rate), !.probe = None,
                                        !.probeEnded = now, !.cooldown = probe_cooldown]
    \/ Climbs /\ Raised = RaisedTo(Least(SlowZone(lim.ceiling), lim.rate + increase_step))
    \/ Nears /\ Raised = RaisedTo(Least(lim.ceiling, lim.rate + slow_step))
    \/ Probes /\ Raised = [RaisedTo(Least(maximum, lim.rate + probe_step)) EXCEPT !.probe = now]
BY DEF Raised

\* What a raise sets, and what it leaves.
LEMMA RaisedToFields ==
    ASSUME LimFields \subseteq DOMAIN lim, NEW r
    PROVE  /\ DOMAIN RaisedTo(r) = DOMAIN lim
           /\ RaisedTo(r).rate = r /\ RaisedTo(r).ceiling = lim.ceiling
           /\ RaisedTo(r).probe = lim.probe /\ RaisedTo(r).mode = lim.mode
           /\ RaisedTo(r).clean = lim.clean /\ RaisedTo(r).lastFlood = lim.lastFlood
           /\ RaisedTo(r).next = lim.next /\ RaisedTo(r).penalty = lim.penalty
BY DEF RaisedTo, LimFields

\* A raise within the bounds is sane.
LEMMA RaisedToSane ==
    ASSUME Sane(lim), NEW r \in Nat, r >= lim.rate, r <= maximum,
           lim.ceiling # None /\ lim.probe = None => r <= lim.ceiling
    PROVE  Sane(RaisedTo(r))
<1>1. /\ DOMAIN RaisedTo(r) = DOMAIN lim
      /\ RaisedTo(r).rate = r /\ RaisedTo(r).ceiling = lim.ceiling
      /\ RaisedTo(r).probe = lim.probe
  BY RaisedToFields DEF Sane
<1> DEFINE R == lim.rate
<1>2. R \in Nat /\ R >= 50 /\ (lim.probe # None => R >= 100) /\ r >= R
  BY DEF Sane, minimum, ceiling_floor
<1> HIDE DEF R
<1>3. r >= 50 /\ (lim.probe # None => r >= 100)
  BY <1>2
<1> QED BY <1>1, <1>3 DEF Sane, CeilingIn, minimum, ceiling_floor

\* Whatever a success does is sane; it raises the rate only from a cautious or a
\* clean limiter, and moves no reservation.
LEMMA RaisedIsSane ==
    ASSUME RateInv
    PROVE  /\ Sane(Raised) /\ Raised.lastFlood = lim.lastFlood /\ Raised.clean = lim.clean
           /\ Raised.mode = lim.mode \/ (Thaws /\ Raised.mode = "cautious")
           /\ Raised.rate > lim.rate => Creeps \/ Clean
           /\ Raised.next = lim.next /\ Raised.penalty = lim.penalty
<1> DEFINE R == lim.rate
           C == lim.ceiling
<1>1. /\ R \in Nat /\ R >= 50 /\ R <= 1200 /\ (lim.probe # None => R >= 100)
      /\ C # None => C \in Nat /\ C >= 100 /\ C <= 1200
      /\ C # None /\ lim.probe = None => R <= C
      /\ LimFields \subseteq DOMAIN lim /\ Sane(lim)
  BY DEF RateInv, Sane, CeilingIn, minimum, ceiling_floor, maximum
<1> DEFINE Kept(l) == /\ l.lastFlood = lim.lastFlood /\ l.clean = lim.clean
                      /\ l.next = lim.next /\ l.penalty = lim.penalty
<1>2. ASSUME NEW r \in Nat, r >= R, r <= 1200,
             C # None /\ lim.probe = None => r <= C,
             Raised = RaisedTo(r)
      PROVE  Sane(Raised) /\ Kept(Raised) /\ Raised.mode = lim.mode
  BY <1>1, <1>2, RaisedToSane, RaisedToFields DEF maximum
<1>3. CASE Thaws /\ Raised = [lim EXCEPT !.mode = "cautious", !.lastIncrease = now]
  <2>1. /\ DOMAIN Raised = DOMAIN lim /\ Raised.rate = R /\ Raised.ceiling = C
        /\ Raised.probe = lim.probe /\ Kept(Raised) /\ Raised.mode = "cautious"
    BY <1>1, <1>3 DEF LimFields
  <2>2. Sane(Raised)
    BY <1>1, <2>1 DEF Sane, CeilingIn
  <2> QED BY <1>1, <1>3, <2>1, <2>2
<1>4. CASE Creeps /\ Raised = RaisedTo(Least(Cap, lim.rate + slow_step))
  <2> DEFINE cap == Cap
  <2>1. cap = IF C = None \/ C >= 1200 THEN 1200 ELSE C
    BY <1>1, MinMax DEF Cap, maximum
  <2>2. R < cap
    BY <1>4 DEF Creeps
  <2> DEFINE r == Least(Cap, lim.rate + slow_step)
  <2>4. Raised = RaisedTo(r)
    BY <1>4
  <2>3. r = Least(cap, R + 10)
    BY DEF slow_step
  <2> HIDE DEF cap, R, C, r
  <2>5. cap \in Nat /\ cap <= 1200 /\ (C # None => cap <= C) /\ R + 10 \in Nat
    BY <1>1, <2>1
  <2>6. r = IF cap <= R + 10 THEN cap ELSE R + 10
    BY <2>3, <2>5, MinMax
  <2>7. r \in Nat /\ r >= R /\ r <= cap
    BY <1>1, <2>2, <2>5, <2>6
  <2>8. r <= 1200 /\ (C # None => r <= C)
    BY <1>1, <2>5, <2>7
  <2> QED BY <1>2, <1>4, <2>4, <2>7, <2>8
<1>5. CASE Unbounded /\ Raised = RaisedTo(Least(maximum, lim.rate + increase_step))
  <2> DEFINE r == Least(maximum, lim.rate + increase_step)
  <2>1. Raised = RaisedTo(r) /\ C = None
    BY <1>5 DEF Unbounded
  <2>2. r = Least(1200, R + 50)
    BY DEF maximum, increase_step
  <2> HIDE DEF R, C, r
  <2>3. r = IF 1200 <= R + 50 THEN 1200 ELSE R + 50
    BY <1>1, <2>2, MinMax
  <2>4. r \in Nat /\ r >= R /\ r <= 1200
    BY <1>1, <2>3
  <2> QED BY <1>2, <1>5, <2>1, <2>4 DEF Unbounded
<1>6. CASE Confirms /\ Raised = [lim EXCEPT !.ceiling = Least(maximum, lim.rate), !.probe = None,
                                            !.probeEnded = now, !.cooldown = probe_cooldown]
  <2> DEFINE r == Least(maximum, lim.rate)
  <2>1. /\ DOMAIN Raised = DOMAIN lim /\ Raised.rate = R /\ Raised.ceiling = r
        /\ Raised.probe = None /\ Kept(Raised) /\ Raised.mode = lim.mode
    BY <1>1, <1>6 DEF LimFields
  <2>2. r = R /\ R >= 100
    <3>1. Least(1200, R) = R
      BY <1>1, MinMax
    <3> QED BY <1>1, <1>6, <3>1 DEF maximum, Confirms
  <2> HIDE DEF r, R, C
  <2>3. Sane(Raised)
    BY <1>1, <2>1, <2>2 DEF Sane, CeilingIn, minimum, ceiling_floor, maximum
  <2>4. ~(Raised.rate > R)
    BY <1>1, <2>1
  <2> QED BY <2>1, <2>3, <2>4 DEF R
<1>7. CASE Climbs /\ Raised = RaisedTo(Least(SlowZone(lim.ceiling), lim.rate + increase_step))
  <2> DEFINE z == SlowZone(C)
             r == Least(SlowZone(lim.ceiling), lim.rate + increase_step)
  <2>1. Raised = RaisedTo(r) /\ C # None /\ R < z /\ Clean
    BY <1>7 DEF Climbs, Learning
  <2>2. r = Least(z, R + 50)
    BY DEF increase_step
  <2> HIDE DEF R, C, r
  <2>3. z \in Nat /\ 100 * z <= C * 80
    BY <1>1, <2>1, PercentBounds DEF SlowZone
  <2> HIDE DEF z
  <2>4. r = IF z <= R + 50 THEN z ELSE R + 50
    BY <1>1, <2>2, <2>3, MinMax
  <2>5. r \in Nat /\ r >= R /\ r <= 1200 /\ r <= C
    BY <1>1, <2>1, <2>3, <2>4
  <2> QED BY <1>2, <2>1, <2>5
<1>8. CASE Nears /\ Raised = RaisedTo(Least(lim.ceiling, lim.rate + slow_step))
  <2> DEFINE r == Least(lim.ceiling, lim.rate + slow_step)
  <2>1. Raised = RaisedTo(r) /\ C # None /\ R < C /\ Clean
    BY <1>8 DEF Nears, Learning
  <2>2. r = Least(C, R + 10)
    BY DEF slow_step
  <2> HIDE DEF R, C, r
  <2>4. r = IF C <= R + 10 THEN C ELSE R + 10
    BY <1>1, <2>1, <2>2, MinMax
  <2>5. r \in Nat /\ r >= R /\ r <= 1200 /\ r <= C
    BY <1>1, <2>1, <2>4
  <2> QED BY <1>2, <2>1, <2>5
<1>9. CASE /\ Probes
           /\ Raised = [RaisedTo(Least(maximum, lim.rate + probe_step)) EXCEPT !.probe = now]
  <2> DEFINE r == Least(maximum, lim.rate + probe_step)
             l == RaisedTo(r)
  <2>1. Raised = [l EXCEPT !.probe = now] /\ C # None /\ R >= C /\ Clean
    BY <1>9 DEF Probes, Learning
  <2>2. r = Least(1200, R + 20)
    BY DEF probe_step, maximum
  <2>3. /\ DOMAIN l = DOMAIN lim /\ l.rate = r /\ l.ceiling = C /\ Kept(l) /\ l.mode = lim.mode
    BY <1>1, RaisedToFields
  <2> HIDE DEF R, C, r, l
  <2>4. r = IF 1200 <= R + 20 THEN 1200 ELSE R + 20
    BY <1>1, <2>2, MinMax
  <2>5. r \in Nat /\ r >= 100 /\ r <= 1200
    BY <1>1, <2>1, <2>4
  <2>6. /\ DOMAIN Raised = DOMAIN lim /\ Raised.rate = r /\ Raised.ceiling = C
        /\ Raised.probe = now /\ Kept(Raised) /\ Raised.mode = lim.mode
    BY <1>1, <2>1, <2>3 DEF LimFields
  <2>7. now # None
    BY LimiterAssumption DEF RateInv
  <2>8. Sane(Raised)
    BY <1>1, <2>1, <2>5, <2>6, <2>7 DEF Sane, CeilingIn, minimum, ceiling_floor, maximum
  <2> QED BY <2>1, <2>6, <2>8
<1>10. CASE Raised = lim
  <2>1. ~(R > R)
    BY <1>1
  <2> QED BY <1>1, <1>10, <2>1
<1> QED BY <1>3, <1>4, <1>5, <1>6, <1>7, <1>8, <1>9, <1>10, RaisedKinds

-----------------------------------------------------------------------------
\* The limiter of a new process.
LEMMA FreshFields ==
    ASSUME NEW r, NEW c
    PROVE  /\ LimFields \subseteq DOMAIN Fresh(r, c) /\ Fresh(r, c).rate = r
           /\ Fresh(r, c).ceiling = c /\ Fresh(r, c).probe = None
           /\ Fresh(r, c).mode = "normal" /\ Fresh(r, c).next = 0 /\ Fresh(r, c).penalty = 0
BY DEF Fresh, LimFields

\* A restart begins within the bounds, and not above what was learned.
LEMMA RestoredIsSane ==
    ASSUME NEW s, s.rate \in Nat, s.ceiling # None => s.ceiling \in Nat, NEW r, r = Restored(s)
    PROVE  /\ r.rate \in Nat /\ r.rate >= minimum /\ r.rate <= maximum
           /\ r.ceiling # None => CeilingIn(r) /\ r.rate <= r.ceiling
           /\ r.rate <= Greatest(minimum, s.rate)
<1> DEFINE R == s.rate
           C == s.ceiling
           c == IF C = None THEN None ELSE Clamp(100, 1200, C)
           cap == IF c = None THEN 1200 ELSE c
           low == Least(R, cap)
           x == Percent(low, 80)
<1>1. r.ceiling = c /\ r.rate = Clamp(50, 1200, x)
  BY DEF Restored, minimum, maximum, ceiling_floor
<1>2. R \in Nat /\ (C # None => C \in Nat)
  OBVIOUS
<1> HIDE DEF R, C
<1>3. c # None => c \in Nat /\ c >= 100 /\ c <= 1200
  BY <1>2, ClampBounds
<1> HIDE DEF c
<1>4. cap \in Nat /\ cap >= 100 /\ cap <= 1200 /\ (c # None => cap = c)
  BY <1>3
<1> HIDE DEF cap
<1>5. low \in Nat /\ low <= cap /\ low <= R
  BY <1>2, <1>4, MinMax
<1> HIDE DEF low
<1>6. x \in Nat /\ x <= low
  <2>1. x \in Nat /\ 100 * x <= low * 80
    BY <1>5, PercentBounds
  <2> HIDE DEF x
  <2> QED BY <1>5, <2>1
<1> HIDE DEF x
<1>7. r.rate = IF x <= 50 THEN 50 ELSE IF x >= 1200 THEN 1200 ELSE x
  BY <1>1, <1>6, ClampBounds
<1> DEFINE y == r.rate
<1>8. y = IF x <= 50 THEN 50 ELSE IF x >= 1200 THEN 1200 ELSE x
  BY <1>7
<1> HIDE DEF y
<1>9. /\ y \in Nat /\ y >= 50 /\ y <= 1200 /\ y <= cap /\ (y <= R \/ y <= 50)
  BY <1>2, <1>4, <1>5, <1>6, <1>8
<1>10. y <= Greatest(50, R)
  BY <1>2, <1>9, MinMax
<1> QED BY <1>1, <1>3, <1>4, <1>9, <1>10
        DEF y, R, CeilingIn, minimum, maximum, ceiling_floor

\* What a sane limiter saves are numbers.
LEMMA SaneStore ==
    ASSUME NEW l, Sane(l), NEW s, s = [rate |-> l.rate, ceiling |-> l.ceiling]
    PROVE  s.rate \in Nat /\ (s.ceiling # None => s.ceiling \in Nat)
BY DEF Sane, CeilingIn

\* To learn something sane is sane, saved or not.
LEMMA LearnStep ==
    ASSUME RateInv, NEW l, Sane(l), NEW saved \in BOOLEAN, Learn(l, saved)
    PROVE  Sane(lim') /\ StoreInv'
<1>1. lim' = l /\ (store' = store \/ store' = [rate |-> l.rate, ceiling |-> l.ceiling])
  BY DEF Learn, Persist
<1>2. CASE store' = store
  BY <1>1, <1>2 DEF RateInv, StoreInv
<1>3. CASE store' = [rate |-> l.rate, ceiling |-> l.ceiling]
  BY <1>1, <1>3, SaneStore DEF StoreInv
<1> QED BY <1>1, <1>2, <1>3

\* What a reservation leaves alone.
LEMMA NextFields ==
    ASSUME NEW n, LimFields \subseteq DOMAIN lim, NEW l, l = [lim EXCEPT !.next = n]
    PROVE  /\ DOMAIN l = DOMAIN lim /\ l.rate = lim.rate /\ l.ceiling = lim.ceiling
           /\ l.probe = lim.probe /\ l.mode = lim.mode /\ l.clean = lim.clean
           /\ l.lastFlood = lim.lastFlood /\ l.penalty = lim.penalty /\ l.next = n
BY DEF LimFields

-----------------------------------------------------------------------------
\* The places of a sender.
SenderRec == [pc : {"idle", "pacing", "admitted", "sent", "again"}, at : Nat]

\* The moments are numbers.
TimeInv ==
    /\ lim.next \in Int /\ lim.penalty \in Nat
    /\ sender \in [Senders -> SenderRec] /\ sent \in Seq(Nat)
    /\ flooded.at \in Int /\ flooded.until \in Int

\* The rate lies between the lowest and the highest of this process.
RatesInv ==
    /\ rates.low \in Nat /\ rates.high \in Nat
    /\ minimum <= rates.low /\ rates.low <= lim.rate /\ lim.rate <= rates.high

\* The interval between requests is a number.
LEMMA IntervalNat == ASSUME NEW r \in Nat, r >= minimum PROVE Interval(r) \in Nat
BY DEF Interval, minimum

\* A higher rate has a shorter interval.
LEMMA IntervalFalls ==
    ASSUME NEW r \in Nat, r >= minimum, NEW s \in Nat, s >= r
    PROVE  Interval(s) <= Interval(r)
BY DEF Interval, minimum

\* The moment a sender reserves, and what it leaves to the next one.
Reserves(s, slot, at) ==
    /\ slot \in Int /\ at \in Nat
    /\ slot >= lim.next /\ slot >= now - burst * Interval(lim.rate)
    /\ at = IF slot >= now THEN slot ELSE now
    /\ sender' = [sender EXCEPT ![s] = [pc |-> "pacing", at |-> at]]
    /\ lim' = [lim EXCEPT !.next = slot + Interval(lim.rate)]

\* A turn of pace's loop reserves: not before the slot of the last one, not more than
\* the burst in the past, and never to go before now.
LEMMA ReserveFacts ==
    ASSUME RateInv, TimeInv, NEW s \in Senders, Reserve(s)
    PROVE  \E slot, at : Reserves(s, slot, at)
<1> DEFINE interval == Interval(lim.rate)
           earliest == Greatest(now, lim.penalty)
           slot == Greatest(lim.next, earliest - burst * interval)
           at == Greatest(slot, now)
<1>1. /\ sender' = [sender EXCEPT ![s] = [pc |-> "pacing", at |-> at]]
      /\ lim' = [lim EXCEPT !.next = slot + interval]
  BY DEF Reserve
<1>2. interval \in Nat /\ now \in Nat /\ lim.next \in Int /\ lim.penalty \in Nat
  BY IntervalNat DEF RateInv, Sane, TimeInv
<1> HIDE DEF interval
<1> DEFINE next == lim.next
           penalty == lim.penalty
<1> HIDE DEF next, penalty
<1>3. earliest \in Nat /\ earliest >= now
  <2>1. earliest = Greatest(now, penalty) /\ penalty \in Nat
    BY <1>2 DEF penalty
  <2> HIDE DEF earliest
  <2>2. earliest = IF now >= penalty THEN now ELSE penalty
    BY <1>2, <2>1, MinMax
  <2> QED BY <1>2, <2>1, <2>2
<1> HIDE DEF earliest
<1>4. slot \in Int /\ slot >= next /\ slot >= now - burst * interval
  <2>1. slot = Greatest(next, earliest - 2 * interval) /\ next \in Int
    BY <1>2 DEF next, burst
  <2> HIDE DEF slot
  <2>2. earliest - 2 * interval \in Int
    BY <1>2, <1>3
  <2>3. slot = IF next >= earliest - 2 * interval THEN next ELSE earliest - 2 * interval
    BY <2>1, <2>2, MinMax
  <2> QED BY <1>2, <1>3, <2>1, <2>3 DEF burst
<1> HIDE DEF slot
<1>5. at = IF slot >= now THEN slot ELSE now
  BY <1>2, <1>4, MinMax
<1> HIDE DEF at
<1>6. at \in Nat
  BY <1>2, <1>4, <1>5
<1>7. Reserves(s, slot, at)
  BY <1>1, <1>4, <1>5, <1>6 DEF Reserves, interval, next
<1> QED BY <1>7

\* What a reservation sets, and what it leaves.
LEMMA ReservesFields ==
    ASSUME RateInv, TimeInv, NEW s \in Senders, NEW slot, NEW at, Reserves(s, slot, at)
    PROVE  /\ DOMAIN lim' = DOMAIN lim /\ lim'.rate = lim.rate /\ lim'.ceiling = lim.ceiling
           /\ lim'.probe = lim.probe /\ lim'.mode = lim.mode /\ lim'.clean = lim.clean
           /\ lim'.lastFlood = lim.lastFlood /\ lim'.penalty = lim.penalty
           /\ lim'.next = slot + Interval(lim.rate) /\ lim'.next \in Int
           /\ lim'.next >= lim.next
           /\ sender' \in [Senders -> SenderRec]
           /\ sender'[s].pc = "pacing" /\ sender'[s].at = at
           /\ \A t \in Senders \ {s} : sender'[t] = sender[t]
<1>1. /\ lim' = [lim EXCEPT !.next = slot + Interval(lim.rate)] /\ LimFields \subseteq DOMAIN lim
      /\ sender' = [sender EXCEPT ![s] = [pc |-> "pacing", at |-> at]]
      /\ slot \in Int /\ at \in Nat /\ slot >= lim.next
  BY DEF Reserves, RateInv, Sane
<1>2. Interval(lim.rate) \in Nat /\ lim.next \in Int
  BY IntervalNat DEF RateInv, Sane, TimeInv
<1>3. /\ DOMAIN lim' = DOMAIN lim /\ lim'.rate = lim.rate /\ lim'.ceiling = lim.ceiling
      /\ lim'.probe = lim.probe /\ lim'.mode = lim.mode /\ lim'.clean = lim.clean
      /\ lim'.lastFlood = lim.lastFlood /\ lim'.penalty = lim.penalty
      /\ lim'.next = slot + Interval(lim.rate)
  BY <1>1, NextFields
<1>4. lim'.next \in Int /\ lim'.next >= lim.next
  BY <1>1, <1>2, <1>3
<1>5. sender' \in [Senders -> SenderRec]
  BY <1>1 DEF TimeInv, SenderRec
<1>6. /\ sender'[s].pc = "pacing" /\ sender'[s].at = at
      /\ \A t \in Senders \ {s} : sender'[t] = sender[t]
  BY <1>1 DEF TimeInv
<1> QED BY <1>3, <1>4, <1>5, <1>6

\* Time passes forwards.
LEMMA PassFacts ==
    ASSUME RateInv, TimeInv, Pause \/ UntilWake
    PROVE  \E d \in Nat : Pass(d)
<1>1. CASE Pause
  BY <1>1, LimiterAssumption DEF Pause
<1>2. CASE UntilWake
  <2>1. PICK s \in Sleeping : sender[s].at > now /\ Pass(sender[s].at - now)
    BY <1>2 DEF UntilWake
  <2>2. sender[s].at \in Nat /\ now \in Nat
    BY <2>1 DEF TimeInv, RateInv, Sleeping, SenderRec
  <2> DEFINE a == sender[s].at
  <2>3. a - now \in Nat
    <3> HIDE DEF a
    <3> QED BY <2>1, <2>2 DEF a
  <2> QED BY <2>1, <2>3
<1> QED BY <1>1, <1>2

\* The limiter learns nothing in this step, whatever moment it reserves.
Unlearned ==
    /\ DOMAIN lim' = DOMAIN lim /\ lim'.rate = lim.rate /\ lim'.ceiling = lim.ceiling
    /\ lim'.probe = lim.probe /\ lim'.mode = lim.mode /\ lim'.lastFlood = lim.lastFlood
    /\ lim'.penalty = lim.penalty /\ lim'.next \in Int /\ lim'.next >= lim.next
    /\ UNCHANGED <<store, flooded, rates>> /\ (lim'.clean = lim.clean \/ lim'.clean = now)
    /\ now' \in Nat /\ now' >= now

\* The steps, by what they do to what was learned.
LEMMA RateKinds ==
    ASSUME RateInv, TimeInv, [Next]_vars
    PROVE  \/ Unlearned
           \/ Restart
           \/ \E s \in Senders : Success(s)
           \/ \E s \in Senders, seconds \in Waits, premium \in BOOLEAN : Flood(s, seconds, premium)
<1>0. now \in Nat /\ LimFields \subseteq DOMAIN lim /\ lim.next \in Int
  BY DEF RateInv, Sane, TimeInv
<1>1. ASSUME UNCHANGED <<lim, store, flooded, rates>>, now' \in Nat, now' >= now PROVE Unlearned
  <2>1. lim'.next \in Int /\ lim'.next >= lim.next
    BY <1>0, <1>1
  <2> QED BY <1>1, <2>1 DEF Unlearned
<1>2. ASSUME NEW s \in Senders, Reserve(s), UNCHANGED <<now, store, flooded, rates>>
      PROVE  Unlearned
  <2>1. PICK slot, at : Reserves(s, slot, at)
    BY <1>2, ReserveFacts
  <2>2. now' \in Nat /\ now' >= now
    BY <1>0, <1>2
  <2> QED BY <1>2, <2>1, <2>2, ReservesFields DEF Unlearned
<1>3. ASSUME NEW s \in Senders, Admission(s) \/ Wake(s) \/ Revoke(s) \/ Fails(s) PROVE Unlearned
  <2>1. CASE Admission(s)
    BY <1>2, <2>1 DEF Admission
  <2>2. CASE Wake(s)
    BY <1>0, <1>1, <1>2, <2>2 DEF Wake
  <2>3. CASE Revoke(s) \/ Fails(s)
    BY <1>0, <1>1, <2>3 DEF Revoke, Fails
  <2> QED BY <1>3, <2>1, <2>2, <2>3
<1>4. ASSUME NEW s \in Senders, Send(s) PROVE Unlearned
  <2>1. lim' = lim \/ lim' = [lim EXCEPT !.clean = now]
    BY <1>4 DEF Send
  <2>2. UNCHANGED <<now, store, flooded, rates>>
    BY <1>4 DEF Send
  <2>3. CASE lim' = lim
    BY <1>0, <1>1, <2>2, <2>3
  <2>4. CASE lim' = [lim EXCEPT !.clean = now]
    <3>1. /\ DOMAIN lim' = DOMAIN lim /\ lim'.rate = lim.rate /\ lim'.ceiling = lim.ceiling
          /\ lim'.probe = lim.probe /\ lim'.mode = lim.mode /\ lim'.lastFlood = lim.lastFlood
          /\ lim'.penalty = lim.penalty /\ lim'.next = lim.next /\ lim'.clean = now
      BY <1>0, <2>4 DEF LimFields
    <3>2. lim'.next \in Int /\ lim'.next >= lim.next /\ now' \in Nat /\ now' >= now
      BY <1>0, <2>2, <3>1
    <3> QED BY <2>2, <3>1, <3>2 DEF Unlearned
  <2> QED BY <2>1, <2>3, <2>4
<1>5. CASE Pause \/ UntilWake
  <2>1. PICK d \in Nat : Pass(d)
    BY <1>5, PassFacts
  <2> QED BY <1>0, <1>1, <2>1 DEF Pass
<1>6. CASE UNCHANGED vars
  BY <1>0, <1>1, <1>6 DEF vars
<1> QED BY <1>3, <1>4, <1>5, <1>6 DEF Next, SenderStep

\* A FLOOD_WAIT moves penalty and next slot behind its end, and never back.
LEMMA FloodedTimes ==
    ASSUME RateInv, TimeInv, NEW premium \in BOOLEAN, NEW wait \in Nat, NEW l,
           l = Flooded(premium, wait)
    PROVE  /\ l.penalty \in Nat /\ l.penalty >= lim.penalty
           /\ l.penalty >= now + wait + Seconds(1)
           /\ l.next \in Int /\ l.next >= l.penalty /\ l.next >= lim.next
<1> DEFINE told == Told(premium)
           m == IF ~premium /\ now >= lim.penalty THEN Cut(told) ELSE told
           until == Greatest(m.penalty, now + wait + Seconds(1))
<1>1. /\ DOMAIN told = DOMAIN lim /\ told.rate = lim.rate /\ told.ceiling = lim.ceiling
      /\ told.probe = lim.probe /\ told.next = lim.next /\ told.penalty = lim.penalty
  BY DEF Told, Frozen, RateInv, Sane, LimFields
<1>2. Sane(told)
  BY <1>1 DEF RateInv, Sane, CeilingIn
<1>3. /\ l = [m EXCEPT !.penalty = until, !.next = Greatest(m.next, until)]
  BY DEF Flooded, Penalised
<1> HIDE DEF told
<1>4. DOMAIN m = DOMAIN lim /\ m.next = lim.next /\ m.penalty = lim.penalty
  BY <1>1, <1>2, CutFields
<1> HIDE DEF m
<1>5. l.penalty = until /\ l.next = Greatest(m.next, until)
  BY <1>3, <1>4 DEF RateInv, Sane, LimFields
<1> DEFINE p == lim.penalty
           n == lim.next
           e == now + wait + Seconds(1)
<1>6. p \in Nat /\ n \in Int /\ e \in Nat
  BY DEF RateInv, TimeInv, Seconds
<1>7. until = Greatest(p, e)
  BY <1>4
<1> HIDE DEF until, e, p, n
<1>8. until \in Nat /\ until >= p /\ until >= e
  <2>1. until = IF p >= e THEN p ELSE e
    BY <1>6, <1>7, MinMax
  <2> QED BY <1>6, <2>1
<1> DEFINE x == Greatest(n, until)
<1>9. x \in Int /\ x >= n /\ x >= until
  <2>1. x = IF n >= until THEN n ELSE until
    BY <1>6, <1>8, MinMax
  <2> HIDE DEF x
  <2> QED BY <1>6, <1>8, <2>1
<1> QED BY <1>4, <1>5, <1>8, <1>9 DEF p, n, e

\* What a FLOOD_WAIT report does.
LEMMA FloodFacts ==
    ASSUME RateInv, NEW s \in Senders, NEW seconds \in Waits, NEW premium \in BOOLEAN,
           Flood(s, seconds, premium)
    PROVE  \E wait \in Nat :
             /\ lim' = Flooded(premium, wait)
             /\ flooded' = [at |-> now, until |-> Greatest(flooded.until, now + wait + Seconds(1))]
             /\ \E saved \in BOOLEAN : Learn(lim', saved)
             /\ sender[s].pc = "sent" /\ sender' = [sender EXCEPT ![s].pc = "again"]
             /\ UNCHANGED <<now, sent>>
<1> DEFINE wait == WaitSeconds(seconds)
           cuts == ~premium /\ now >= lim.penalty
<1>1. wait \in Nat
  BY LimiterAssumption DEF WaitSeconds, Seconds
<1>2. Learn(Flooded(premium, wait), cuts) /\ cuts \in BOOLEAN
  BY DEF Flood, Flooded, Told
<1>3. lim' = Flooded(premium, wait)
  BY <1>2 DEF Learn
<1> HIDE DEF wait, cuts
<1>4. \E saved \in BOOLEAN : Learn(lim', saved)
  BY <1>2, <1>3
<1> QED BY <1>1, <1>3, <1>4 DEF Flood, wait

\* A restart begins sane, with nobody waiting and nothing sent.
LEMMA RestartFacts ==
    ASSUME RateInv, Restart
    PROVE  /\ Sane(lim') /\ lim'.mode = "normal" /\ lim'.next = 0 /\ lim'.penalty = 0
           /\ lim'.probe = None
           /\ sender' = [s \in Senders |-> Idle] /\ sent' = <<>> /\ flooded' = NoFlood
           /\ UNCHANGED <<now, store>>
           /\ rates' = [low |-> lim'.rate, high |-> lim'.rate]
<1>1. PICK old \in BOOLEAN :
        LET known == store # None /\ ~old
            r == IF known THEN Restored(store) ELSE [rate |-> initial, ceiling |-> None]
        IN  /\ lim' = Fresh(r.rate, r.ceiling)
            /\ rates' = [low |-> r.rate, high |-> r.rate]
  BY DEF Restart
<1> DEFINE known == store # None /\ ~old
           r == IF known THEN Restored(store) ELSE [rate |-> initial, ceiling |-> None]
<1>2. lim' = Fresh(r.rate, r.ceiling) /\ rates' = [low |-> r.rate, high |-> r.rate]
  BY <1>1
<1>3. /\ r.rate \in Nat /\ r.rate >= minimum /\ r.rate <= maximum
      /\ r.ceiling # None => CeilingIn(r) /\ r.rate <= r.ceiling
  <2>1. CASE known
    BY <2>1, RestoredIsSane DEF RateInv, StoreInv
  <2>2. CASE ~known
    BY <2>2 DEF initial, minimum, maximum
  <2> QED BY <2>1, <2>2
<1> HIDE DEF r
<1>4. /\ LimFields \subseteq DOMAIN lim' /\ lim'.rate = r.rate /\ lim'.ceiling = r.ceiling
      /\ lim'.probe = None /\ lim'.mode = "normal" /\ lim'.next = 0 /\ lim'.penalty = 0
  BY <1>2, FreshFields
<1>5. Sane(lim')
  BY <1>3, <1>4 DEF Sane, CeilingIn
<1> QED BY <1>2, <1>4, <1>5 DEF Restart

\* Every step keeps what was learned sane.
LEMMA RateStep ==
    ASSUME RateInv, TimeInv, [Next]_vars
    PROVE  RateInv'
<1>1. CASE Unlearned
  BY <1>1 DEF Unlearned, RateInv, Sane, CeilingIn, StoreInv
<1>2. CASE Restart
  BY <1>2, RestartFacts DEF RateInv, StoreInv
<1>3. ASSUME NEW s \in Senders, Success(s) PROVE RateInv'
  <2>1. Learn(Raised, Raised # lim /\ ~Thaws) /\ now' = now
    BY <1>3 DEF Success
  <2>2. (Raised # lim /\ ~Thaws) \in BOOLEAN
    OBVIOUS
  <2>3. Sane(lim') /\ StoreInv'
    BY <2>1, <2>2, RaisedIsSane, LearnStep
  <2> QED BY <2>1, <2>3 DEF RateInv
<1>4. ASSUME NEW s \in Senders, NEW seconds \in Waits, NEW premium \in BOOLEAN,
             Flood(s, seconds, premium)
      PROVE  RateInv'
  <2>1. PICK wait \in Nat :
             /\ lim' = Flooded(premium, wait) /\ now' = now
             /\ \E saved \in BOOLEAN : Learn(lim', saved)
    BY <1>4, FloodFacts
  <2>2. Sane(lim')
    BY <2>1, FloodedIsSane
  <2>3. StoreInv'
    BY <2>1, <2>2, LearnStep
  <2> QED BY <2>1, <2>2, <2>3 DEF RateInv
<1> QED BY <1>1, <1>2, <1>3, <1>4, RateKinds

\* The first process begins sane.
LEMMA LearningInit == Init => RateInv /\ TimeInv /\ RatesInv
<1> SUFFICES ASSUME Init PROVE RateInv /\ TimeInv /\ RatesInv
  OBVIOUS
<1>1. /\ LimFields \subseteq DOMAIN lim /\ lim.rate = 400 /\ lim.ceiling = None
      /\ lim.probe = None /\ lim.next = 0 /\ lim.penalty = 0
  BY FreshFields DEF Init, initial
<1>2. RateInv
  BY <1>1 DEF Init, RateInv, Sane, StoreInv, Seconds, minimum, maximum
<1>3. TimeInv
  BY <1>1 DEF Init, TimeInv, SenderRec, Idle, NoFlood
<1>4. RatesInv
  BY <1>1 DEF Init, RatesInv, initial, minimum
<1> QED BY <1>2, <1>3, <1>4

\* Every step keeps the moments numbers.
LEMMA TimeStep ==
    ASSUME RateInv, TimeInv, [Next]_vars
    PROVE  TimeInv'
<1>0. lim'.next \in Int /\ lim'.penalty \in Nat /\ flooded'.at \in Int /\ flooded'.until \in Int
  <2>1. CASE Unlearned
    BY <2>1 DEF Unlearned, TimeInv
  <2>2. CASE Restart
    BY <2>2, RestartFacts DEF NoFlood
  <2>3. ASSUME NEW s \in Senders, Success(s)
        PROVE  lim'.next \in Int /\ lim'.penalty \in Nat /\ flooded' = flooded
    BY <2>3, RaisedIsSane DEF Success, Learn, TimeInv
  <2>4. ASSUME NEW s \in Senders, NEW seconds \in Waits, NEW premium \in BOOLEAN,
               Flood(s, seconds, premium)
        PROVE  /\ lim'.next \in Int /\ lim'.penalty \in Nat
               /\ flooded'.at \in Int /\ flooded'.until \in Int
    <3>1. PICK wait \in Nat :
             /\ lim' = Flooded(premium, wait)
             /\ flooded' = [at |-> now, until |-> Greatest(flooded.until, now + wait + Seconds(1))]
      BY <2>4, FloodFacts
    <3>2. lim'.next \in Int /\ lim'.penalty \in Nat
      BY <3>1, FloodedTimes
    <3> DEFINE e == now + wait + Seconds(1)
               u == flooded.until
    <3>3. e \in Int /\ now \in Int /\ u \in Int
      BY DEF RateInv, Seconds, TimeInv
    <3>4. flooded'.at = now /\ flooded'.until = Greatest(u, e)
      BY <3>1
    <3> HIDE DEF e, u
    <3>5. Greatest(u, e) \in Int
      BY <3>3, MinMax
    <3> QED BY <3>2, <3>3, <3>4, <3>5
  <2> QED BY <2>1, <2>2, <2>3, <2>4, RateKinds DEF TimeInv
<1>1. sent' \in Seq(Nat)
  <2>1. sent' = sent \/ sent' = <<>> \/ sent' = Append(sent, now)
    BY DEF Next, vars, SenderStep, Admission, Wake, Revoke, Send, Fails, Success, Flood,
           Restart, Pause, UntilWake, Pass
  <2>2. sent \in Seq(Nat) /\ now \in Nat
    BY DEF TimeInv, RateInv
  <2>3. Append(sent, now) \in Seq(Nat) /\ <<>> \in Seq(Nat)
    BY <2>2
  <2> QED BY <2>1, <2>2, <2>3
<1>2. sender' \in [Senders -> SenderRec]
  <2>1. ASSUME NEW s \in Senders, Reserve(s) PROVE sender' \in [Senders -> SenderRec]
    BY <2>1, ReserveFacts, ReservesFields
  <2>2. ASSUME NEW s \in Senders, NEW pc \in {"admitted", "sent", "again"},
               sender' = [sender EXCEPT ![s].pc = pc]
        PROVE  sender' \in [Senders -> SenderRec]
    BY <2>2 DEF TimeInv, SenderRec
  <2>3. ASSUME NEW s \in Senders, sender' = [sender EXCEPT ![s] = Idle]
        PROVE  sender' \in [Senders -> SenderRec]
    BY <2>3 DEF TimeInv, SenderRec, Idle
  <2>4. CASE sender' = [s \in Senders |-> Idle]
    BY <2>4 DEF SenderRec, Idle
  <2>5. CASE UNCHANGED sender
    BY <2>5 DEF TimeInv
  <2>6. ASSUME NEW s \in Senders, SenderStep(s) PROVE sender' \in [Senders -> SenderRec]
    BY <2>1, <2>2, <2>3, <2>6 DEF SenderStep, Admission, Wake, Revoke, Send, Fails, Success, Flood
  <2>7. CASE Restart \/ Pause \/ UntilWake \/ UNCHANGED vars
    BY <2>4, <2>5, <2>7 DEF Restart, Pause, UntilWake, Pass, vars
  <2> QED BY <2>6, <2>7 DEF Next
<1> QED BY <1>0, <1>1, <1>2 DEF TimeInv

\* The rates of this process only spread, but a restart sets them anew.
Spread ==
    /\ rates'.low \in Nat /\ rates'.low >= minimum /\ rates'.low <= rates.low
    /\ rates'.high \in Nat /\ rates'.high >= rates.high

\* Every step keeps the rate between the two, and between them less room only after a
\* restart.
LEMMA RatesStep ==
    ASSUME RateInv, TimeInv, RatesInv, [Next]_vars
    PROVE  RatesInv' /\ (Spread \/ Restart)
<1> USE DEF minimum
<1>1. CASE Unlearned
  <2>1. RatesInv'
    BY <1>1 DEF Unlearned, RatesInv
  <2>2. Spread
    BY <1>1 DEF Unlearned, RatesInv, Spread
  <2> QED BY <2>1, <2>2
<1>2. CASE Restart
  <2>1. Sane(lim') /\ rates' = [low |-> lim'.rate, high |-> lim'.rate]
    BY <1>2, RestartFacts
  <2> QED BY <1>2, <2>1 DEF Sane, RatesInv
<1>3. ASSUME NEW l, Sane(l), NEW saved \in BOOLEAN, Learn(l, saved) PROVE RatesInv' /\ Spread
  <2> DEFINE r == l.rate
             a == rates.low
             b == rates.high
  <2>1. /\ lim' = l /\ rates' = [low |-> Least(a, r), high |-> Greatest(b, r)]
    BY <1>3 DEF Learn
  <2>2. r \in Nat /\ r >= 50 /\ a \in Nat /\ a >= 50 /\ b \in Nat
    BY <1>3 DEF Sane, RatesInv
  <2>3. rates'.low = Least(a, r) /\ rates'.high = Greatest(b, r) /\ lim'.rate = r
    BY <2>1
  <2> HIDE DEF r, a, b
  <2>4. /\ Least(a, r) = IF a <= r THEN a ELSE r
        /\ Greatest(b, r) = IF b >= r THEN b ELSE r
    BY <2>2, MinMax
  <2>5. /\ Least(a, r) \in Nat /\ Least(a, r) >= 50 /\ Least(a, r) <= a /\ Least(a, r) <= r
        /\ Greatest(b, r) \in Nat /\ Greatest(b, r) >= b /\ Greatest(b, r) >= r
    BY <2>2, <2>4
  <2>6. RatesInv'
    BY <2>3, <2>5 DEF RatesInv
  <2>7. Spread
    BY <2>3, <2>5 DEF Spread, a, b
  <2> QED BY <2>6, <2>7
<1>4. ASSUME NEW s \in Senders, Success(s) PROVE RatesInv' /\ Spread
  <2>1. Learn(Raised, Raised # lim /\ ~Thaws) /\ (Raised # lim /\ ~Thaws) \in BOOLEAN
    BY <1>4 DEF Success
  <2> QED BY <1>3, <2>1, RaisedIsSane
<1>5. ASSUME NEW s \in Senders, NEW seconds \in Waits, NEW premium \in BOOLEAN,
             Flood(s, seconds, premium)
      PROVE  RatesInv' /\ Spread
  <2>1. PICK wait \in Nat : /\ lim' = Flooded(premium, wait)
                            /\ \E saved \in BOOLEAN : Learn(lim', saved)
    BY <1>5, FloodFacts
  <2> QED BY <1>3, <2>1, FloodedIsSane
<1> QED BY <1>1, <1>2, <1>4, <1>5, RateKinds

\* The bounds, as the property states them.
LEMMA BoundedBelow ==
    ASSUME NEW r, r.rate \in Nat, r.rate >= minimum, r.rate <= maximum,
           r.ceiling # None => CeilingIn(r)
    PROVE  Bounded(r)
<1>1. \A x \in Nat : x >= 50 /\ x <= 1200 => x \in 50..1200
  OBVIOUS
<1>2. \A x \in Nat : x >= 100 /\ x <= 1200 => x \in 100..1200
  OBVIOUS
<1>3. /\ r.rate \in Nat /\ r.rate >= 50 /\ r.rate <= 1200
      /\ r.ceiling # None => r.ceiling \in Nat /\ r.ceiling >= 100 /\ r.ceiling <= 1200
  BY DEF CeilingIn, minimum, maximum, ceiling_floor
<1>4. r.rate \in 50..1200 /\ (r.ceiling # None => r.ceiling \in 100..1200)
  <2>1. r.rate \in 50..1200
    <3> DEFINE x == r.rate
    <3>1. x \in Nat /\ x >= 50 /\ x <= 1200
      BY <1>3
    <3> HIDE DEF x
    <3>2. x \in 50..1200
      BY <1>1, <3>1
    <3> QED BY <3>2 DEF x
  <2>2. ASSUME r.ceiling # None PROVE r.ceiling \in 100..1200
    <3> DEFINE x == r.ceiling
    <3>1. x \in Nat /\ x >= 100 /\ x <= 1200
      BY <1>3, <2>2
    <3> HIDE DEF x
    <3>2. x \in 100..1200
      BY <1>2, <3>1
    <3> QED BY <3>2 DEF x
  <2> QED BY <2>1, <2>2
<1> QED BY <1>4 DEF Bounded, minimum, maximum, ceiling_floor

\* Sane learning is the property: a restart begins sane too.
LEMMA SaneLearning == RateInv => LearningIsSane
<1> SUFFICES ASSUME RateInv PROVE LearningIsSane
  OBVIOUS
<1>1. Bounded(lim) /\ (Below(lim) \/ lim.probe # None)
  BY BoundedBelow DEF RateInv, Sane, Below
<1>2. ASSUME store # None
      PROVE  /\ Bounded(Restored(store)) /\ Below(Restored(store))
             /\ Restored(store).rate <= Greatest(minimum, store.rate)
  BY <1>2, RestoredIsSane, BoundedBelow DEF RateInv, StoreInv, Below
<1> QED BY <1>1, <1>2 DEF LearningIsSane

-----------------------------------------------------------------------------
\* After a FLOOD_WAIT of this process the limiter remembers when it was; a frozen one
\* has its clean window opened after it, and a cautious one has thawed a clean window
\* after it.
QuietInv ==
    /\ flooded # NoFlood =>
         /\ flooded.at <= now /\ lim.lastFlood = flooded.at
         /\ lim.mode = "frozen" /\ lim.clean # None => /\ lim.clean \in Int
                                                      /\ lim.clean >= flooded.at
         /\ lim.mode = "cautious" => now - flooded.at >= clean_window

\* The clean window is never shorter than the plain one.
LEMMA WindowIsLong == CleanWindow \in Nat /\ CleanWindow >= clean_window
BY DEF CleanWindow, clean_window, escalated_clean_window, Seconds

\* Whatever raises the rate, or thaws it, has waited for the clean window.
LEMMA QuietBefore ==
    ASSUME RateInv, TimeInv, QuietInv, flooded # NoFlood, Thaws \/ Creeps \/ Clean
    PROVE  now - flooded.at >= clean_window
<1> DEFINE a == flooded.at
<1>0. now \in Nat /\ a \in Int
  BY DEF RateInv, TimeInv
<1>1. CASE Thaws
  <2> DEFINE c == lim.clean
  <2>1. c \in Int /\ c >= a /\ now - c >= 60000
    BY <1>1 DEF Thaws, QuietInv, premium_clean_window, Seconds
  <2> HIDE DEF c, a
  <2> QED BY <1>0, <2>1 DEF clean_window, Seconds, a
<1>2. CASE Creeps
  BY <1>2 DEF Creeps, QuietInv
<1>3. CASE Clean
  <2>1. lim.lastFlood = a /\ a # None
    BY <1>0, LimiterAssumption DEF QuietInv
  <2>2. now - a >= CleanWindow
    BY <1>3, <2>1 DEF Clean, Since
  <2> HIDE DEF a
  <2> QED BY <1>0, <2>2, WindowIsLong DEF clean_window, Seconds, a
<1> QED BY <1>1, <1>2, <1>3

\* Every step keeps that, and raises the rate only a clean window after a FLOOD_WAIT.
LEMMA QuietStep ==
    ASSUME RateInv, TimeInv, QuietInv, [Next]_vars
    PROVE  QuietInv' /\ (lim'.rate > lim.rate /\ sent' # <<>> =>
                           flooded = NoFlood \/ now - flooded.at >= clean_window)
<1> DEFINE R == lim.rate
<1>0. R \in Nat /\ ~(R > R)
  <2>1. R \in Nat
    BY DEF RateInv, Sane
  <2> HIDE DEF R
  <2> QED BY <2>1
<1>1. CASE Unlearned
  <2>1. /\ lim'.rate = R /\ lim'.mode = lim.mode /\ lim'.lastFlood = lim.lastFlood
        /\ flooded' = flooded /\ (lim'.clean = lim.clean \/ lim'.clean = now)
        /\ now' \in Nat /\ now' >= now
    BY <1>1 DEF Unlearned
  <2>2. ASSUME flooded # NoFlood
        PROVE  /\ flooded.at <= now' /\ lim'.lastFlood = flooded.at
               /\ lim'.mode = "frozen" /\ lim'.clean # None => /\ lim'.clean \in Int
                                                              /\ lim'.clean >= flooded.at
               /\ lim'.mode = "cautious" => now' - flooded.at >= clean_window
    <3> DEFINE a == flooded.at
    <3>1. now \in Nat /\ a \in Int /\ a <= now
      BY <2>2 DEF RateInv, TimeInv, QuietInv
    <3>2. lim.mode = "cautious" => now - a >= 20000
      BY <2>2 DEF QuietInv, clean_window, Seconds
    <3>3. lim.mode = "frozen" /\ lim.clean # None => lim.clean \in Int /\ lim.clean >= a
      BY <2>2 DEF QuietInv
    <3>4. lim'.lastFlood = a
      BY <2>1, <2>2 DEF QuietInv
    <3> HIDE DEF a
    <3> DEFINE n == now'
    <3>5. n \in Nat /\ n >= now
      BY <2>1
    <3> HIDE DEF n
    <3>9. a <= n /\ (now - a >= 20000 => n - a >= 20000)
      BY <3>1, <3>5
    <3>7. a <= now' /\ (now - a >= 20000 => now' - a >= 20000)
      BY <3>9 DEF n
    <3>8. a <= now' /\ (lim'.mode = "cautious" => now' - a >= 20000)
      BY <2>1, <3>2, <3>7
    <3>6. lim'.mode = "frozen" /\ lim'.clean # None => lim'.clean \in Int /\ lim'.clean >= a
      BY <2>1, <3>1, <3>3
    <3> QED BY <3>4, <3>6, <3>8 DEF a, clean_window, Seconds
  <2>3. QuietInv'
    BY <2>1, <2>2 DEF QuietInv
  <2> QED BY <1>0, <2>1, <2>3
<1>2. CASE Restart
  BY <1>2, RestartFacts DEF QuietInv
<1>3. ASSUME NEW s \in Senders, Success(s)
      PROVE  QuietInv' /\ (lim'.rate > lim.rate =>
                             flooded = NoFlood \/ now - flooded.at >= clean_window)
  <2>1. /\ lim' = Raised /\ UNCHANGED <<now, flooded>>
    BY <1>3 DEF Success, Learn
  <2>2. /\ lim'.lastFlood = lim.lastFlood /\ lim'.clean = lim.clean
        /\ lim'.mode = lim.mode \/ (Thaws /\ lim'.mode = "cautious")
        /\ lim'.rate > lim.rate => Creeps \/ Clean
    BY <2>1, RaisedIsSane
  <2>3. QuietInv'
    BY <2>1, <2>2, QuietBefore DEF QuietInv
  <2> QED BY <2>2, <2>3, QuietBefore
<1>4. ASSUME NEW s \in Senders, NEW seconds \in Waits, NEW premium \in BOOLEAN,
             Flood(s, seconds, premium)
      PROVE  QuietInv' /\ ~(lim'.rate > lim.rate)
  <2>1. PICK wait \in Nat :
             /\ lim' = Flooded(premium, wait) /\ now' = now
             /\ flooded' = [at |-> now, until |-> Greatest(flooded.until, now + wait + Seconds(1))]
    BY <1>4, FloodFacts
  <2>2. /\ Sane(lim') /\ lim'.rate <= lim.rate /\ lim'.lastFlood = now
        /\ lim'.mode = "normal" \/ (lim'.mode = "frozen" /\ lim'.clean = None)
    BY <2>1, FloodedIsSane
  <2>3. flooded'.at = now /\ now' \in Nat /\ now' = now
    BY <2>1 DEF RateInv
  <2>4. QuietInv'
    BY <2>2, <2>3 DEF QuietInv
  <2>5. ~(lim'.rate > lim.rate)
    <3> DEFINE q == lim'.rate
    <3>1. q \in Nat /\ q <= R
      BY <2>2 DEF Sane
    <3> HIDE DEF q, R
    <3>2. ~(q > R)
      BY <1>0, <3>1
    <3> QED BY <3>2 DEF q, R
  <2> QED BY <2>4, <2>5
<1> QED BY <1>1, <1>2, <1>3, <1>4, RateKinds

-----------------------------------------------------------------------------
(* Pacing. *)

\* In pace's loop, or out of it and about to send: with a moment reserved.
InPace(r) == r.pc \in {"pacing", "admitted"}

\* The senders of f with a moment of x or later.
From(f, x) == {s \in Senders : InPace(f[s]) /\ f[s].at >= x}

\* Those of them that go no later than p.
Upto(f, x, p) == {s \in From(f, x) : f[s].at <= f[p].at}

\* Counting k requests that went already, everybody who waits for a moment of x or
\* later, and the slot after them, comes h apart from x on, less a slack of w.
Paced(f, next, h, x, w, k) ==
    /\ next >= x - w + (k + Cardinality(From(f, x))) * h
    /\ \A p \in From(f, x) : f[p].at >= x - w + (k + Cardinality(Upto(f, x, p)) - 1) * h

\* A state of the senders.
SenderState(f) == f \in [Senders -> SenderRec]

\* Products grow with their first factor.
LEMMA Monotone ==
    ASSUME NEW a \in Int, NEW b \in Int, a <= b, NEW h \in Nat
    PROVE  a * h <= b * h
OBVIOUS

\* Products grow with their second factor.
LEMMA MonotoneIn ==
    ASSUME NEW a \in Nat, NEW g \in Nat, NEW h \in Nat, g <= h
    PROVE  a * g <= a * h
OBVIOUS

\* Sizes of sets of senders.
LEMMA SubsetSizes ==
    ASSUME NEW S \in SUBSET Senders
    PROVE  /\ IsFiniteSet(S) /\ Cardinality(S) \in Nat
           /\ \A T \in SUBSET S : Cardinality(T) \in Nat /\ Cardinality(T) <= Cardinality(S)
           /\ \A T \in SUBSET Senders, s \in Senders :
                T \subseteq S \cup {s} => Cardinality(T) <= Cardinality(S) + 1
           /\ \A s \in S : /\ Cardinality(S) >= 1
                           /\ Cardinality(S \ {s}) = Cardinality(S) - 1
<1>1. IsFiniteSet(S)
  BY FS_Subset, LimiterAssumption
<1>2. Cardinality(S) \in Nat
  BY <1>1, FS_CardinalityType
<1>3. \A T \in SUBSET S : Cardinality(T) \in Nat /\ Cardinality(T) <= Cardinality(S)
  BY <1>1, FS_Subset, FS_CardinalityType
<1>4. ASSUME NEW T \in SUBSET Senders, NEW s \in Senders, T \subseteq S \cup {s}
      PROVE  Cardinality(T) <= Cardinality(S) + 1
  <2>1. IsFiniteSet(S \cup {s}) /\ Cardinality(S \cup {s}) <= Cardinality(S) + 1
    BY <1>1, <1>2, FS_AddElement
  <2>2. Cardinality(T) <= Cardinality(S \cup {s})
    BY <1>4, <2>1, FS_Subset
  <2>3. Cardinality(T) \in Nat /\ Cardinality(S \cup {s}) \in Nat
    BY <1>4, <2>1, FS_Subset, FS_CardinalityType
  <2> QED BY <1>2, <2>1, <2>2, <2>3
<1>5. ASSUME NEW s \in S
      PROVE  Cardinality(S) >= 1 /\ Cardinality(S \ {s}) = Cardinality(S) - 1
  <2>1. IsFiniteSet(S \ {s}) /\ Cardinality(S \ {s}) = Cardinality(S) - 1
    BY <1>1, FS_RemoveElement
  <2>2. Cardinality(S \ {s}) \in Nat
    BY <2>1, FS_CardinalityType
  <2> QED BY <1>2, <2>1, <2>2
<1> QED BY <1>1, <1>2, <1>3, <1>4, <1>5

\* A bound holds for a later moment, more slack, fewer requests, a shorter interval.
LEMMA PacedBound ==
    ASSUME NEW a \in Int, NEW n \in Int, NEW x \in Int, NEW w \in Int, NEW v \in Int,
           NEW i \in Int, NEW j \in Int, NEW g \in Nat, NEW h \in Nat,
           a >= x - w + i * h, n >= a, w <= v, j <= i, 0 <= j, g <= h
    PROVE  n >= x - v + j * g
<1>1. j * h <= i * h
  BY Monotone
<1>2. j * g <= j * h
  BY MonotoneIn
<1>3. i * h \in Int /\ j * h \in Int /\ j * g \in Int
  OBVIOUS
<1> DEFINE ih == i * h
           jh == j * h
           jg == j * g
<1> HIDE DEF ih, jh, jg
<1>4. jh <= ih /\ jg <= jh /\ ih \in Int /\ jh \in Int /\ jg \in Int /\ a >= x - w + ih
  BY <1>1, <1>2, <1>3 DEF ih, jh, jg
<1>5. n >= x - v + jg
  BY <1>4
<1> QED BY <1>5 DEF jg

\* Nobody joins, and whoever stays keeps its moment.
Stays(f, g) == \A s \in Senders : InPace(g[s]) => InPace(f[s]) /\ g[s].at = f[s].at

\* Nobody joins: what was apart stays apart, at a shorter interval too.
LEMMA PacedKept ==
    ASSUME NEW f, SenderState(f), NEW g, SenderState(g), NEW x \in Int,
           NEW v \in Int, NEW w \in Int, v <= w, NEW k \in Nat, NEW m \in Nat, m <= k,
           NEW n \in Int, NEW q \in Int, n <= q, NEW h \in Nat, NEW i \in Nat, i <= h,
           Stays(f, g), Paced(f, n, h, x, v, k)
    PROVE  Paced(g, q, i, x, w, m)
<1> USE DEF Stays
<1>1. From(g, x) \subseteq From(f, x)
  BY DEF From
<1> DEFINE F == From(f, x)
           G == From(g, x)
<1>2. F \in SUBSET Senders /\ G \in SUBSET Senders
  BY DEF From
<1>3. /\ Cardinality(F) \in Nat /\ Cardinality(G) \in Nat /\ Cardinality(G) <= Cardinality(F)
  BY <1>1, <1>2, SubsetSizes
<1>4. q >= x - w + (m + Cardinality(G)) * i
  <2> DEFINE c == Cardinality(F)
             d == Cardinality(G)
  <2>1. n >= x - v + (k + c) * h
    BY DEF Paced
  <2> HIDE DEF c, d, F, G
  <2>2. k + c \in Int /\ m + d \in Int /\ m + d <= k + c /\ 0 <= m + d
    BY <1>3 DEF c, d
  <2>3. q >= x - w + (m + d) * i
    BY <2>1, <2>2, PacedBound
  <2> QED BY <2>3 DEF c, d
<1>5. ASSUME NEW p \in G
      PROVE  g[p].at >= x - w + (m + Cardinality(Upto(g, x, p)) - 1) * i
  <2> DEFINE A == Upto(f, x, p)
             B == Upto(g, x, p)
             c == Cardinality(A)
             d == Cardinality(B)
             a == f[p].at
  <2>1. p \in F /\ g[p].at = a /\ B \subseteq A /\ p \in B /\ a \in Nat
    BY <1>1, <1>5 DEF Upto, From, SenderState, SenderRec
  <2>2. A \in SUBSET Senders /\ B \in SUBSET Senders
    BY DEF Upto, From
  <2>3. c \in Nat /\ d \in Nat /\ d <= c /\ d >= 1
    BY <2>1, <2>2, SubsetSizes
  <2>4. a >= x - v + (k + c - 1) * h
    BY <2>1 DEF Paced
  <2> HIDE DEF A, B, c, d, a
  <2>5. k + c - 1 \in Int /\ m + d - 1 \in Int /\ m + d - 1 <= k + c - 1 /\ 0 <= m + d - 1
    BY <2>3
  <2>6. a \in Int /\ a >= a
    BY <2>1
  <2>7. a >= x - w + (m + d - 1) * i
    BY <2>4, <2>5, <2>6, PacedBound
  <2> QED BY <2>1, <2>7 DEF d, B
<1> QED BY <1>4, <1>5 DEF Paced

\* Only s moves.
Others(f, g, s) == \A t \in Senders \ {s} : g[t] = f[t]

\* A sender takes a slot behind all others.
LEMMA PacedReserve ==
    ASSUME NEW f, SenderState(f), NEW g, SenderState(g), NEW x \in Int, NEW w \in Int,
           NEW k \in Nat, NEW n \in Int, NEW h \in Nat, NEW slot \in Int, slot >= n, NEW i \in Nat, i >= h,
           NEW s \in Senders, g[s].pc = "pacing", g[s].at >= slot,
           Others(f, g, s), Paced(f, n, h, x, w, k)
    PROVE  Paced(g, slot + i, h, x, w, k)
<1> USE DEF Others
<1> DEFINE F == From(f, x)
           G == From(g, x)
           c == Cardinality(F)
           d == Cardinality(G)
<1>1. F \in SUBSET Senders /\ G \in SUBSET Senders /\ G \subseteq F \cup {s}
  BY DEF From
<1>2. c \in Nat /\ d \in Nat /\ d <= c + 1
  BY <1>1, SubsetSizes
<1>3. n >= x - w + (k + c) * h
  BY DEF Paced
<1>4. (k + d) * h <= (k + c + 1) * h /\ (k + c + 1) * h = (k + c) * h + h
  <2> HIDE DEF c, d, F, G
  <2>1. k + d \in Int /\ k + c + 1 \in Int /\ k + d <= k + c + 1
    BY <1>2
  <2> QED BY <1>2, <2>1, Monotone
<1>5. (k + d) * h \in Int /\ (k + c) * h \in Int
  <2> HIDE DEF c, d, F, G
  <2> QED BY <1>2
<1>6. slot + i >= x - w + (k + d) * h
  <2> DEFINE y == (k + d) * h
             z == (k + c) * h
  <2> HIDE DEF y, z
  <2>1. y \in Int /\ z \in Int /\ y <= z + h /\ n >= x - w + z
    BY <1>3, <1>4, <1>5 DEF y, z
  <2>2. slot + i >= x - w + y
    BY <2>1
  <2> QED BY <2>2 DEF y
<1>7. ASSUME NEW p \in G
      PROVE  g[p].at >= x - w + (k + Cardinality(Upto(g, x, p)) - 1) * h
  <2> DEFINE B == Upto(g, x, p)
             b == Cardinality(B)
             a == g[s].at
             e == g[p].at
  <2>1. B \in SUBSET Senders /\ B \subseteq G /\ p \in B /\ a \in Nat /\ e \in Nat
    BY <1>7 DEF Upto, From, SenderState, SenderRec
  <2>2. b \in Nat /\ b >= 1 /\ b <= d
    BY <1>1, <2>1, SubsetSizes
  <2>3. CASE e >= a
    <3> HIDE DEF b, d, c, a, e, B, F, G
    <3>1. n \in Int /\ e >= n /\ k + c \in Int /\ k + b - 1 \in Int
          /\ k + b - 1 <= k + c /\ 0 <= k + b - 1
      BY <1>2, <2>1, <2>2, <2>3 DEF a
    <3>2. e >= x - w + (k + b - 1) * h
      BY <1>3, <2>1, <3>1, PacedBound
    <3> QED BY <3>2 DEF b, e, B
  <2>4. CASE ~(e >= a)
    <3> DEFINE A == Upto(f, x, p)
               u == Cardinality(A)
    <3>9. p # s
      BY <2>1, <2>4
    <3>1. p # s /\ p \in F /\ e = f[p].at
      BY <1>7, <3>9 DEF From
    <3>2. B \subseteq A
      BY <2>4, <3>1 DEF Upto, From
    <3>3. A \in SUBSET Senders
      BY DEF Upto, From
    <3>4. u \in Nat /\ b <= u
      BY <3>2, <3>3, SubsetSizes
    <3>5. e >= x - w + (k + u - 1) * h
      BY <3>1 DEF Paced
    <3> HIDE DEF b, u, d, c, a, e, A, B, F, G
    <3>6. k + u - 1 \in Int /\ k + b - 1 \in Int /\ k + b - 1 <= k + u - 1 /\ 0 <= k + b - 1
      BY <2>2, <3>4
    <3>7. e \in Int /\ e >= e
      BY <2>1
    <3>8. e >= x - w + (k + b - 1) * h
      BY <3>5, <3>6, <3>7, PacedBound
    <3> QED BY <3>8 DEF b, e, B
  <2> QED BY <2>3, <2>4
<1> QED BY <1>6, <1>7 DEF Paced

\* The first one behind a moment.
LEMMA PacedFirst ==
    ASSUME NEW f, SenderState(f), NEW g, SenderState(g), NEW x \in Int, NEW w \in Int,
           NEW h \in Nat, NEW slot \in Int, NEW i \in Nat, i >= h,
           NEW s \in Senders, slot >= x - w, g[s].at >= x - w,
           \A t \in Senders \ {s} : g[t] = f[t],
           From(f, x) = {}
    PROVE  Paced(g, slot + i, h, x, w, 0)
<1> DEFINE G == From(g, x)
           d == Cardinality(G)
<1>1. G \subseteq {s} /\ G \in SUBSET Senders
  BY DEF From
<1>2. d \in Nat /\ d <= 1
  <2>1. d \in Nat
    BY <1>1, SubsetSizes
  <2>2. IsFiniteSet({s}) /\ Cardinality({s}) = 1
    BY FS_Singleton
  <2> QED BY <1>1, <2>1, <2>2, FS_Subset
<1>3. slot + i >= x - w + (0 + d) * h
  <2> HIDE DEF d, G
  <2>1. d = 0 \/ d = 1
    BY <1>2
  <2>2. CASE d = 0
    BY <2>2
  <2>3. CASE d = 1
    BY <2>3
  <2> QED BY <2>1, <2>2, <2>3
<1>4. ASSUME NEW p \in G
      PROVE  g[p].at >= x - w + (0 + Cardinality(Upto(g, x, p)) - 1) * h
  <2> DEFINE B == Upto(g, x, p)
             b == Cardinality(B)
             e == g[p].at
  <2>1. B \in SUBSET Senders /\ B \subseteq G /\ p \in B /\ p = s /\ e \in Nat
    BY <1>1, <1>4 DEF Upto, From, SenderState, SenderRec
  <2>2. b \in Nat /\ b >= 1 /\ b <= d
    BY <1>1, <2>1, SubsetSizes
  <2>3. e >= x - w
    BY <2>1
  <2> HIDE DEF b, d, e, B, G
  <2>4. b = 1
    BY <1>2, <2>2
  <2>5. e >= x - w + (0 + b - 1) * h
    BY <2>1, <2>3, <2>4
  <2> QED BY <2>5 DEF b, e, B
<1> QED BY <1>3, <1>4 DEF Paced

\* The next one goes: the others stay behind it.
LEMMA PacedSend ==
    ASSUME NEW f, SenderState(f), NEW g, SenderState(g), NEW x \in Int, NEW w \in Int,
           NEW k \in Nat, NEW n \in Int, NEW h \in Nat, NEW m \in Nat, m <= k + 1,
           NEW s \in From(f, x), ~InPace(g[s]),
           \A p \in Senders : InPace(f[p]) => f[s].at <= f[p].at,
           \A t \in Senders \ {s} : g[t] = f[t],
           Paced(f, n, h, x, w, k)
    PROVE  Paced(g, n, h, x, w, m) /\ f[s].at >= x - w + k * h
<1> DEFINE F == From(f, x)
           G == From(g, x)
           c == Cardinality(F)
           d == Cardinality(G)
<1>0. s \in Senders /\ InPace(f[s])
  BY DEF From
<1>1. F \in SUBSET Senders /\ G = F \ {s}
  BY <1>0 DEF From
<1>2. c \in Nat /\ c >= 1 /\ d = c - 1
  BY <1>1, SubsetSizes
<1>3. n >= x - w + (m + d) * h
  <2>1. n >= x - w + (k + c) * h
    BY DEF Paced
  <2> HIDE DEF c, d, F, G
  <2>2. k + c \in Int /\ m + d \in Int /\ m + d <= k + c /\ 0 <= m + d /\ n >= n
        /\ w <= w /\ h <= h
    BY <1>2
  <2> QED BY <2>1, <2>2, PacedBound
<1>4. ASSUME NEW p \in G
      PROVE  g[p].at >= x - w + (m + Cardinality(Upto(g, x, p)) - 1) * h
  <2> DEFINE A == Upto(f, x, p)
             B == Upto(g, x, p)
             a == Cardinality(A)
             b == Cardinality(B)
             e == f[p].at
  <2>1. p \in F /\ p # s /\ g[p].at = e /\ e \in Nat /\ InPace(f[p])
    BY <1>1, <1>4 DEF From, SenderState, SenderRec
  <2>2. s \in A /\ A \in SUBSET Senders /\ B = A \ {s} /\ p \in B
    BY <1>0, <1>1, <1>4, <2>1 DEF Upto, From
  <2>5. B \in SUBSET Senders
    BY <2>2
  <2>3. a \in Nat /\ b = a - 1 /\ b >= 1
    BY <2>2, <2>5, SubsetSizes
  <2>4. e >= x - w + (k + a - 1) * h
    BY <2>1 DEF Paced
  <2> HIDE DEF A, B, a, b, c, d, e, F, G
  <2>6. k + a - 1 \in Int /\ m + b - 1 \in Int /\ m + b - 1 <= k + a - 1 /\ 0 <= m + b - 1
        /\ e \in Int /\ e >= e /\ w <= w /\ h <= h
    BY <2>1, <2>3
  <2>7. e >= x - w + (m + b - 1) * h
    BY <2>4, <2>6, PacedBound
  <2> QED BY <2>1, <2>7 DEF b, B, e
<1>5. f[s].at >= x - w + k * h
  <2> DEFINE A == Upto(f, x, s)
             a == Cardinality(A)
             e == f[s].at
  <2>1. s \in A /\ A \in SUBSET Senders /\ e \in Nat
    BY <1>0 DEF Upto, From, SenderState, SenderRec
  <2>2. a \in Nat /\ a >= 1
    BY <2>1, SubsetSizes
  <2>3. e >= x - w + (k + a - 1) * h
    BY DEF Paced
  <2> HIDE DEF A, a, e
  <2>4. k + a - 1 \in Int /\ k \in Int /\ k <= k + a - 1 /\ 0 <= k /\ e \in Int /\ e >= e
        /\ w <= w /\ h <= h
    BY <2>1, <2>2
  <2>5. e >= x - w + k * h
    BY <2>3, <2>4, PacedBound
  <2> QED BY <2>5 DEF e
<1> QED BY <1>3, <1>4, <1>5 DEF Paced

-----------------------------------------------------------------------------
\* Nothing was sent in the future, the penalty covers the last FLOOD_WAIT, a sleeper
\* wakes in the future, and who is admitted goes now: behind the FLOOD_WAIT, or in the
\* moment it was reported.
ClockInv ==
    /\ \A i \in DOMAIN sent : sent[i] <= now
    /\ flooded.until <= lim.penalty
    /\ flooded # NoFlood => flooded.at <= now /\ flooded.at < flooded.until
    /\ \A s \in Senders :
         /\ sender[s].pc = "pacing" => sender[s].at >= now
         /\ sender[s].pc = "admitted" =>
              sender[s].at = now /\ (now >= flooded.until \/ now = flooded.at)

\* The shortest interval so far.
Short == Interval(rates.high)

\* The burst at the lowest rate so far.
Slack == burst * Interval(rates.low)

\* The requests sent since the last FLOOD_WAIT.
SinceFlood == {i \in DOMAIN sent : sent[i] > flooded.at}

\* Behind any moment the waiting ones come an interval apart, less the burst.
BurstInv == \A x \in Int : From(sender, x) # {} => Paced(sender, lim.next, Short, x, Slack, 0)

\* The same behind a request, with all that were sent since.
SentInv == \A i \in DOMAIN sent :
    Paced(sender, lim.next, Short, sent[i], Slack, Len(sent) - i + 1)

\* Behind a moment of the future there is no burst: it is credit for the past.
AheadInv == \A x \in Int :
    x > now /\ From(sender, x) # {} => Paced(sender, lim.next, Short, x, 0, 0)

\* Behind the end of the last FLOOD_WAIT there is none either, with all that were sent
\* since it was reported.
FloodInv == flooded # NoFlood =>
    Paced(sender, lim.next, Short, flooded.until, 0, Cardinality(SinceFlood))

\* How the waiting ones are paced, and with it the two properties of what was sent.
PaceInv == BurstInv /\ SentInv /\ AheadInv /\ FloodInv /\ BurstBounded /\ FloodIsHonoured

\* What the lemmas on pacing take as known.
Known == RateInv /\ TimeInv /\ RatesInv

\* The gaps are numbers.
LEMMA Gaps ==
    ASSUME RateInv, RatesInv
    PROVE  Short \in Nat /\ Slack \in Nat
<1> DEFINE a == rates.low
           b == rates.high
           r == lim.rate
<1>1. a \in Nat /\ b \in Nat /\ r \in Nat /\ 50 <= a /\ a <= r /\ r <= b
  BY DEF RatesInv, RateInv, Sane, minimum
<1>2. Short = Interval(b) /\ Slack = 2 * Interval(a)
  BY DEF Short, Slack, burst
<1> HIDE DEF a, b, r
<1>3. Interval(b) \in Nat /\ Interval(a) \in Nat
  BY <1>1, IntervalNat DEF minimum
<1> QED BY <1>2, <1>3

\* Within a process the shortest interval only shrinks, and the slack only grows.
LEMMA GapsStep ==
    ASSUME RateInv, RatesInv, Spread
    PROVE  Short' \in Nat /\ Slack' \in Nat /\ Short' <= Short /\ Slack <= Slack'
<1> DEFINE a == rates.low
           b == rates.high
           c == rates'.low
           d == rates'.high
<1>1. /\ a \in Nat /\ b \in Nat /\ c \in Nat /\ d \in Nat
      /\ 50 <= c /\ c <= a /\ a <= b /\ b <= d
  <2>1. a \in Nat /\ b \in Nat /\ c \in Nat /\ d \in Nat /\ 50 <= c /\ c <= a /\ b <= d
    BY DEF RatesInv, Spread, minimum
  <2> DEFINE r == lim.rate
  <2>2. r \in Nat /\ a <= r /\ r <= b
    BY DEF RatesInv, RateInv, Sane
  <2> HIDE DEF a, b, c, d, r
  <2> QED BY <2>1, <2>2
<1>2. /\ Short = Interval(b) /\ Short' = Interval(d)
      /\ Slack = 2 * Interval(a) /\ Slack' = 2 * Interval(c)
  BY DEF Short, Slack, burst
<1> HIDE DEF a, b, c, d
<1>3. Interval(d) \in Nat /\ Interval(c) \in Nat /\ Interval(a) \in Nat
  BY <1>1, IntervalNat DEF minimum
<1>4. Interval(d) <= Interval(b) /\ Interval(a) <= Interval(c)
  BY <1>1, IntervalFalls DEF minimum
<1> QED BY <1>2, <1>3, <1>4

\* What was sent is a finite sequence of moments.
LEMMA SentFacts ==
    ASSUME TimeInv
    PROVE  /\ Len(sent) \in Nat /\ DOMAIN sent = 1..Len(sent) /\ IsFiniteSet(DOMAIN sent)
           /\ \A i \in DOMAIN sent : sent[i] \in Nat
           /\ IsFiniteSet(SinceFlood) /\ Cardinality(SinceFlood) \in Nat
<1>1. Len(sent) \in Nat /\ DOMAIN sent = 1..Len(sent) /\ \A i \in DOMAIN sent : sent[i] \in Nat
  BY DEF TimeInv
<1>2. IsFiniteSet(DOMAIN sent)
  BY <1>1, FS_Interval
<1>3. IsFiniteSet(SinceFlood)
  BY <1>2, FS_Subset DEF SinceFlood
<1> QED BY <1>1, <1>2, <1>3, FS_CardinalityType

\* Nobody joins the queue: all gaps stay.
LEMMA StayStep ==
    ASSUME Known, TimeInv', Spread, PaceInv, Stays(sender, sender'), sent' = sent,
           lim'.next >= lim.next,
           now' \in Nat, now' >= now
    PROVE  /\ (BurstInv /\ SentInv /\ AheadInv /\ BurstBounded)'
           /\ \A x \in Int, k \in Nat : Paced(sender, lim.next, Short, x, 0, k) =>
                Paced(sender', lim'.next, Short', x, 0, k)
<1> DEFINE f == sender
           g == sender'
           n == lim.next
           q == lim'.next
           h == Short
           i == Short'
           v == Slack
           w == Slack'
<1>1. /\ SenderState(f) /\ SenderState(g) /\ n \in Int /\ q \in Int /\ n <= q /\ Stays(f, g)
  BY DEF Known, TimeInv, SenderState
<1>2. h \in Nat /\ i \in Nat /\ i <= h /\ v \in Nat /\ w \in Nat /\ v <= w
  BY Gaps, GapsStep DEF Known
<1>3. now \in Nat
  BY DEF Known, RateInv
<1>4. /\ BurstInv' <=> \A x \in Int : From(g, x) # {} => Paced(g, q, i, x, w, 0)
      /\ BurstInv <=> \A x \in Int : From(f, x) # {} => Paced(f, n, h, x, v, 0)
      /\ AheadInv' <=> \A x \in Int : x > now' /\ From(g, x) # {} => Paced(g, q, i, x, 0, 0)
      /\ AheadInv <=> \A x \in Int : x > now /\ From(f, x) # {} => Paced(f, n, h, x, 0, 0)
  BY DEF BurstInv, AheadInv
<1>5. /\ SentInv' <=> \A j \in DOMAIN sent : Paced(g, q, i, sent[j], w, Len(sent) - j + 1)
      /\ SentInv <=> \A j \in DOMAIN sent : Paced(f, n, h, sent[j], v, Len(sent) - j + 1)
  BY DEF SentInv
<1>6. /\ BurstBounded' <=> \A a, b \in DOMAIN sent : a < b => (b - a) * i <= sent[b] - sent[a] + w
      /\ BurstBounded <=> \A a, b \in DOMAIN sent : a < b => (b - a) * h <= sent[b] - sent[a] + v
  BY DEF BurstBounded, Short, Slack
<1>7. /\ Len(sent) \in Nat /\ DOMAIN sent = 1..Len(sent)
      /\ \A j \in DOMAIN sent : sent[j] \in Nat
  BY SentFacts DEF Known
<1>8. BurstInv /\ SentInv /\ AheadInv /\ BurstBounded
  BY DEF PaceInv
<1>16. now' \in Nat /\ now' >= now
  OBVIOUS
<1> HIDE DEF f, g, n, q, h, i, v, w
<1>9. ASSUME NEW x \in Int, NEW y \in Int, NEW z \in Int, y <= z, NEW k \in Nat,
             Paced(f, n, h, x, y, k)
      PROVE  Paced(g, q, i, x, z, k)
  <2>1. k <= k
    OBVIOUS
  <2> QED BY <1>1, <1>2, <1>9, <2>1, PacedKept
<1>10. \A x \in Int : From(g, x) # {} => From(f, x) # {}
  BY <1>1 DEF From, Stays
<1>11. BurstInv'
  BY <1>2, <1>4, <1>8, <1>9, <1>10
<1>12. SentInv'
  <2>1. ASSUME NEW j \in DOMAIN sent PROVE Paced(g, q, i, sent[j], w, Len(sent) - j + 1)
    <3>1. Len(sent) - j + 1 \in Nat /\ sent[j] \in Int
      BY <1>7, <2>1
    <3> QED BY <1>2, <1>5, <1>8, <1>9, <2>1, <3>1
  <2> QED BY <1>5, <2>1
<1>13. AheadInv'
  <2>1. ASSUME NEW x \in Int, x > now', From(g, x) # {} PROVE Paced(g, q, i, x, 0, 0)
    <3>1. x > now
      <4> DEFINE t == now'
      <4>1. t \in Nat /\ t >= now /\ x > t
        BY <1>16, <2>1
      <4> HIDE DEF t
      <4> QED BY <1>3, <4>1
    <3> QED BY <1>4, <1>8, <1>9, <1>10, <2>1, <3>1
  <2> QED BY <1>4, <2>1
<1>14. BurstBounded'
  <2>1. ASSUME NEW a \in DOMAIN sent, NEW b \in DOMAIN sent, a < b
        PROVE  (b - a) * i <= sent[b] - sent[a] + w
    <3>1. b - a \in Nat /\ sent[a] \in Nat /\ sent[b] \in Nat
      BY <1>7, <2>1
    <3>2. (b - a) * h <= sent[b] - sent[a] + v
      BY <1>6, <1>8, <2>1
    <3> DEFINE d == b - a
               A == sent[a]
               B == sent[b]
    <3>3. d \in Nat /\ A \in Nat /\ B \in Nat /\ d * h <= B - A + v
      BY <3>1, <3>2
    <3> HIDE DEF d, A, B
    <3>4. d * i <= d * h
      BY <1>2, <3>3, MonotoneIn
    <3>5. d * i \in Int /\ d * h \in Int
      BY <1>2, <3>3
    <3>6. d * i <= B - A + w
      BY <1>2, <3>3, <3>4, <3>5
    <3> QED BY <3>6 DEF d, A, B
  <2> QED BY <1>6, <2>1
<1>15. \A x \in Int, k \in Nat : Paced(f, n, h, x, 0, k) => Paced(g, q, i, x, 0, k)
  BY <1>9
<1> QED BY <1>11, <1>12, <1>13, <1>14, <1>15 DEF f, g, n, q, h, i

\* A reservation: the sender goes behind everybody, or behind nobody and then with the
\* burst's credit.
LEMMA JoinStep ==
    ASSUME Known, TimeInv', PaceInv, NEW s \in Senders, NEW slot, NEW at, Reserves(s, slot, at),
           UNCHANGED <<now, sent, rates, flooded>>
    PROVE  PaceInv'
<1> DEFINE f == sender
           g == sender'
           n == lim.next
           h == Short
           w == Slack
           d == Interval(lim.rate)
<1>1. /\ SenderState(f) /\ SenderState(g) /\ n \in Int /\ now \in Nat
      /\ slot \in Int /\ at \in Nat /\ slot >= n /\ slot >= now - 2 * d
      /\ at = IF slot >= now THEN slot ELSE now
      /\ g[s].pc = "pacing" /\ g[s].at = at /\ \A t \in Senders \ {s} : g[t] = f[t]
      /\ lim'.next = slot + d
  BY ReservesFields DEF Known, TimeInv, RateInv, SenderState, Reserves, burst
<1>2. h \in Nat /\ w \in Nat /\ d \in Nat /\ h <= d /\ 2 * d <= w
  <2> DEFINE a == rates.low
             b == rates.high
             r == lim.rate
  <2>1. a \in Nat /\ b \in Nat /\ r \in Nat /\ 50 <= a /\ a <= r /\ r <= b
    BY DEF Known, RatesInv, RateInv, Sane, minimum
  <2>2. h = Interval(b) /\ w = 2 * Interval(a) /\ d = Interval(r)
    BY DEF Short, Slack, burst
  <2> HIDE DEF a, b, r, h, w, d
  <2>3. Interval(a) \in Nat /\ Interval(r) \in Nat /\ Interval(b) \in Nat
    BY <2>1, IntervalNat DEF minimum
  <2>4. Interval(r) <= Interval(a) /\ Interval(b) <= Interval(r)
    BY <2>1, IntervalFalls DEF minimum
  <2> QED BY <2>2, <2>3, <2>4
<1>3. Short' = h /\ Slack' = w
  BY DEF Short, Slack
<1>4. /\ BurstInv' <=> \A x \in Int : From(g, x) # {} => Paced(g, slot + d, h, x, w, 0)
      /\ BurstInv <=> \A x \in Int : From(f, x) # {} => Paced(f, n, h, x, w, 0)
      /\ AheadInv' <=> \A x \in Int : x > now /\ From(g, x) # {} => Paced(g, slot + d, h, x, 0, 0)
      /\ AheadInv <=> \A x \in Int : x > now /\ From(f, x) # {} => Paced(f, n, h, x, 0, 0)
  BY <1>1, <1>3 DEF BurstInv, AheadInv
<1>5. /\ SentInv' <=> \A j \in DOMAIN sent : Paced(g, slot + d, h, sent[j], w, Len(sent) - j + 1)
      /\ SentInv <=> \A j \in DOMAIN sent : Paced(f, n, h, sent[j], w, Len(sent) - j + 1)
  BY <1>1, <1>3 DEF SentInv
<1>6. /\ FloodInv' <=> (flooded # NoFlood =>
           Paced(g, slot + d, h, flooded.until, 0, Cardinality(SinceFlood)))
      /\ FloodInv <=> (flooded # NoFlood =>
           Paced(f, n, h, flooded.until, 0, Cardinality(SinceFlood)))
  BY <1>1, <1>3 DEF FloodInv, SinceFlood, NoFlood
<1>7. (BurstBounded /\ FloodIsHonoured)'
  BY DEF PaceInv, BurstBounded, FloodIsHonoured
<1>8. /\ Len(sent) \in Nat /\ DOMAIN sent = 1..Len(sent) /\ Cardinality(SinceFlood) \in Nat
      /\ \A j \in DOMAIN sent : sent[j] \in Nat
      /\ flooded.until \in Int
  BY SentFacts DEF Known, TimeInv
<1>9. BurstInv /\ SentInv /\ AheadInv /\ FloodInv
  BY DEF PaceInv
<1> HIDE DEF f, g, n, h, w, d
<1>10. ASSUME NEW x \in Int, NEW y \in Int, NEW k \in Nat, Paced(f, n, h, x, y, k)
       PROVE  Paced(g, slot + d, h, x, y, k)
  <2>1. g[s].pc = "pacing" /\ g[s].at >= slot /\ Others(f, g, s)
    BY <1>1 DEF Others
  <2> QED BY <1>1, <1>2, <1>10, <2>1, PacedReserve
<1>11. ASSUME NEW x \in Int, NEW y \in Int, From(f, x) = {}, slot >= x - y, at >= x, 0 <= y
       PROVE  Paced(g, slot + d, h, x, y, 0)
  <2>1. g[s].at >= x - y
    BY <1>1, <1>11
  <2> QED BY <1>1, <1>2, <1>11, <2>1, PacedFirst
<1>12. ASSUME NEW x \in Int, From(f, x) = {}, From(g, x) # {} PROVE at >= x
  <2>1. PICK t \in Senders : InPace(g[t]) /\ g[t].at >= x
    BY <1>12 DEF From
  <2>2. t = s
    BY <1>1, <1>12, <2>1 DEF From
  <2> QED BY <1>1, <2>1, <2>2
<1>13. BurstInv'
  <2>1. ASSUME NEW x \in Int, From(g, x) # {} PROVE Paced(g, slot + d, h, x, w, 0)
    <3>1. CASE From(f, x) # {}
      BY <1>2, <1>4, <1>9, <1>10, <3>1
    <3>2. CASE From(f, x) = {}
      <4>1. at >= x
        BY <1>12, <2>1, <3>2
      <4>2. slot >= x - w
        BY <1>1, <1>2, <4>1
      <4> QED BY <1>2, <1>11, <3>2, <4>1, <4>2
    <3> QED BY <3>1, <3>2
  <2> QED BY <1>4, <2>1
<1>14. SentInv'
  <2>1. ASSUME NEW j \in DOMAIN sent
        PROVE  Paced(g, slot + d, h, sent[j], w, Len(sent) - j + 1)
    <3>1. Len(sent) - j + 1 \in Nat /\ sent[j] \in Int
      BY <1>8, <2>1
    <3> QED BY <1>2, <1>5, <1>9, <1>10, <2>1, <3>1
  <2> QED BY <1>5, <2>1
<1>15. AheadInv'
  <2>1. ASSUME NEW x \in Int, x > now, From(g, x) # {} PROVE Paced(g, slot + d, h, x, 0, 0)
    <3>1. CASE From(f, x) # {}
      BY <1>4, <1>9, <1>10, <2>1, <3>1
    <3>2. CASE From(f, x) = {}
      <4>1. at >= x
        BY <1>12, <2>1, <3>2
      <4>2. slot >= x - 0
        BY <1>1, <2>1, <4>1
      <4> QED BY <1>11, <3>2, <4>1, <4>2
    <3> QED BY <3>1, <3>2
  <2> QED BY <1>4, <2>1
<1>16. FloodInv'
  BY <1>6, <1>8, <1>9, <1>10
<1> QED BY <1>7, <1>13, <1>14, <1>15, <1>16 DEF PaceInv

\* A request that goes: it was the first of the waiting ones, and what was known of its
\* moment is now known of the request.
LEMMA SendStep ==
    ASSUME Known, TimeInv', ClockInv, PaceInv, NEW s \in Senders, Send(s)
    PROVE  PaceInv'
<1> DEFINE f == sender
           g == sender'
           n == lim.next
           h == Short
           w == Slack
           L == Len(sent)
<1>1. /\ SenderState(f) /\ SenderState(g) /\ n \in Int /\ now \in Nat
      /\ InPace(f[s]) /\ f[s].at = now /\ (now >= flooded.until \/ now = flooded.at)
      /\ g[s].pc = "sent" /\ \A t \in Senders \ {s} : g[t] = f[t]
      /\ sent' = Append(sent, now) /\ UNCHANGED <<now, rates, flooded>>
      /\ \A p \in Senders : InPace(f[p]) => f[s].at <= f[p].at
  <2>1. SenderState(f) /\ SenderState(g) /\ n \in Int /\ now \in Nat
    BY DEF Known, TimeInv, RateInv, SenderState
  <2>2. /\ f[s].pc = "admitted" /\ g = [f EXCEPT ![s].pc = "sent"]
        /\ sent' = Append(sent, now) /\ UNCHANGED <<now, rates, flooded>>
    BY DEF Send
  <2>3. f[s].at = now /\ (now >= flooded.until \/ now = flooded.at)
    BY <2>2 DEF ClockInv
  <2>4. g[s].pc = "sent" /\ \A t \in Senders \ {s} : g[t] = f[t]
    BY <2>1, <2>2 DEF SenderState, SenderRec
  <2>5. \A p \in Senders : InPace(f[p]) => now <= f[p].at
    BY <2>1 DEF ClockInv, InPace, SenderState, SenderRec
  <2> QED BY <2>1, <2>2, <2>3, <2>4, <2>5 DEF InPace
<1>2. h \in Nat /\ w \in Nat /\ Short' = h /\ Slack' = w
  BY <1>1, Gaps DEF Known, Short, Slack
<1>3. lim'.next = n
  BY DEF Send, Known, RateInv, Sane, LimFields
<1>4. /\ L \in Nat /\ DOMAIN sent = 1..L /\ Cardinality(SinceFlood) \in Nat
      /\ \A j \in DOMAIN sent : sent[j] \in Nat /\ sent[j] <= now
      /\ flooded.until \in Int /\ flooded.at \in Int /\ IsFiniteSet(SinceFlood)
  BY SentFacts DEF Known, TimeInv, ClockInv
<1>5. /\ Len(sent') = L + 1 /\ DOMAIN sent' = 1..(L + 1) /\ sent'[L + 1] = now
      /\ \A j \in 1..L : sent'[j] = sent[j]
  BY <1>1, <1>4 DEF Known, TimeInv
<1>6. /\ BurstInv' <=> \A x \in Int : From(g, x) # {} => Paced(g, n, h, x, w, 0)
      /\ BurstInv <=> \A x \in Int : From(f, x) # {} => Paced(f, n, h, x, w, 0)
      /\ AheadInv' <=> \A x \in Int : x > now /\ From(g, x) # {} => Paced(g, n, h, x, 0, 0)
      /\ AheadInv <=> \A x \in Int : x > now /\ From(f, x) # {} => Paced(f, n, h, x, 0, 0)
  BY <1>1, <1>2, <1>3 DEF BurstInv, AheadInv
<1>7. /\ SentInv' <=> \A j \in 1..(L + 1) : Paced(g, n, h, sent'[j], w, L + 1 - j + 1)
      /\ SentInv <=> \A j \in 1..L : Paced(f, n, h, sent[j], w, L - j + 1)
  <2>1. SentInv <=> \A j \in 1..L : Paced(f, n, h, sent[j], w, L - j + 1)
    BY <1>4 DEF SentInv
  <2>2. SentInv' <=> \A j \in DOMAIN sent' : Paced(g, n, h, sent'[j], w, Len(sent') - j + 1)
    BY <1>2, <1>3 DEF SentInv
  <2> DEFINE P(j, k) == Paced(g, n, h, sent'[j], w, k)
             M == Len(sent')
             D == DOMAIN sent'
  <2>3. M = L + 1 /\ D = 1..(L + 1) /\ L \in Nat
    BY <1>4, <1>5
  <2>4. SentInv' <=> \A j \in D : P(j, M - j + 1)
    BY <2>2
  <2> HIDE DEF P, M, D, L
  <2>5. SentInv' <=> \A j \in 1..(L + 1) : P(j, L + 1 - j + 1)
    <3>1. \A j \in 1..(L + 1) : M - j + 1 = L + 1 - j + 1
      BY <2>3
    <3>2. SentInv' <=> \A j \in 1..(L + 1) : P(j, M - j + 1)
      BY <2>3, <2>4
    <3> QED BY <3>1, <3>2
  <2>6. SentInv' <=> \A j \in 1..(L + 1) : Paced(g, n, h, sent'[j], w, L + 1 - j + 1)
    BY <2>5 DEF P
  <2> QED BY <2>1, <2>6 DEF L
<1>8. /\ FloodInv' <=> (flooded # NoFlood =>
           Paced(g, n, h, flooded.until, 0, Cardinality(SinceFlood')))
      /\ FloodInv <=> (flooded # NoFlood =>
           Paced(f, n, h, flooded.until, 0, Cardinality(SinceFlood)))
  BY <1>1, <1>2, <1>3 DEF FloodInv, NoFlood
<1>9. BurstInv /\ SentInv /\ AheadInv /\ FloodInv /\ BurstBounded /\ FloodIsHonoured
  BY DEF PaceInv
<1>10. /\ BurstBounded' <=> \A a, b \in 1..(L + 1) :
                             a < b => (b - a) * h <= sent'[b] - sent'[a] + w
       /\ BurstBounded <=> \A a, b \in 1..L : a < b => (b - a) * h <= sent[b] - sent[a] + w
  BY <1>1, <1>2, <1>4, <1>5 DEF BurstBounded, Short, Slack
<1>11. FloodIsHonoured' <=> (flooded # NoFlood /\ SinceFlood' # {} =>
           now >= flooded.until + (Cardinality(SinceFlood') - 1) * h)
  BY <1>1, <1>2, <1>5 DEF FloodIsHonoured, SinceFlood, NoFlood, Short
<1>12. /\ SinceFlood' = {j \in 1..(L + 1) : sent'[j] > flooded.at}
       /\ SinceFlood = {j \in 1..L : sent[j] > flooded.at}
  BY <1>1, <1>4, <1>5 DEF SinceFlood
<1> HIDE DEF f, g, n, h, w, L
<1>13. ASSUME NEW x \in Int, x <= now, NEW y \in Int, NEW k \in Nat, NEW m \in Nat, m <= k + 1,
              Paced(f, n, h, x, y, k)
       PROVE  Paced(g, n, h, x, y, m) /\ now >= x - y + k * h
  <2>1. s \in From(f, x) /\ ~InPace(g[s])
    BY <1>1, <1>13 DEF From, InPace
  <2>2. Paced(g, n, h, x, y, m) /\ f[s].at >= x - y + k * h
    BY <1>1, <1>2, <1>13, <2>1, PacedSend
  <2> QED BY <1>1, <2>2
<1>14. ASSUME NEW x \in Int, NEW y \in Int, NEW k \in Nat, Paced(f, n, h, x, y, k)
       PROVE  Paced(g, n, h, x, y, k)
  <2>1. Stays(f, g)
    BY <1>1 DEF Stays, InPace
  <2>2. k <= k /\ y <= y /\ n <= n /\ h <= h
    BY <1>1, <1>2, <1>14
  <2> QED BY <1>1, <1>2, <1>14, <2>1, <2>2, PacedKept
<1>15. \A x \in Int : From(g, x) # {} => From(f, x) # {}
  BY <1>1 DEF From, InPace
<1>16. BurstInv'
  BY <1>2, <1>6, <1>9, <1>14, <1>15
<1>17. AheadInv'
  BY <1>6, <1>9, <1>14, <1>15
<1>18. SentInv'
  <2>1. ASSUME NEW j \in 1..(L + 1) PROVE Paced(g, n, h, sent'[j], w, L + 1 - j + 1)
    <3>1. CASE j \in 1..L
      <4>1. sent'[j] = sent[j] /\ sent[j] \in Int /\ sent[j] <= now
        BY <1>4, <1>5, <3>1
      <4>2. L - j + 1 \in Nat /\ L + 1 - j + 1 \in Nat /\ L + 1 - j + 1 <= (L - j + 1) + 1
        BY <1>4, <3>1
      <4>3. Paced(f, n, h, sent[j], w, L - j + 1)
        BY <1>7, <1>9, <3>1
      <4>4. w \in Int
        BY <1>2
      <4> QED BY <1>13, <4>1, <4>2, <4>3, <4>4
    <3>2. CASE j = L + 1
      <4>1. From(f, now) # {}
        BY <1>1 DEF From
      <4>2. now \in Int /\ now <= now /\ w \in Int
        BY <1>1, <1>2
      <4>3. Paced(f, n, h, now, w, 0)
        BY <1>6, <1>9, <4>1, <4>2
      <4>4. Paced(g, n, h, now, w, 1)
        BY <1>13, <4>2, <4>3
      <4>5. L + 1 - j + 1 = 1 /\ sent'[j] = now
        BY <1>4, <1>5, <3>2
      <4> QED BY <4>4, <4>5
    <3> QED BY <1>4, <2>1, <3>1, <3>2
  <2> QED BY <1>7, <2>1
<1>19. BurstBounded'
  <2>1. ASSUME NEW a \in 1..(L + 1), NEW b \in 1..(L + 1), a < b
        PROVE  (b - a) * h <= sent'[b] - sent'[a] + w
    <3>1. a \in 1..L /\ a \in Int /\ sent'[a] = sent[a] /\ sent[a] \in Int /\ sent[a] <= now
      BY <1>4, <1>5, <2>1
    <3>2. CASE b \in 1..L
      <4>1. sent'[b] = sent[b]
        BY <1>5, <3>2
      <4> QED BY <1>9, <1>10, <2>1, <3>1, <3>2, <4>1
    <3>3. CASE b = L + 1
      <4>1. Paced(f, n, h, sent[a], w, L - a + 1) /\ L - a + 1 \in Nat
        BY <1>4, <1>7, <1>9, <3>1
      <4> DEFINE k == L - a + 1
      <4>2. k \in Nat /\ k <= k + 1
        BY <4>1
      <4>3. now >= sent[a] - w + k * h
        <5>1. w \in Int /\ Paced(f, n, h, sent[a], w, k)
          BY <1>2, <4>1
        <5> HIDE DEF k
        <5> QED BY <1>13, <3>1, <4>2, <5>1
      <4>4. b - a = k /\ sent'[b] = now
        BY <1>4, <1>5, <3>1, <3>3
      <4> DEFINE A == sent[a]
                 q == k * h
      <4>5. q \in Int /\ A \in Int /\ now >= A - w + q
        <5> HIDE DEF k
        <5>1. k * h \in Int
          BY <1>2, <4>2
        <5> QED BY <3>1, <4>3, <5>1
      <4> HIDE DEF q, A, k
      <4>6. q <= now - A + w
        BY <1>1, <1>2, <4>5
      <4> QED BY <3>1, <4>4, <4>6 DEF q, A
    <3> QED BY <1>4, <2>1, <3>2, <3>3
  <2> QED BY <1>10, <2>1
<1>20. FloodInv' /\ FloodIsHonoured'
  <2>1. CASE flooded = NoFlood
    BY <1>8, <1>11, <2>1
  <2>2. CASE flooded # NoFlood
    <3> DEFINE u == flooded.until
               a == flooded.at
               c == Cardinality(SinceFlood)
               e == Cardinality(SinceFlood')
    <3>1. u \in Int /\ a \in Int /\ a <= now /\ a < u /\ c \in Nat
      BY <1>4, <2>2 DEF ClockInv
    <3>2. Paced(f, n, h, u, 0, c)
      BY <1>8, <1>9, <2>2
    <3>3. CASE now = a
      <4>1. SinceFlood' = {} /\ SinceFlood = {}
        <5> HIDE DEF a
        <5>1. ~(now > now)
          BY <1>1
        <5>2. \A j \in 1..L : ~(sent[j] > now)
          BY <1>1, <1>4
        <5>3. \A j \in 1..(L + 1) : j \in 1..L \/ j = L + 1
          BY <1>4
        <5> QED BY <1>5, <1>12, <3>3, <5>1, <5>2, <5>3 DEF a
      <4>2. e = c
        BY <4>1
      <4>3. Paced(g, n, h, u, 0, e)
        BY <1>14, <3>1, <3>2, <4>2
      <4> QED BY <1>8, <1>11, <4>1, <4>3
    <3>4. CASE now >= u
      <4>1. now > a
        <5> HIDE DEF a, u
        <5> QED BY <1>1, <3>1, <3>4
      <4>2. SinceFlood' = SinceFlood \cup {L + 1} /\ L + 1 \notin SinceFlood
        <5>1. \A j \in 1..(L + 1) : j \in 1..L \/ j = L + 1
          BY <1>4
        <5>2. L + 1 \in 1..(L + 1) /\ L + 1 \notin 1..L /\ 1..L \subseteq 1..(L + 1)
          BY <1>4
        <5> QED BY <1>5, <1>12, <4>1, <5>1, <5>2
      <4>3. e = c + 1
        BY <1>4, <4>2, FS_AddElement
      <4>4. e \in Nat /\ e <= c + 1
        <5> HIDE DEF e, c
        <5> QED BY <3>1, <4>3
      <4>5. Paced(g, n, h, u, 0, e) /\ now >= u - 0 + c * h
        <5>1. u <= now
          BY <1>1, <3>1, <3>4
        <5> HIDE DEF e, c, u
        <5> QED BY <1>13, <3>1, <3>2, <4>4, <5>1
      <4>6. now >= u + (e - 1) * h
        <5> HIDE DEF e, c, u
        <5>1. e - 1 = c
          BY <3>1, <4>3
        <5>2. c * h \in Int
          BY <1>2, <3>1
        <5> DEFINE q == c * h
        <5> HIDE DEF q
        <5>3. now >= u + q
          BY <1>1, <3>1, <4>5, <5>2 DEF q
        <5> QED BY <5>1, <5>3 DEF q
      <4> QED BY <1>8, <1>11, <4>5, <4>6
    <3> QED BY <1>1, <3>3, <3>4
  <2> QED BY <2>1, <2>2
<1> QED BY <1>16, <1>17, <1>18, <1>19, <1>20 DEF PaceInv

\* Nobody joins, nothing is sent: time passes, someone leaves, is admitted or learns.
Still ==
    /\ Stays(sender, sender') /\ UNCHANGED <<sent, flooded>>
    /\ lim'.next >= lim.next /\ lim'.penalty = lim.penalty
    /\ now' \in Nat /\ now' >= now
    /\ \A s \in Senders : sender'[s].pc = "pacing" =>
         sender'[s] = sender[s] /\ (now' = now \/ sender[s].at >= now')
    /\ \A s \in Senders : sender'[s].pc = "admitted" =>
         /\ now' = now /\ sender'[s].at = sender[s].at
         /\ \/ sender[s].pc = "admitted"
            \/ sender[s].pc = "pacing" /\ sender[s].at <= now /\ now >= lim.penalty

\* The steps, by what they do to those who wait.
LEMMA PaceKinds ==
    ASSUME Known, [Next]_vars
    PROVE  \/ Restart
           \/ \E s \in Senders : Send(s)
           \/ \E s \in Senders, seconds \in Waits, premium \in BOOLEAN : Flood(s, seconds, premium)
           \/ \E s \in Senders : \E slot, at :
                Reserves(s, slot, at) /\ UNCHANGED <<now, sent, rates, flooded>>
           \/ Still
<1>1. now \in Nat /\ lim.next \in Int /\ sender \in [Senders -> SenderRec]
  BY DEF Known, RateInv, TimeInv
<1>2. now >= now /\ lim.next >= lim.next
  BY <1>1
<1>3. ASSUME NEW s \in Senders, sender' = [sender EXCEPT ![s] = Idle],
             UNCHANGED <<now, sent, flooded>>, lim'.next = lim.next, lim'.penalty = lim.penalty
      PROVE  Still
  BY <1>1, <1>2, <1>3 DEF Still, Stays, InPace, Idle, SenderRec
<1>4. CASE UNCHANGED vars
  <2>1. UNCHANGED <<now, lim, sender, sent, flooded>>
    BY <1>4 DEF vars
  <2> QED BY <1>1, <1>2, <2>1 DEF Still, Stays, InPace
<1>5. ASSUME Pause \/ UntilWake PROVE Still
  <2>1. PICK d \in Nat : Pass(d)
    BY <1>5, PassFacts DEF Known
  <2>2. /\ \A s \in Senders : sender[s].pc # "admitted"
        /\ \A s \in Senders : sender[s].pc = "pacing" => sender[s].at >= now'
        /\ UNCHANGED <<lim, sender, sent, flooded>> /\ now' \in Nat /\ now' >= now
    BY <1>1, <2>1 DEF Pass, Sleeping
  <2> QED BY <1>2, <2>2 DEF Still, Stays, InPace
<1>6. ASSUME NEW s \in Senders, Reserve(s), UNCHANGED <<now, sent, rates, flooded>>
      PROVE  \E slot, at : Reserves(s, slot, at) /\ UNCHANGED <<now, sent, rates, flooded>>
  BY <1>6, ReserveFacts DEF Known
<1>7. ASSUME NEW s \in Senders, Wake(s)
      PROVE  \/ Still
             \/ \E slot, at : Reserves(s, slot, at) /\ UNCHANGED <<now, sent, rates, flooded>>
  <2>1. CASE Reserve(s)
    BY <1>6, <1>7, <2>1 DEF Wake
  <2>2. CASE MayGo /\ sender' = [sender EXCEPT ![s].pc = "admitted"] /\ UNCHANGED lim
    <3>1. /\ sender[s].pc = "pacing" /\ sender[s].at <= now /\ now >= lim.penalty
          /\ UNCHANGED <<now, sent, flooded, lim>>
      BY <1>7, <2>2 DEF Wake, MayGo
    <3>2. /\ sender'[s].pc = "admitted" /\ sender'[s].at = sender[s].at
          /\ \A t \in Senders \ {s} : sender'[t] = sender[t]
      BY <1>1, <2>2 DEF SenderRec
    <3> QED BY <1>1, <1>2, <3>1, <3>2 DEF Still, Stays, InPace
  <2> QED BY <1>7, <2>1, <2>2 DEF Wake
<1>8. ASSUME NEW s \in Senders, Admission(s)
      PROVE  \E slot, at : Reserves(s, slot, at) /\ UNCHANGED <<now, sent, rates, flooded>>
  BY <1>6, <1>8 DEF Admission
<1>9. ASSUME NEW s \in Senders, Revoke(s) \/ Fails(s) PROVE Still
  BY <1>3, <1>9 DEF Revoke, Fails
<1>10. ASSUME NEW s \in Senders, Success(s) PROVE Still
  <2>1. /\ sender' = [sender EXCEPT ![s] = Idle] /\ UNCHANGED <<now, sent, flooded>>
        /\ lim' = Raised
    BY <1>10 DEF Success, Learn
  <2>2. lim'.next = lim.next /\ lim'.penalty = lim.penalty
    BY <2>1, RaisedIsSane DEF Known
  <2> QED BY <1>3, <2>1, <2>2
<1> QED BY <1>4, <1>5, <1>7, <1>8, <1>9, <1>10 DEF Next, SenderStep

\* When nobody joins and nothing is sent, all stays as paced.
LEMMA StillStep ==
    ASSUME Known, TimeInv', Spread, PaceInv, Still
    PROVE  PaceInv'
<1>1. /\ Stays(sender, sender') /\ UNCHANGED <<sent, flooded>> /\ lim'.next >= lim.next
      /\ now' \in Nat /\ now' >= now
  BY DEF Still
<1>2. /\ (BurstInv /\ SentInv /\ AheadInv /\ BurstBounded)'
      /\ \A x \in Int, k \in Nat : Paced(sender, lim.next, Short, x, 0, k) =>
           Paced(sender', lim'.next, Short', x, 0, k)
  BY <1>1, StayStep
<1> DEFINE c == Cardinality(SinceFlood)
           u == flooded.until
           h == Short
           i == Short'
           z == sent[Len(sent)]
<1>3. SinceFlood' = SinceFlood /\ c \in Nat /\ u \in Int /\ IsFiniteSet(SinceFlood)
  BY <1>1, SentFacts DEF Known, TimeInv, SinceFlood
<1>4. FloodInv'
  <2>1. flooded # NoFlood => Paced(sender, lim.next, Short, u, 0, c)
    BY DEF PaceInv, FloodInv
  <2>2. flooded # NoFlood => Paced(sender', lim'.next, Short', u, 0, c)
    BY <1>2, <1>3, <2>1
  <2> QED BY <1>1, <1>3, <2>2 DEF FloodInv, NoFlood
<1>5. FloodIsHonoured'
  <2>1. FloodIsHonoured' <=> (flooded # NoFlood /\ SinceFlood # {} => z >= u + (c - 1) * i)
    BY <1>1 DEF FloodIsHonoured, SinceFlood, Short, NoFlood
  <2>2. flooded # NoFlood /\ SinceFlood # {} => z >= u + (c - 1) * h
    BY DEF PaceInv, FloodIsHonoured, SinceFlood, Short
  <2>3. h \in Nat /\ i \in Nat /\ i <= h
    BY Gaps, GapsStep DEF Known
  <2>4. ASSUME flooded # NoFlood, SinceFlood # {} PROVE z >= u + (c - 1) * i
    <3>1. c >= 1 /\ z \in Nat
      <4>1. c # 0
        BY <1>3, <2>4, FS_EmptySet
      <4>2. PICK j \in DOMAIN sent : TRUE
        BY <2>4 DEF SinceFlood
      <4>3. Len(sent) \in DOMAIN sent
        BY <4>2, SentFacts DEF Known
      <4>4. z \in Nat
        BY <4>3, SentFacts DEF Known
      <4> HIDE DEF c
      <4> QED BY <1>3, <4>1, <4>4
    <3>2. z >= u + (c - 1) * h
      BY <2>2, <2>4
    <3> HIDE DEF c, u, h, i, z
    <3>3. (c - 1) * i <= (c - 1) * h /\ (c - 1) * i \in Int /\ (c - 1) * h \in Int
      <4>1. c - 1 \in Nat
        BY <1>3, <3>1
      <4>2. (c - 1) * i <= (c - 1) * h
        BY <2>3, <4>1, MonotoneIn
      <4> QED BY <2>3, <4>1, <4>2
    <3> DEFINE a == (c - 1) * i
               b == (c - 1) * h
    <3> HIDE DEF a, b
    <3>4. a <= b /\ a \in Int /\ b \in Int /\ z >= u + b
      BY <3>2, <3>3 DEF a, b
    <3>5. z >= u + a
      BY <1>3, <3>1, <3>4
    <3> QED BY <3>5 DEF a
  <2> QED BY <2>1, <2>4
<1> QED BY <1>2, <1>4, <1>5 DEF PaceInv

\* A FLOOD_WAIT: its end is in the future, where nobody has credit, and everybody who
\* reserves later goes behind it.
LEMMA FloodStep ==
    ASSUME Known, TimeInv', Spread, ClockInv, PaceInv,
           NEW s \in Senders, NEW seconds \in Waits, NEW premium \in BOOLEAN,
           Flood(s, seconds, premium)
    PROVE  PaceInv' /\ ClockInv'
<1>1. PICK wait \in Nat :
         /\ lim' = Flooded(premium, wait)
         /\ flooded' = [at |-> now, until |-> Greatest(flooded.until, now + wait + Seconds(1))]
         /\ sender[s].pc = "sent" /\ sender' = [sender EXCEPT ![s].pc = "again"]
         /\ UNCHANGED <<now, sent>>
  BY FloodFacts DEF Known
<1> DEFINE e == now + wait + Seconds(1)
           o == flooded.until
           u == flooded'.until
           q == lim'.next
           p == lim.penalty
           r == lim'.penalty
<1>2. /\ now \in Nat /\ e \in Nat /\ e > now /\ o \in Int /\ p \in Nat /\ o <= p
      /\ flooded'.at = now /\ u = Greatest(o, e)
  BY <1>1 DEF Known, RateInv, TimeInv, Seconds, ClockInv
<1>3. /\ r \in Nat /\ r >= p /\ r >= e /\ q \in Int /\ q >= r /\ q >= lim.next
  BY <1>1, FloodedTimes DEF Known
<1>4. u \in Int /\ u > now /\ u <= r /\ u <= q
  <2> HIDE DEF e, o, u, q, p, r
  <2>1. u = IF o >= e THEN o ELSE e
    BY <1>2, MinMax
  <2> QED BY <1>2, <1>3, <2>1
<1>5. /\ sender'[s].pc = "again" /\ \A t \in Senders \ {s} : sender'[t] = sender[t]
      /\ Stays(sender, sender')
  BY <1>1 DEF Known, TimeInv, SenderRec, Stays, InPace
<1>6. /\ (BurstInv /\ SentInv /\ AheadInv /\ BurstBounded)'
      /\ \A x \in Int, k \in Nat : Paced(sender, lim.next, Short, x, 0, k) =>
           Paced(sender', lim'.next, Short', x, 0, k)
  <2>1. now' \in Nat /\ now' >= now /\ sent' = sent /\ lim'.next >= lim.next
    BY <1>1, <1>2, <1>3
  <2> QED BY <1>5, <2>1, StayStep
<1>7. SinceFlood' = {}
  <2>1. \A j \in DOMAIN sent : ~(sent[j] > now)
    <3>1. \A j \in DOMAIN sent : sent[j] \in Nat /\ sent[j] <= now
      BY SentFacts DEF Known, ClockInv
    <3> QED BY <1>2, <3>1
  <2> QED BY <1>1, <1>2, <2>1 DEF SinceFlood
<1>8. Cardinality(SinceFlood') = 0
  BY <1>7, FS_EmptySet
<1>9. FloodInv'
  <2>1. Paced(sender', q, Short', u, 0, 0)
    <3>1. CASE From(sender, u) # {}
      <4>1. Paced(sender, lim.next, Short, u, 0, 0)
        BY <1>4, <3>1 DEF PaceInv, AheadInv
      <4>2. \A x \in Int : \A k \in Nat : Paced(sender, lim.next, Short, x, 0, k) =>
              Paced(sender', lim'.next, Short', x, 0, k)
        BY <1>6
      <4>3. Paced(sender, lim.next, Short, u, 0, 0) => Paced(sender', q, Short', u, 0, 0)
        <5>1. u \in Int /\ 0 \in Nat
          BY <1>4
        <5> HIDE DEF u
        <5> QED BY <4>2, <5>1
      <4> QED BY <4>1, <4>3
    <3>2. CASE From(sender, u) = {}
      <4>1. From(sender', u) = {}
        BY <1>5, <3>2 DEF From, Stays
      <4>2. Cardinality(From(sender', u)) = 0
        BY <4>1, FS_EmptySet
      <4>3. q >= u - 0 + (0 + 0) * Short'
        <5> DEFINE i == Short'
        <5>1. i \in Nat
          BY GapsStep DEF Known
        <5> HIDE DEF q, u, i
        <5>2. (0 + 0) * i = 0
          BY <5>1
        <5>3. q >= u - 0 + 0
          BY <1>3, <1>4
        <5>4. q >= u - 0 + (0 + 0) * i
          BY <5>2, <5>3
        <5> QED BY <5>4 DEF i
      <4> QED BY <4>1, <4>2, <4>3 DEF Paced
    <3> QED BY <3>1, <3>2
  <2> QED BY <1>8, <2>1 DEF FloodInv
<1>10. FloodIsHonoured'
  BY <1>7 DEF FloodIsHonoured, SinceFlood
<1>11. ClockInv'
  <2>1. \A i \in DOMAIN sent' : sent'[i] <= now'
    BY <1>1 DEF ClockInv
  <2>2. \A t \in Senders :
         /\ sender'[t].pc = "pacing" => sender'[t].at >= now'
         /\ sender'[t].pc = "admitted" => sender'[t].at = now'
    BY <1>1, <1>5 DEF ClockInv
  <2>3. now' = flooded'.at /\ flooded'.at <= now' /\ flooded'.at < flooded'.until
        /\ flooded'.until <= lim'.penalty
    <3>1. now <= now /\ now < u
      <4> HIDE DEF u
      <4> QED BY <1>2, <1>4
    <3> QED BY <1>1, <1>2, <1>4, <3>1
  <2> QED BY <2>1, <2>2, <2>3 DEF ClockInv
<1> QED BY <1>6, <1>9, <1>10, <1>11 DEF PaceInv

\* A restart has nobody waiting and nothing sent.
LEMMA RestartStep == Known /\ Restart => PaceInv' /\ ClockInv'
<1> SUFFICES ASSUME Known, Restart PROVE PaceInv' /\ ClockInv'
  OBVIOUS
<1>1. /\ sender' = [s \in Senders |-> Idle] /\ sent' = <<>> /\ flooded' = NoFlood
      /\ lim'.penalty = 0 /\ lim'.next = 0
  BY RestartFacts DEF Known
<1>2. \A x : From(sender', x) = {}
  BY <1>1 DEF From, InPace, Idle
<1>3. (BurstInv /\ AheadInv)'
  BY <1>2 DEF BurstInv, AheadInv
<1>4. (SentInv /\ FloodInv /\ BurstBounded /\ FloodIsHonoured)'
  BY <1>1 DEF SentInv, FloodInv, BurstBounded, FloodIsHonoured, NoFlood
<1>5. ClockInv'
  BY <1>1 DEF ClockInv, Idle, NoFlood
<1> QED BY <1>3, <1>4, <1>5 DEF PaceInv

\* What appending does.
LEMMA Appended ==
    ASSUME NEW q \in Seq(Nat), NEW x \in Nat, NEW r, r = Append(q, x)
    PROVE  /\ DOMAIN r = 1..(Len(q) + 1) /\ r[Len(q) + 1] = x
           /\ \A i \in 1..Len(q) : r[i] = q[i]
OBVIOUS

\* The other steps keep the clock's part.
LEMMA ClockStep ==
    ASSUME Known, TimeInv', ClockInv, [Next]_vars,
           \/ Still
           \/ \E s \in Senders : Send(s)
           \/ \E s \in Senders : \E slot, at :
                Reserves(s, slot, at) /\ UNCHANGED <<now, sent, rates, flooded>>
    PROVE  ClockInv'
<1>1. now \in Nat /\ sender \in [Senders -> SenderRec] /\ flooded.at \in Int
      /\ flooded.until \in Int /\ lim.penalty \in Nat
  BY DEF Known, RateInv, TimeInv
<1>2. CASE Still
  <2> DEFINE n == now'
             u == flooded.until
             p == lim.penalty
  <2>1. n \in Nat /\ n >= now /\ UNCHANGED <<sent, flooded>> /\ lim'.penalty = p
    BY <1>2 DEF Still
  <2>2. \A i \in DOMAIN sent : sent[i] \in Nat /\ sent[i] <= now
    BY SentFacts DEF Known, ClockInv
  <2>3. \A i \in DOMAIN sent : sent[i] <= n
    <3> HIDE DEF n
    <3> QED BY <1>1, <2>1, <2>2
  <2>4. flooded # NoFlood => flooded.at <= n /\ flooded.at < u
    <3> DEFINE a == flooded.at
    <3>1. flooded # NoFlood => a <= now /\ a < u
      BY DEF ClockInv
    <3>2. a \in Int
      BY <1>1
    <3> HIDE DEF n, a, u
    <3>3. flooded # NoFlood => a <= n /\ a < u
      BY <1>1, <2>1, <3>1, <3>2
    <3> QED BY <3>3 DEF a
  <2>5. ASSUME NEW s \in Senders, sender'[s].pc = "pacing" PROVE sender'[s].at >= n
    BY <1>1, <1>2, <2>1, <2>5 DEF Still, ClockInv
  <2>6. ASSUME NEW s \in Senders, sender'[s].pc = "admitted"
        PROVE  sender'[s].at = n /\ (n >= u \/ n = flooded.at)
    <3>1. now' = now /\ sender'[s].at = sender[s].at
      BY <1>2, <2>6 DEF Still
    <3>2. CASE sender[s].pc = "admitted"
      BY <3>1, <3>2 DEF ClockInv
    <3>3. CASE sender[s].pc = "pacing" /\ sender[s].at <= now /\ now >= lim.penalty
      <4> DEFINE a == sender[s].at
      <4>1. a \in Nat /\ a >= now /\ a <= now /\ now >= p /\ u <= p /\ u \in Int /\ p \in Nat
        BY <1>1, <3>3 DEF ClockInv, SenderRec
      <4> HIDE DEF a, p, u
      <4>2. a = now /\ now >= u
        BY <1>1, <4>1
      <4> QED BY <3>1, <4>2 DEF a
    <3> QED BY <1>2, <2>6, <3>2, <3>3 DEF Still
  <2>7. u <= p
    BY DEF ClockInv
  <2> QED BY <2>1, <2>3, <2>4, <2>5, <2>6, <2>7 DEF ClockInv, NoFlood
<1>3. ASSUME NEW s \in Senders, Send(s) PROVE ClockInv'
  <2>1. /\ sender' = [sender EXCEPT ![s].pc = "sent"] /\ sent' = Append(sent, now)
        /\ UNCHANGED <<now, flooded>> /\ lim'.penalty = lim.penalty
    BY <1>3 DEF Send, Known, RateInv, Sane, LimFields
  <2>2. \A t \in Senders : sender'[t] = sender[t] \/ sender'[t].pc = "sent"
    BY <1>1, <2>1 DEF SenderRec
  <2>3. \A i \in DOMAIN sent' : sent'[i] <= now
    <3>1. /\ Len(sent) \in Nat /\ DOMAIN sent = 1..Len(sent)
          /\ \A i \in DOMAIN sent : sent[i] <= now
      BY SentFacts DEF Known, ClockInv
    <3>2. DOMAIN sent' = 1..(Len(sent) + 1) /\ sent'[Len(sent) + 1] = now
          /\ \A i \in 1..Len(sent) : sent'[i] = sent[i]
      <4>1. sent \in Seq(Nat) /\ sent' = Append(sent, now) /\ now \in Nat
        BY <1>1, <2>1 DEF Known, TimeInv
      <4> QED BY <4>1, Appended
    <3>3. now <= now
      BY <1>1
    <3>4. \A i \in 1..(Len(sent) + 1) : i \in 1..Len(sent) \/ i = Len(sent) + 1
      BY <3>1
    <3> QED BY <3>1, <3>2, <3>3, <3>4
  <2> QED BY <2>1, <2>2, <2>3 DEF ClockInv, NoFlood
<1>4. ASSUME NEW s \in Senders, NEW slot, NEW at, Reserves(s, slot, at),
             UNCHANGED <<now, sent, rates, flooded>>
      PROVE  ClockInv'
  <2>1. /\ sender'[s].pc = "pacing" /\ sender'[s].at = at
        /\ \A t \in Senders \ {s} : sender'[t] = sender[t]
        /\ lim'.penalty = lim.penalty
    BY <1>4, ReservesFields DEF Known
  <2>2. at >= now
    BY <1>1, <1>4 DEF Reserves
  <2> QED BY <1>4, <2>1, <2>2 DEF ClockInv, NoFlood
<1> QED BY <1>2, <1>3, <1>4

\* The inductive invariant of pacing.
Inv == Known /\ ClockInv /\ PaceInv

\* It holds at first.
LEMMA InvInit == Init => Inv
<1> SUFFICES ASSUME Init PROVE Inv
  OBVIOUS
<1>1. Known
  BY LearningInit DEF Known
<1>2. /\ sender = [s \in Senders |-> Idle] /\ sent = <<>> /\ flooded = NoFlood
  BY DEF Init
<1>3. \A x : From(sender, x) = {}
  BY <1>2 DEF From, InPace, Idle
<1>4. BurstInv /\ AheadInv
  BY <1>3 DEF BurstInv, AheadInv
<1>5. SentInv /\ FloodInv /\ BurstBounded /\ FloodIsHonoured
  BY <1>2 DEF SentInv, FloodInv, BurstBounded, FloodIsHonoured, NoFlood
<1>6. lim.penalty \in Nat
  BY <1>1 DEF Known, TimeInv
<1>7. ClockInv
  BY <1>2, <1>6 DEF ClockInv, Idle, NoFlood
<1> QED BY <1>1, <1>4, <1>5, <1>7 DEF PaceInv, Inv

\* Every step keeps it.
LEMMA InvStep == Inv /\ [Next]_vars => Inv'
<1> SUFFICES ASSUME Inv, [Next]_vars PROVE Inv'
  OBVIOUS
<1>1. Known /\ ClockInv /\ PaceInv
  BY DEF Inv
<1>2. RateInv' /\ TimeInv' /\ RatesInv' /\ (Spread \/ Restart)
  BY <1>1, RateStep, TimeStep, RatesStep DEF Known
<1>3. Known'
  BY <1>2 DEF Known
<1>4. CASE Restart
  BY <1>1, <1>3, <1>4, RestartStep DEF Inv
<1>5. CASE ~Restart
  <2>1. Spread
    BY <1>2, <1>5
  <2>2. CASE Still
    BY <1>1, <1>2, <1>3, <2>1, <2>2, StillStep, ClockStep DEF Inv
  <2>3. ASSUME NEW s \in Senders, Send(s) PROVE Inv'
    <3>1. PaceInv'
      BY <1>1, <1>2, <2>3, SendStep
    <3>2. ClockInv'
      BY <1>1, <1>2, <2>3, ClockStep
    <3> QED BY <1>3, <3>1, <3>2 DEF Inv
  <2>4. ASSUME NEW s \in Senders, NEW seconds \in Waits, NEW premium \in BOOLEAN,
               Flood(s, seconds, premium)
        PROVE  Inv'
    BY <1>1, <1>2, <1>3, <2>1, <2>4, FloodStep DEF Inv
  <2>5. ASSUME NEW s \in Senders, NEW slot, NEW at, Reserves(s, slot, at),
               UNCHANGED <<now, sent, rates, flooded>>
        PROVE  Inv'
    <3>1. PaceInv'
      BY <1>1, <1>2, <2>5, JoinStep
    <3>2. ClockInv'
      BY <1>1, <1>2, <2>5, ClockStep
    <3> QED BY <1>3, <3>1, <3>2 DEF Inv
  <2> QED BY <1>1, <1>5, <2>2, <2>3, <2>4, <2>5, PaceKinds
<1> QED BY <1>4, <1>5

\* However senders, FLOOD_WAITs, raises and cuts interleave, in no stretch of time do
\* more requests go than one, the burst and what the highest rate so far allows
\* (AdaptiveUploadLimiter.pace).
THEOREM Bursts == Spec => []BurstBounded
<1>1. Inv => BurstBounded
  BY DEF Inv, PaceInv
<1> QED BY <1>1, InvInit, InvStep, PTL DEF Spec

\* Requests sent after a FLOOD_WAIT come after its end, and one interval apart, also
\* those of senders that slept through it (pace looks at the penalty again).
THEOREM Floods == Spec => []FloodIsHonoured
<1>1. Inv => FloodIsHonoured
  BY DEF Inv, PaceInv
<1> QED BY <1>1, InvInit, InvStep, PTL DEF Spec

\* Rate and ceiling stay within their bounds and in order, whatever is learned,
\* probed, saved and restored (flood, success, _RateStore.load).
THEOREM LearnedSane == Spec => []LearningIsSane
<1>1. Inv => LearningIsSane
  BY SaneLearning DEF Inv, Known
<1> QED BY <1>1, InvInit, InvStep, PTL DEF Spec

\* Within a process the rate is never raised within the clean window after a
\* FLOOD_WAIT, premium or not (success).
THEOREM Raises == Spec => RaiseAfterQuiet
<1> DEFINE Quietly == lim'.rate > lim.rate /\ sent' # <<>> =>
                        flooded = NoFlood \/ now - flooded.at >= clean_window
<1>1. Init => QuietInv
  BY DEF Init, QuietInv
<1>2. Inv /\ QuietInv /\ [Next]_vars => QuietInv' /\ Quietly
  BY QuietStep DEF Inv, Known
<1>3. Quietly => [Quietly]_vars
  OBVIOUS
<1>4. RaiseAfterQuiet <=> [][Quietly]_vars
  BY DEF RaiseAfterQuiet
<1> QED BY <1>1, <1>2, <1>3, <1>4, InvInit, InvStep, PTL DEF Spec
============================================================================
