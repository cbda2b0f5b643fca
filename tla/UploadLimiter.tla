--------------------------- MODULE UploadLimiter ---------------------------
(* The upload limiter of one account (upload_limiter.py) and the loop of     *)
(* tgupload.send_part around it: senders reserve a moment (pace), sleep,     *)
(* send, and report success or FLOOD_WAIT, from which the limiter learns a   *)
(* rate and a ceiling.  Rate and ceiling survive a restart.                  *)
(*                                                                           *)
(* Times are milliseconds, rates hundredths of a part per second: the code's *)
(* floats, rounded down.  The configuration is the one the program runs with *)
(* (LimiterConfig.web_defaults).  A sleeper wakes on time: the clock stops   *)
(* at every moment somebody waits for.                                       *)
EXTENDS Integers, Sequences, FiniteSets, FiniteSetsExt

CONSTANTS
    Senders,          \* parts in flight at once, at most the window
    Waits,            \* seconds of a FLOOD_WAIT; 0 stands for "not given"
    Pauses,           \* milliseconds that may pass at once
    None,             \* no ceiling, probe or moment yet
    MaxSends,         \* requests sent
    MaxPauses,        \* times the clock is advanced by a pause
    MaxTroubles       \* restarts, saves that fail, requests that fail or are revoked

ASSUME LimiterAssumption ==
    /\ Senders # {} /\ IsFiniteSet(Senders) /\ None \notin Int
    /\ Waits \subseteq Nat /\ Pauses \subseteq Nat \ {0}
    /\ {MaxSends, MaxPauses, MaxTroubles} \subseteq Nat

Seconds(s) == s * 1000

initial == 400
minimum == 50
maximum == 1200
burst == 2
increase_step == 50
increase_interval == Seconds(10)
clean_window == Seconds(20)
ceiling_floor == 100
slow_step == 10
slow_interval == Seconds(30)
probe_cooldown == Seconds(300)
probe_cooldown_max == Seconds(1800)
probe_step == 20
probe_confirm == Seconds(60)
escalation_count == 3
escalation_window == Seconds(120)
escalated_clean_window == Seconds(60)
escalation_reset == Seconds(600)
premium_clean_window == Seconds(60)

Percent(x, p) == (x * p) \div 100
SlowZone(c) == Percent(c, 80)
Clamp(low, high, x) == Max({low, Min({high, x})})
Least(x, y) == Min({x, y})
Greatest(x, y) == Max({x, y})

VARIABLES
    now,       \* the clock
    lim,       \* AdaptiveUploadLimiter
    store,     \* upload-rate-<account>.json: rate and ceiling, or None
    sender,    \* Senders -> its place in send_part
    left,      \* what is left of the bounds
    sent,      \* history: when each request was sent
    rates,     \* history: the lowest and the highest rate of this process
    flooded    \* history: the last FLOOD_WAIT: when, and when it has passed

vars == <<now, lim, store, sender, left, sent, rates, flooded>>

Interval(rate) == 100000 \div rate

\* A limiter of a process that starts, with what the store gives it.
Fresh(rate, ceiling) ==
    [rate |-> rate, ceiling |-> ceiling, next |-> 0, penalty |-> 0,
     lastFlood |-> None, lastIncrease |-> 0, events |-> {}, escalated |-> 0,
     probe |-> None, cooldown |-> probe_cooldown, probeEnded |-> now,
     mode |-> "normal", clean |-> None]

Spend(b) == left[b] > 0 /\ left' = [left EXCEPT ![b] = @ - 1]

Idle == [pc |-> "idle", at |-> 0]
NoFlood == [at |-> -1, until |-> -1]

Init ==
    /\ now = Seconds(3600)   \* the monotonic clock of a machine that is up
    /\ lim = Fresh(initial, None)
    /\ store = None
    /\ sender = [s \in Senders |-> Idle]
    /\ left = [sends |-> MaxSends, pauses |-> MaxPauses, troubles |-> MaxTroubles]
    /\ sent = <<>>
    /\ rates = [low |-> initial, high |-> initial]
    /\ flooded = NoFlood

\* Writes what was learned; a save that fails is only logged, and the next one
\* writes the newer values.
Persist(l) ==
    \/ /\ store' = [rate |-> l.rate, ceiling |-> l.ceiling]
       /\ UNCHANGED left
    \/ Spend("troubles") /\ UNCHANGED store

\* The limiter becomes l, which is worth saving if rate or ceiling were set.
Learn(l, saved) ==
    /\ lim' = l
    /\ rates' = [low |-> Least(rates.low, l.rate), high |-> Greatest(rates.high, l.rate)]
    /\ IF saved THEN Persist(l) ELSE UNCHANGED <<store, left>>
-----------------------------------------------------------------------------
(* send_part and pace. *)

\* Mutant: the slot is taken, but not counted.
MutReserve(s) ==
    LET interval == Interval(lim.rate)
        earliest == Greatest(now, lim.penalty)
        scheduled == Greatest(lim.next, earliest - burst * interval) IN
    /\ sender' = [sender EXCEPT ![s] = [pc |-> "pacing", at |-> Greatest(scheduled, now)]]
    /\ lim' = [lim EXCEPT !.next = Greatest(@, scheduled)]

\* One turn of pace's loop: the next slot, with credit for the burst.
Reserve(s) ==
    LET interval == Interval(lim.rate)
        earliest == Greatest(now, lim.penalty)
        scheduled == Greatest(lim.next, earliest - burst * interval) IN
    /\ sender' = [sender EXCEPT ![s] = [pc |-> "pacing", at |-> Greatest(scheduled, now)]]
    /\ lim' = [lim EXCEPT !.next = scheduled + interval]

\* A part asks for admission: a new one, or one that met FLOOD_WAIT.
Admission(s) ==
    /\ sender[s].pc \in {"idle", "again"}
    /\ Spend("sends")
    /\ Reserve(s)
    /\ UNCHANGED <<now, store, sent, rates, flooded>>

\* Mutant: whoever slept long enough goes, whatever happened meanwhile.
MutMayGo == TRUE

\* The penalty is looked at again after the sleep.
MayGo == now >= lim.penalty

Wake(s) ==
    /\ sender[s].pc = "pacing" /\ sender[s].at <= now
    /\ IF MayGo
       THEN sender' = [sender EXCEPT ![s].pc = "admitted"] /\ UNCHANGED lim
       ELSE Reserve(s)
    /\ UNCHANGED <<now, store, left, sent, rates, flooded>>

\* Revoked while pacing, or between pacing and request_started.
Revoke(s) ==
    /\ sender[s].pc \in {"pacing", "admitted", "again"}
    /\ Spend("troubles")
    /\ sender' = [sender EXCEPT ![s] = Idle]
    /\ UNCHANGED <<now, lim, store, sent, rates, flooded>>

\* The request is out; mark_send_started opens the clean window of a frozen
\* limiter.
Send(s) ==
    /\ sender[s].pc = "admitted"
    /\ sender' = [sender EXCEPT ![s].pc = "sent"]
    /\ lim' = IF lim.mode = "frozen" /\ now >= lim.penalty /\ lim.clean = None
              THEN [lim EXCEPT !.clean = now] ELSE lim
    /\ sent' = Append(sent, now)
    /\ UNCHANGED <<now, store, left, rates, flooded>>

\* The request fails or times out: nothing is learned from it.
Fails(s) ==
    /\ sender[s].pc = "sent"
    /\ Spend("troubles")
    /\ sender' = [sender EXCEPT ![s] = Idle]
    /\ UNCHANGED <<now, lim, store, sent, rates, flooded>>
-----------------------------------------------------------------------------
(* AdaptiveUploadLimiter.flood. *)

\* An ordinary FLOOD_WAIT freezes again a limiter that is not normal any more.
Frozen(l) ==
    IF l.mode = "normal" THEN [l EXCEPT !.lastFlood = now]
    ELSE [l EXCEPT !.lastFlood = now, !.mode = "frozen", !.clean = None]

\* The ceiling a FLOOD_WAIT teaches: half of the rate the first time, then
\* between the old ceiling and the rate, lower when they come in quick succession.
NewCeiling(l, escalate) ==
    LET c == IF l.ceiling = None THEN Percent(l.rate, 50)
             ELSE Least(Percent(l.rate, 95), (l.ceiling + l.rate) \div 2) IN
    Clamp(ceiling_floor, maximum, IF escalate THEN Percent(c, 90) ELSE c)

\* Mutant: a probe that failed leaves the rate where it was.
MutCutRate(l, ceiling, escalate) ==
    IF l.probe # None THEN l.rate
    ELSE Greatest(minimum, Percent(l.rate, IF escalate THEN 30 ELSE 50))

\* The rate after it: below the new ceiling if the rate was probing for more.
CutRate(l, ceiling, escalate) ==
    IF l.probe # None THEN Greatest(minimum, SlowZone(ceiling))
    ELSE Greatest(minimum, Percent(l.rate, IF escalate THEN 30 ELSE 50))

\* The first FLOOD_WAIT after a penalty cuts; those of the requests that were in
\* flight with it only extend the penalty.
Cut(l) ==
    LET events == {t \in l.events \cup {now} : now - t < escalation_window}
        escalate == Cardinality(events) >= escalation_count
        ceiling == NewCeiling(l, escalate) IN
    [l EXCEPT !.events = events,
              !.escalated = IF escalate THEN now + escalation_reset ELSE @,
              !.ceiling = ceiling,
              !.rate = CutRate(l, ceiling, escalate),
              !.cooldown = IF l.probe # None THEN Least(2 * @, probe_cooldown_max) ELSE @,
              !.probeEnded = IF l.probe # None THEN now ELSE @,
              !.probe = None]

Penalised(l, wait) ==
    LET until == Greatest(l.penalty, now + wait + Seconds(1)) IN
    [l EXCEPT !.penalty = until, !.next = Greatest(l.next, until)]

WaitSeconds(s) == IF s > 0 THEN Seconds(s) ELSE Seconds(10)

\* send_part reports the FLOOD_WAIT and asks for admission again.  A premium
\* one freezes the rate where it is.
Flood(s, seconds, premium) ==
    LET wait == WaitSeconds(seconds)
        cuts == ~premium /\ now >= lim.penalty
        told == IF premium
                THEN [lim EXCEPT !.mode = "frozen", !.clean = None, !.lastFlood = now]
                ELSE Frozen(lim)
        learned == IF cuts THEN Cut(told) ELSE told IN
    /\ sender[s].pc = "sent"
    /\ sender' = [sender EXCEPT ![s].pc = "again"]
    /\ Learn(Penalised(learned, wait), cuts)
    /\ flooded' = [at |-> now, until |-> Greatest(flooded.until, now + wait + Seconds(1))]
    /\ UNCHANGED <<now, sent>>
-----------------------------------------------------------------------------
(* AdaptiveUploadLimiter.success. *)

Since(t, d) == t = None \/ now - t >= d
CleanWindow == IF now < lim.escalated THEN escalated_clean_window ELSE clean_window
IncreaseDue(interval) == now - lim.lastIncrease >= interval

\* A frozen limiter thaws a clean window after a request sent after the wait.
Thaws ==
    /\ lim.mode = "frozen"
    /\ lim.clean # None /\ now - lim.clean >= premium_clean_window

Cap == IF lim.ceiling = None THEN maximum ELSE Least(maximum, lim.ceiling)

\* A cautious limiter creeps towards the ceiling, and stays cautious.
Creeps == lim.mode = "cautious" /\ IncreaseDue(slow_interval) /\ lim.rate < Cap

\* Mutant: an increase only waits for its interval.
MutClean == lim.mode = "normal" /\ lim.rate < maximum

\* A normal one moves only after a clean window without FLOOD_WAIT.
Clean == lim.mode = "normal" /\ Since(lim.lastFlood, CleanWindow) /\ lim.rate < maximum

Unbounded == Clean /\ lim.ceiling = None /\ IncreaseDue(increase_interval)

Learning == Clean /\ lim.ceiling # None
Confirms == Learning /\ lim.probe # None /\ now - lim.probe >= probe_confirm
Climbs == /\ Learning /\ ~Confirms
          /\ lim.rate < SlowZone(lim.ceiling) /\ IncreaseDue(increase_interval)
Nears == /\ Learning /\ ~Confirms
         /\ lim.rate >= SlowZone(lim.ceiling) /\ lim.rate < lim.ceiling
         /\ IncreaseDue(slow_interval)
Probes == /\ Learning /\ lim.rate >= lim.ceiling /\ lim.probe = None
          /\ Since(lim.lastFlood, lim.cooldown) /\ now - lim.probeEnded >= lim.cooldown

RaisedTo(r) == [lim EXCEPT !.rate = r, !.lastIncrease = now]

\* What a success makes of the limiter.  A probe that nobody objected to
\* becomes the ceiling.
Raised ==
    CASE Thaws -> [lim EXCEPT !.mode = "cautious", !.lastIncrease = now]
      [] Creeps -> RaisedTo(Least(Cap, lim.rate + slow_step))
      [] Unbounded -> RaisedTo(Least(maximum, lim.rate + increase_step))
      [] Confirms -> [lim EXCEPT !.ceiling = Least(maximum, lim.rate), !.probe = None,
                                 !.probeEnded = now, !.cooldown = probe_cooldown]
      [] Climbs -> RaisedTo(Least(SlowZone(lim.ceiling), lim.rate + increase_step))
      [] Nears -> RaisedTo(Least(lim.ceiling, lim.rate + slow_step))
      [] Probes -> [RaisedTo(Least(maximum, lim.rate + probe_step)) EXCEPT !.probe = now]
      [] OTHER -> lim

Success(s) ==
    /\ sender[s].pc = "sent"
    /\ sender' = [sender EXCEPT ![s] = Idle]
    /\ Learn(Raised, Raised # lim /\ ~Thaws)
    /\ UNCHANGED <<now, sent, flooded>>
-----------------------------------------------------------------------------
(* The store across restarts, and the clock. *)

\* _RateStore.load: the ceiling within its bounds, the rate four fifths of what
\* was learned.
Restored(r) ==
    LET ceiling == IF r.ceiling = None THEN None
                   ELSE Clamp(ceiling_floor, maximum, r.ceiling)
        cap == IF ceiling = None THEN maximum ELSE ceiling IN
    [rate |-> Clamp(minimum, maximum, Percent(Least(r.rate, cap), 80)), ceiling |-> ceiling]

\* A restart; what was saved more than a day ago is not used.
Restart ==
    /\ Spend("troubles")
    /\ \E old \in BOOLEAN :
          LET known == store # None /\ ~old
              r == IF known THEN Restored(store) ELSE [rate |-> initial, ceiling |-> None] IN
          /\ lim' = Fresh(r.rate, r.ceiling)
          /\ rates' = [low |-> r.rate, high |-> r.rate]
    /\ sender' = [s \in Senders |-> Idle]
    /\ sent' = <<>>
    /\ flooded' = NoFlood
    /\ UNCHANGED <<now, store>>

Sleeping == {s \in Senders : sender[s].pc = "pacing"}

\* Time passes while nobody has anything to do, up to the next moment a sleeper
\* wakes up.
Pass(d) ==
    /\ \A s \in Senders : sender[s].pc # "admitted"
    /\ \A s \in Sleeping : sender[s].at >= now + d
    /\ now' = now + d
    /\ UNCHANGED <<lim, store, sender, sent, rates, flooded>>

\* A pause before the first request would change nothing but the clock.
Pause ==
    /\ sent # <<>>
    /\ Spend("pauses")
    /\ \E d \in Pauses : Pass(d)

UntilWake ==
    /\ \E s \in Sleeping : sender[s].at > now /\ Pass(sender[s].at - now)
    /\ UNCHANGED left

SenderStep(s) ==
    \/ Admission(s) \/ Wake(s) \/ Revoke(s) \/ Send(s) \/ Fails(s) \/ Success(s)
    \/ \E seconds \in Waits, premium \in BOOLEAN : Flood(s, seconds, premium)

Next == (\E s \in Senders : SenderStep(s)) \/ Restart \/ Pause \/ UntilWake

Spec == Init /\ [][Next]_vars
-----------------------------------------------------------------------------
(* Properties. *)

Moments == Nat \cup {None}

\* The values the variables take.
TypeOK ==
    /\ now \in Nat /\ rates \in [low : Nat, high : Nat] /\ sent \in Seq(Nat)
    /\ lim \in [rate : Nat, ceiling : Moments, next : Int, penalty : Nat, lastFlood : Moments,
                lastIncrease : Nat, events : SUBSET Nat, escalated : Nat, probe : Moments,
                cooldown : Nat, probeEnded : Nat, mode : {"normal", "frozen", "cautious"},
                clean : Moments]
    /\ store = None \/ store \in [rate : Nat, ceiling : Moments]
    /\ sender \in [Senders -> [pc : {"idle", "pacing", "admitted", "sent", "again"}, at : Nat]]

Bounded(r) ==
    /\ r.rate \in minimum..maximum
    /\ r.ceiling = None \/ r.ceiling \in ceiling_floor..maximum
Below(r) == r.ceiling = None \/ r.rate <= r.ceiling

\* However FLOOD_WAITs, premium ones, successes, probes and restarts follow one
\* another, rate and ceiling stay within their bounds, the rate exceeds the
\* ceiling only while it probes, and a restart begins below both.
LearningIsSane ==
    /\ Bounded(lim) /\ (Below(lim) \/ lim.probe # None)
    /\ store # None => LET r == Restored(store) IN
                       Bounded(r) /\ Below(r) /\ r.rate <= Greatest(minimum, store.rate)

\* Requests sent after a FLOOD_WAIT, whoever sent them and however long they had
\* slept for their slot, come after the wait and a second more, and then one
\* interval apart: there is no stampede at its end.
FloodIsHonoured ==
    LET after == {i \in DOMAIN sent : sent[i] > flooded.at} IN
    flooded # NoFlood /\ after # {} =>
        sent[Len(sent)] >= flooded.until + (Cardinality(after) - 1) * Interval(rates.high)

\* In no stretch of time more requests are sent than one, the burst (credit that
\* was saved up at a lower rate counts) and what the highest rate so far allows.
BurstBounded ==
    \A i, j \in DOMAIN sent : i < j =>
        (j - i) * Interval(rates.high)
            <= sent[j] - sent[i] + burst * Interval(rates.low)

\* In one process the rate is never raised within the clean window after a
\* FLOOD_WAIT of either kind, in whatever mode it arrived.
RaiseAfterQuiet ==
    [][lim'.rate > lim.rate /\ sent' # <<>> =>
         flooded = NoFlood \/ now - flooded.at >= clean_window]_vars
=============================================================================
