----------------------------- MODULE Scheduler -----------------------------
(***************************************************************************)
(* The NIC scheduler of LinkPool (internal/scheduler/scheduler.go): smooth *)
(* weighted round-robin over the selected adapters, with weights that may  *)
(* follow the measured throughput, a least-connections tie-break and a     *)
(* temporary demotion of adapters whose dials keep failing.                *)
(*                                                                         *)
(* Every method runs under s.mu, but the mutex does not stop the clock and *)
(* does not cover the stats registry, and NextExcluding reads both anew    *)
(* for every entry in each of its loops.  A pick is therefore one step for *)
(* each entry of each loop: `pick' holds its local variables, and time     *)
(* (Tick) and the registry (Observe) may move between any two steps.  The  *)
(* few reads that one entry takes in one loop are one look.                *)
(*                                                                         *)
(* Abstractions.  demoteUntil is a countdown of ticks; consecFails is only *)
(* ever compared with 2 and 3, so it saturates at 3; a health record that  *)
(* is missing from the map is the zero record; rates are whole KB/s and    *)
(* the weights are computed in exact integer arithmetic.                   *)
(***************************************************************************)
EXTENDS Integers, Sequences, FiniteSets, Loops

CONSTANTS
    Adapters,     \* adapter IDs
    Configs,      \* the entry lists SetEntries may be called with
    ModeArgs,     \* the values SetMode may be called with
    Excludes,     \* the exclude sets NextExcluding may be called with
    Readings,     \* what the registry may report about one adapter
    Failing,      \* the adapters on which a dial may fail
    SoftTicks,    \* length of the 3 s demotion
    HardTicks,    \* length of the 8 s demotion
    MaxCurrent    \* bound: no pick starts once a score has left this range

ConfigEntry == [id : Adapters, weight : Int, ipv4 : BOOLEAN]
Entry       == [id : Adapters, weight : Nat \ {0}]
Reading     == [rate : Nat, active : Int, errors : Nat]

ASSUME SchedulerAssumption ==
    /\ Configs \subseteq Seq(ConfigEntry)
    /\ Excludes \subseteq SUBSET Adapters
    /\ Readings \subseteq Reading
    /\ Failing \subseteq Adapters
    /\ SoftTicks \in Nat \ {0} /\ HardTicks \in Nat /\ SoftTicks < HardTicks
    /\ MaxCurrent \in Nat

VARIABLES
    entries,      \* s.entries: the selectable adapters with their user weights
    current,      \* s.current: the round-robin score of each entry
    mode,         \* s.mode
    health,       \* s.health: consecutive failures and ticks of demotion left
    stats,        \* what the stats registry reports now
    pick          \* the NextExcluding call that holds s.mu, and its locals

vars == <<entries, current, mode, health, stats, pick>>

(* The loop the pick is in and the entries it has still to pass; the       *)
(* entries it has found hard-demoted, the weights it has added (the        *)
(* domain: `candidates'), the best candidate so far, and the weights it    *)
(* has summed up for the winner to pay.                                    *)
NoPick    == [stage |-> "none", left |-> {}, exclude |-> {}, skipped |-> {},
              added |-> <<>>, best |-> 0, due |-> <<>>]
Unlocked  == pick.stage = "none"
Healthy   == [fails |-> 0, demote |-> 0]
Positions == 1..Len(entries)
-----------------------------------------------------------------------------
(* Weights                                                                 *)

Demoted(a)     == health[a].demote > 0
HardDemoted(a) == Demoted(a) /\ health[a].fails >= 3

MaxRate == Loop(Len(entries), 0, [i \in Positions |-> [m \in Nat |->
               IF stats[entries[i].id].rate > m THEN stats[entries[i].id].rate ELSE m]])

ColdRate == 2     \* KB/s: below this peak the user weights are kept

(* round(10 * userW * factor), where factor is the share of the peak rate, *)
(* at least 1/20, times 1/(1+0.08 active), times 1/(1+0.15 errors), cut to *)
(* [1/4, 4].  The factor is num/den; a registry that has been reset counts *)
(* `active' below zero, and then den may be negative.                      *)
WeightWithoutFloor(userW, r, peak) ==
    LET num == 500 * (IF 20 * r.rate < peak THEN peak ELSE 20 * r.rate)
        den == peak * (100 + 8 * r.active) * (100 + 15 * r.errors)
    IN  (20 * userW * num + den) \div (2 * den)
WeightFavouringBusy(userW, r, peak) ==
    LET num == 500 * (IF 20 * r.rate < peak THEN peak ELSE 20 * r.rate)
        den == peak * (100 - 8 * r.active) * (100 + 15 * r.errors)
    IN  IF den < 0 \/ 4 * num < den THEN (5 * userW + 1) \div 2
        ELSE IF num > 4 * den       THEN 40 * userW
        ELSE (20 * userW * num + den) \div (2 * den)
AdaptiveWeight(userW, r, peak) ==
    LET num == 500 * (IF 20 * r.rate < peak THEN peak ELSE 20 * r.rate)
        den == peak * (100 + 8 * r.active) * (100 + 15 * r.errors)
    IN  IF den < 0 \/ 4 * num < den THEN (5 * userW + 1) \div 2
        ELSE IF num > 4 * den       THEN 40 * userW
        ELSE (20 * userW * num + den) \div (2 * den)

EffectiveWeight(i) ==
    LET e == entries[i] IN
    IF Demoted(e.id) THEN 1
    ELSE IF mode # "adaptive" \/ Len(entries) < 2 \/ MaxRate < ColdRate THEN e.weight
    ELSE AdaptiveWeight(e.weight, stats[e.id], MaxRate)
-----------------------------------------------------------------------------
(* One pick                                                                *)

NonExcluded(ex) == {i \in Positions : entries[i].id \notin ex}

(* NextExcluding returns ErrNoAdapters and changes nothing. *)
NoAdapters(ex) == NonExcluded(ex) = {}

Abs(x) == IF x < 0 THEN -x ELSE x

(* The window in which two scores count as close. *)
Window(i) == IF pick.added[i] \div 4 > 1 THEN pick.added[i] \div 4 ELSE 1

Active(i) == stats[entries[i].id].active

(* Candidate i displaces the best one so far. *)
DisplacesWhateverTheScore(i, best) ==
    \/ current[i] > current[best]
    \/ Active(i) < Active(best)
Displaces(i, best) ==
    \/ current[i] > current[best]
    \/ /\ Abs(current[i] - current[best]) <= Window(best)
       /\ Active(i) < Active(best)

Extended(f, i, w) == [j \in DOMAIN f \cup {i} |-> IF j = i THEN w ELSE f[j]]

(* A pick that has passed every entry of its loop goes on to the next one: *)
(* entries are weighed again, without regard to demotion, only if the      *)
(* first loop found no candidate.                                          *)
Onward(p) ==
    IF p.left # {} THEN p
    ELSE IF p.stage = "scan" THEN [p EXCEPT !.stage = "pay", !.left = NonExcluded(p.exclude)]
    ELSE IF DOMAIN p.added = {} THEN [p EXCEPT !.stage = "again", !.left = NonExcluded(p.exclude)]
    ELSE [p EXCEPT !.stage = "scan", !.left = DOMAIN p.added]

WithinBound == \A i \in Positions : Abs(current[i]) <= MaxCurrent

StartPick(ex) ==
    /\ Unlocked
    /\ WithinBound
    /\ ~NoAdapters(ex)
    /\ pick' = [NoPick EXCEPT !.stage = "weigh", !.exclude = ex, !.left = NonExcluded(ex)]
    /\ UNCHANGED <<entries, current, mode, health, stats>>

(* The loops pass the entries in their order. *)
Turn(i) == i \in pick.left /\ \A j \in pick.left : i <= j

(* Only the first loop skips hard-demoted adapters. *)
SkipsNone(i) == FALSE
Skips(i) == pick.stage = "weigh" /\ HardDemoted(entries[i].id)

SkipEntry(i) ==
    /\ Turn(i) /\ Skips(i)
    /\ pick' = Onward([pick EXCEPT !.left = @ \ {i}, !.skipped = @ \cup {i}])
    /\ UNCHANGED <<entries, current, mode, health, stats>>

WeighEntry(i) ==
    /\ pick.stage \in {"weigh", "again"} /\ Turn(i) /\ ~Skips(i)
    /\ current' = [current EXCEPT ![i] = @ + EffectiveWeight(i)]
    /\ pick' = Onward([pick EXCEPT !.left = @ \ {i}, !.added = Extended(@, i, EffectiveWeight(i))])
    /\ UNCHANGED <<entries, mode, health, stats>>

ScanEntry(i) ==
    /\ pick.stage = "scan" /\ Turn(i)
    /\ pick' = Onward([pick EXCEPT !.left = @ \ {i},
                           !.best = IF @ = 0 \/ Displaces(i, @) THEN i ELSE @])
    /\ UNCHANGED <<entries, current, mode, health, stats>>

PayEntry(i) ==
    /\ pick.stage = "pay" /\ Turn(i) /\ pick.left # {i}
    /\ pick' = [pick EXCEPT !.left = @ \ {i}, !.due = Extended(@, i, EffectiveWeight(i))]
    /\ UNCHANGED <<entries, current, mode, health, stats>>

(* The last entry is summed up, and the winner pays. *)
SubTotalOfOthers(due) == SumTo(Len(entries), [i \in Positions |->
                             IF i \in DOMAIN due \ {pick.best} THEN due[i] ELSE 0])
SubTotal(due) == SumTo(Len(entries), [i \in Positions |->
                     IF i \in DOMAIN due THEN due[i] ELSE 0])

Settle(i) ==
    /\ pick.stage = "pay" /\ pick.left = {i}
    /\ current' = [current EXCEPT ![pick.best] = @ - SubTotal(Extended(pick.due, i, EffectiveWeight(i)))]
    /\ pick' = NoPick
    /\ UNCHANGED <<entries, mode, health, stats>>

(* The steps of a pick under the lock. *)
Passing == \E i \in Positions : SkipEntry(i) \/ WeighEntry(i) \/ ScanEntry(i) \/ PayEntry(i)
-----------------------------------------------------------------------------
(* The other methods                                                       *)

AsGiven(w)    == w
AtLeastOne(w) == IF w < 1 THEN 1 ELSE w

SetEntries(config) ==
    LET kept == Loop(Len(config), <<>>, [i \in 1..Len(config) |-> [acc \in Seq(Entry) |->
                    IF config[i].ipv4
                    THEN Append(acc, [id |-> config[i].id, weight |-> AtLeastOne(config[i].weight)])
                    ELSE acc]])
    IN  /\ Unlocked
        /\ entries' = kept
        /\ current' = [i \in 1..Len(kept) |-> 0]
        /\ UNCHANGED <<mode, health, stats, pick>>

SetMode(m) ==
    /\ Unlocked
    /\ mode' = IF m \in {"static", "adaptive"} THEN m ELSE "adaptive"
    /\ UNCHANGED <<entries, current, health, stats, pick>>

RecordDialFailure(a) ==
    /\ Unlocked
    /\ LET n == IF health[a].fails = 3 THEN 3 ELSE health[a].fails + 1 IN
       health' = [health EXCEPT ![a] =
           [fails  |-> n,
            demote |-> IF n >= 3 THEN HardTicks ELSE IF n >= 2 THEN SoftTicks ELSE @.demote]]
    /\ UNCHANGED <<entries, current, mode, stats, pick>>

RecordDialSuccess(a) ==
    /\ Unlocked
    /\ health' = [health EXCEPT ![a] = Healthy]
    /\ UNCHANGED <<entries, current, mode, stats, pick>>

(* Time passes, whoever holds the lock. *)
Tick ==
    /\ \E a \in Adapters : Demoted(a)
    /\ health' = [a \in Adapters |->
           IF Demoted(a) THEN [health[a] EXCEPT !.demote = @ - 1] ELSE health[a]]
    /\ UNCHANGED <<entries, current, mode, stats, pick>>

(* The registry moves, whoever holds the lock. *)
Observe(readings) ==
    /\ stats' = readings
    /\ UNCHANGED <<entries, current, mode, health, pick>>
-----------------------------------------------------------------------------
Init ==
    /\ entries = <<>>
    /\ current = <<>>
    /\ mode    = "adaptive"
    /\ health  = [a \in Adapters |-> Healthy]
    /\ stats   = [a \in Adapters |-> [rate |-> 0, active |-> 0, errors |-> 0]]
    /\ pick    = NoPick

Next ==
    \/ \E ex \in Excludes : StartPick(ex)
    \/ Passing
    \/ \E i \in Positions : Settle(i)
    \/ \E config \in Configs : SetEntries(config)
    \/ \E m \in ModeArgs : SetMode(m)
    \/ \E a \in Failing : RecordDialFailure(a)
    \/ \E a \in Adapters : RecordDialSuccess(a)
    \/ Tick
    \/ \E readings \in [Adapters -> Readings] : Observe(readings)

Spec == Init /\ [][Next]_vars

(* The callers keep asking, and a pick that holds the lock goes on. *)
Pick == (\E ex \in Excludes : StartPick(ex)) \/ Passing \/ \E i \in Positions : Settle(i)

FairSpec == Spec /\ WF_vars(Pick)
-----------------------------------------------------------------------------
(* Properties                                                              *)

(* The types of the state.  A pick in progress has entries to choose from, *)
(* weighs none it must not choose, and has a candidate once it scans and a *)
(* best one once it pays.                                                  *)
PickAmong(p, free) ==
    /\ p = [stage |-> p.stage, left |-> p.left, exclude |-> p.exclude, skipped |-> p.skipped,
            added |-> p.added, best |-> p.best, due |-> p.due]
    /\ p.stage \in {"none", "weigh", "again", "scan", "pay"}
    /\ p.exclude \subseteq Adapters
    /\ p.left \subseteq free /\ p.skipped \subseteq free
    /\ DOMAIN p.added \subseteq free /\ p.added \in [DOMAIN p.added -> Nat \ {0}]
    /\ DOMAIN p.due \subseteq free   /\ p.due \in [DOMAIN p.due -> Nat \ {0}]
    /\ p.best \in DOMAIN p.added \cup {0}
    /\ p.stage = "none"  => p = NoPick
    /\ p.stage # "none"  => free # {} /\ p.left # {}
    /\ p.stage # "pay"   => DOMAIN p.due = {}
    /\ p.stage \in {"weigh", "again"} => p.best = 0 /\ p.left \cap DOMAIN p.added = {}
    /\ p.stage = "weigh" => free = p.left \cup p.skipped \cup DOMAIN p.added
    /\ p.stage = "again" => free = p.left \cup DOMAIN p.added /\ free = p.skipped
    /\ p.stage = "scan"  => /\ p.left \subseteq DOMAIN p.added \ {p.best}
                            /\ p.best = 0 => p.left = DOMAIN p.added
    /\ p.stage = "pay"   => p.best # 0 /\ free = p.left \cup DOMAIN p.due

PickOk == PickAmong(pick, NonExcluded(pick.exclude))

TypeOK ==
    /\ entries \in Seq(Entry)
    /\ current \in [Positions -> Int]
    /\ mode \in {"static", "adaptive"}
    /\ health \in [Adapters -> [fails : 0..3, demote : 0..HardTicks]]
    /\ stats \in [Adapters -> Reading]
    /\ PickOk

Added == SumTo(Len(entries), [i \in Positions |->
             IF i \in DOMAIN pick.added THEN pick.added[i] ELSE 0])
Score == SumTo(Len(entries), current)

(* Without failing dials and below the cold rate, whatever the callers     *)
(* exclude, a pick takes from the winner exactly what it gave the          *)
(* candidates: the scores always add up to what the pick in progress has   *)
(* added.                                                                  *)
ZeroSum == Score = Added

(* Under the same conditions no adapter ever gets ahead of its share or    *)
(* behind it by more than the largest weight and half of what the          *)
(* tie-break may override, once for each other adapter, although picks     *)
(* exclude adapters and the least-connections rule overrides close scores: *)
(* a long series of picks does not drift.                                  *)
Override(w) == (Len(entries) - 1) * (IF w \div 4 > 1 THEN w \div 4 ELSE 1)
LagBound(w) == (Len(entries) - 1) * (2 * w + Override(w))
ShareLag ==
    Unlocked => \A i \in Positions : \E m \in Positions :
        2 * Abs(current[i]) <= LagBound(entries[m].weight)

(* With failing dials the scores never add up to more than the pick in     *)
(* progress has added: a demotion can end in the middle of a pick but it   *)
(* cannot begin there, so a pick may settle more than it gave, never less. *)
SumNeverPositive == Score <= Added

(* "Skip hard-demoted unless every non-excluded is demoted": a pick has a  *)
(* hard-demoted adapter as its best only if it has found every adapter     *)
(* that it was free to choose hard-demoted, although demotions end between *)
(* its looks and again before it has chosen.                               *)
PickHonoursDemotion ==
    pick.best # 0 /\ HardDemoted(entries[pick.best].id) =>
        NonExcluded(pick.exclude) \subseteq pick.skipped

(* The scan prefers a less busy adapter only within the windows of the     *)
(* candidates it passes: the winner's score is never further below the     *)
(* best score than one window for each other candidate.                    *)
PickNearMax ==
    LET cand == DOMAIN pick.added IN
    pick.stage = "pay" => \E i \in cand : \A j \in cand :
        current[j] - current[pick.best] <= (Cardinality(cand) - 1) *
            (IF pick.added[i] \div 4 > 1 THEN pick.added[i] \div 4 ELSE 1)

(* Once the settings and the registry are left alone, every selected       *)
(* adapter is picked again and again ("Bound so one NIC cannot starve      *)
(* others completely").                                                    *)
Disturbance == \/ \E config \in Configs : SetEntries(config)
               \/ \E m \in ModeArgs : SetMode(m)
               \/ \E readings \in [Adapters -> Readings] : Observe(readings)
Selected == {entries[i].id : i \in Positions}
NoStarvation ==
    [](Unlocked => WithinBound) /\ <>[][~Disturbance]_vars =>
        \A a \in Adapters :
            []<>(a \in Selected => pick.best # 0 /\ entries[pick.best].id = a)

(* Every weight is positive, none exceeds forty times the user weight,     *)
(* only a demotion takes an adapter below it, and the adaptive factor      *)
(* never costs more than three quarters: whatever the registry reports,    *)
(* negative counters after Reset included.                                 *)
WeightBounds ==
    \A i \in Positions :
        LET w == EffectiveWeight(i)
            u == entries[i].weight
        IN  /\ w >= 1 /\ w <= 40 * u
            /\ (w < u => Demoted(entries[i].id))
            /\ (mode = "adaptive" /\ Len(entries) >= 2 /\ MaxRate >= ColdRate
                 /\ ~Demoted(entries[i].id) => 2 * w >= 5 * u)

(* Of two adapters with the same user weight, the one that is at least as  *)
(* fast, no busier and has failed no more often never weighs less.         *)
FasterNotLighter ==
    \A i, j \in Positions :
        LET ri == stats[entries[i].id]
            rj == stats[entries[j].id]
        IN  (/\ entries[i].weight = entries[j].weight
             /\ ~Demoted(entries[i].id)
             /\ ri.rate >= rj.rate /\ ri.active <= rj.active /\ ri.errors <= rj.errors)
            => EffectiveWeight(i) >= EffectiveWeight(j)
=============================================================================
