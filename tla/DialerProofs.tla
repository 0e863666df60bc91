---------------------------- MODULE DialerProofs ----------------------------
(***************************************************************************)
(* The dialer keeps to the scheduler's specification and its accounts of   *)
(* connections and failures are right, for any number of callers, adapters *)
(* and entry lists.                                                        *)
(***************************************************************************)
EXTENDS Dialer, SchedulerProofs, FiniteSetTheorems

USE DialerAssumption

(* Any set of adapters may have been tried, the registry counts without    *)
(* limit, and there are finitely many callers.                             *)
Unbounded ==
    /\ Excludes = SUBSET Adapters
    /\ [rate : {0}, active : Int, errors : Nat] \subseteq Readings
    /\ IsFiniteSet(Callers)
-----------------------------------------------------------------------------
(* What is known of the callers                                            *)

Places == {"idle", "direct", "next", "picking", "dialing", "charge", "count", "open", "failed"}

CallsOK ==
    /\ pc \in [Callers -> Places]
    /\ on \in [Callers -> Adapters \cup {None}]
    /\ maxTries \in [Callers -> Nat]
    /\ tried \in [Callers -> SUBSET Adapters]
    /\ resets \in 0..MaxResets
    /\ \A p \in Callers : on[p] = None => pc[p] \notin {"dialing", "charge", "count", "open"}
    /\ \A p \in Callers : pc[p] = "charge" => on[p] \in Failing

(* The dialer's part of the registry. *)
StatsOK == stats \in [Adapters -> [rate : {0}, active : Int, errors : Nat]]

DialerOK == TypeOK /\ CallsOK /\ StatsOK

LEMMA TypedCallers == DialerOK => DialerTypeOK
  BY DEF DialerOK, CallsOK, DialerTypeOK, Places

(* One caller moves and the rest stay. *)
LEMMA CallMoves ==
    ASSUME CallsOK, NEW p \in Callers, NEW to \in Places, pc' = [pc EXCEPT ![p] = to],
           NEW o \in Adapters \cup {None}, on' = [on EXCEPT ![p] = o],
           o = None => to \notin {"dialing", "charge", "count", "open"},
           to = "charge" => o \in Failing,
           maxTries' \in [Callers -> Nat], tried' \in [Callers -> SUBSET Adapters],
           resets' = resets
    PROVE  CallsOK'
<1>1. /\ pc' \in [Callers -> Places] /\ on' \in [Callers -> Adapters \cup {None}]
      /\ resets' \in 0..MaxResets
  BY DEF CallsOK
<1>2. ASSUME NEW q \in Callers
      PROVE  /\ on'[q] = None => pc'[q] \notin {"dialing", "charge", "count", "open"}
             /\ pc'[q] = "charge" => on'[q] \in Failing
  <2>1. CASE q = p
    BY <2>1 DEF CallsOK
  <2>2. CASE q # p
    BY <2>2 DEF CallsOK
  <2> QED BY <2>1, <2>2
<1> QED BY <1>1, <1>2 DEF CallsOK

LEMMA CallStays ==
    ASSUME CallsOK, NEW p \in Callers, NEW to \in Places, pc' = [pc EXCEPT ![p] = to],
           UNCHANGED callVars, to \notin {"dialing", "charge", "count", "open"}
    PROVE  CallsOK'
<1>1. on[p] \in Adapters \cup {None} /\ on' = [on EXCEPT ![p] = on[p]]
      /\ maxTries' \in [Callers -> Nat] /\ tried' \in [Callers -> SUBSET Adapters] /\ resets' = resets
  BY DEF CallsOK, callVars
<1> QED BY <1>1, CallMoves

LEMMA CallGoesOn ==
    ASSUME CallsOK, NEW p \in Callers, NEW to \in Places, pc' = [pc EXCEPT ![p] = to],
           UNCHANGED callVars, pc[p] \in {"dialing", "charge", "count", "open"},
           to = "charge" => on[p] \in Failing
    PROVE  CallsOK'
<1>1. on[p] \in Adapters /\ on' = [on EXCEPT ![p] = on[p]]
      /\ maxTries' \in [Callers -> Nat] /\ tried' \in [Callers -> SUBSET Adapters] /\ resets' = resets
  BY DEF CallsOK, callVars
<1> QED BY <1>1, CallMoves

LEMMA CallForgotten ==
    ASSUME CallsOK, NEW p \in Callers, pc' = [pc EXCEPT ![p] = "idle"], Forget(p)
    PROVE  CallsOK'
<1>1. /\ on' = [on EXCEPT ![p] = None] /\ resets' = resets /\ "idle" \in Places
      /\ maxTries' \in [Callers -> Nat] /\ tried' \in [Callers -> SUBSET Adapters]
  BY DEF Forget, CallsOK, Places
<1> QED BY <1>1, CallMoves
-----------------------------------------------------------------------------
(* Every step of a caller is a step of the scheduler or nothing to it      *)

LEMMA StatsMove ==
    ASSUME Unbounded, StatsOK', OnlyStats PROVE Next
<1>1. stats' \in [Adapters -> Readings]
  BY DEF StatsOK, Unbounded
<1>2. Observe(stats')
  BY DEF Observe, OnlyStats
<1> QED BY <1>1, <1>2 DEF Next

LEMMA StatsChange ==
    ASSUME StatsOK, NEW a \in Adapters, NEW n \in Int, AddError(a) \/ AddActive(a, n)
    PROVE  StatsOK'
<1> DEFINE R == [rate : {0}, active : Int, errors : Nat]
<1>1. stats[a] \in R /\ stats \in [Adapters -> R]
  BY DEF StatsOK
<1>2. PICK r \in R : stats' = [stats EXCEPT ![a] = r]
  <2>1. CASE AddError(a)
    <3>1. [stats[a] EXCEPT !.errors = @ + 1] \in R
      BY <1>1
    <3> HIDE DEF R
    <3> QED BY <2>1, <3>1 DEF AddError
  <2>2. CASE AddActive(a, n)
    <3>1. [stats[a] EXCEPT !.active = @ + n] \in R
      BY <1>1
    <3> HIDE DEF R
    <3> QED BY <2>2, <3>1 DEF AddActive
  <2> QED BY <2>1, <2>2
<1>3. stats' \in [Adapters -> R]
  <2> HIDE DEF R
  <2> QED BY <1>1, <1>2
<1> QED BY <1>3 DEF StatsOK

(* The steps of a pick after its first leave all but the scores and its    *)
(* own locals alone and keep the lock.                                     *)
LEMMA PassingKeeps ==
    ASSUME TypeOK, Passing
    PROVE  /\ UNCHANGED <<entries, mode, health, stats>>
           /\ ~Unlocked /\ ~Unlocked' /\ pick'.exclude = pick.exclude
<1>1. UNCHANGED <<entries, mode, health, stats>>
  BY DEF Passing, SkipEntry, WeighEntry, ScanEntry, PayEntry
<1>2. ASSUME NEW i \in Positions, SkipEntry(i)
      PROVE  ~Unlocked /\ ~Unlocked' /\ pick'.exclude = pick.exclude
  <2>1. pick' # NoPick
    <3>1. i \in pick'.skipped /\ NoPick.skipped = {}
      BY <1>2, SkipIs DEF NoPick
    <3> QED BY <3>1
  <2> QED BY <1>2, <2>1, SkipIs DEF PickOk, PickAmong, Unlocked
<1>3. ASSUME NEW i \in Positions, WeighEntry(i)
      PROVE  ~Unlocked /\ ~Unlocked' /\ pick'.exclude = pick.exclude
  <2>1. pick'.stage = pick.stage \/ pick'.stage = "scan"
    BY <1>3, WeighIs
  <2> QED BY <1>3, <2>1, WeighIs DEF Unlocked
<1> QED BY <1>1, <1>2, <1>3, ScanIs, PayIs DEF Passing

LEMMA LockingStep ==
    ASSUME Unbounded, DialerOK, NEW p \in Callers, Locking(p)
    PROVE  [Next]_vars /\ CallsOK' /\ StatsOK'
<1> USE DEF Places
<1>1. CallsOK /\ StatsOK /\ p \in DOMAIN pc
  BY DEF DialerOK, CallsOK
<1>2. CASE Choose(p)
  <2>1. tried[p] \in Excludes /\ StartPick(tried[p]) /\ stats' = stats
    BY <1>1, <1>2 DEF Choose, StartPick, CallsOK, Unbounded
  <2>2. CallsOK'
    BY <1>1, <1>2, CallStays DEF Choose, Goto
  <2> QED BY <1>1, <2>1, <2>2 DEF Next, StatsOK
<1>3. CASE GiveUp(p)
  <2>1. CallsOK'
    BY <1>1, <1>3, CallStays DEF GiveUp, Goto
  <2> QED BY <1>1, <1>3, <2>1 DEF GiveUp, vars, StatsOK
<1>4. CASE Charge(p)
  <2>1. on[p] \in Failing /\ RecordDialFailure(on[p]) /\ stats' = stats
    BY <1>1, <1>4 DEF Charge, Goto, CallsOK, RecordDialFailure
  <2>2. CallsOK'
    <3> DEFINE to == IF p \in Dials THEN "next" ELSE "failed"
    <3>1. pc' = [pc EXCEPT ![p] = to] /\ UNCHANGED callVars
      BY <1>4 DEF Charge, Goto
    <3>2. to \in Places /\ to \notin {"dialing", "charge", "count", "open"}
      OBVIOUS
    <3> HIDE DEF to
    <3> QED BY <1>1, <3>1, <3>2, CallStays
  <2> QED BY <1>1, <2>1, <2>2 DEF Next, StatsOK
<1>5. CASE DialSucceeds(p)
  <2>1. on[p] \in Adapters /\ RecordDialSuccess(on[p]) /\ stats' = stats
    BY <1>1, <1>5 DEF DialSucceeds, Goto, CallsOK, RecordDialSuccess
  <2>2. CallsOK'
    BY <1>1, <1>5, CallGoesOn DEF DialSucceeds, Goto
  <2> QED BY <1>1, <2>1, <2>2 DEF Next, StatsOK
<1> QED BY <1>2, <1>3, <1>4, <1>5 DEF Locking

LEMMA RunningStep ==
    ASSUME Unbounded, DialerOK, NEW p \in Callers, Running(p)
    PROVE  [Next]_vars /\ CallsOK' /\ StatsOK'
<1> USE DEF Places
<1>1. CallsOK /\ StatsOK /\ p \in DOMAIN pc /\ TypeOK
  BY DEF DialerOK, CallsOK
<1>2. CASE Compare(p)
  <2>1. pc' = [pc EXCEPT ![p] = "picking"] /\ UNCHANGED callVars /\ Passing
    BY <1>1, <1>2 DEF Compare, CallsOK
  <2>2. CallsOK'
    BY <1>1, <2>1, CallStays
  <2>3. stats' = stats
    BY <1>1, <2>1, PassingKeeps
  <2> QED BY <1>1, <2>1, <2>2, <2>3 DEF Next, StatsOK
<1>3. CASE Chosen(p)
  <2> DEFINE o == entries[pick.best].id
  <2>1. o \in Adapters
    <3>1. pick.best \in Positions
      BY <1>1, <1>3, SettleIs DEF Chosen
    <3> QED BY <1>1, <3>1, EntryAt
  <2>2. /\ pc' = [pc EXCEPT ![p] = "dialing"] /\ on' = [on EXCEPT ![p] = o]
        /\ tried' = [tried EXCEPT ![p] = @ \cup {o}] /\ UNCHANGED <<maxTries, resets>>
        /\ (\E i \in Positions : Settle(i)) /\ stats' = stats
    BY <1>3 DEF Chosen, Goto, Settle
  <2> HIDE DEF o
  <2>3. tried' \in [Callers -> SUBSET Adapters] /\ maxTries' \in [Callers -> Nat] /\ o # None
    BY <1>1, <2>1, <2>2 DEF CallsOK
  <2>4. CallsOK'
    BY <1>1, <2>1, <2>2, <2>3, CallMoves
  <2> QED BY <1>1, <2>2, <2>4 DEF Next, StatsOK
<1>4. CASE DialFails(p)
  <2>1. StatsOK'
    <3>1. on[p] \in Adapters /\ AddError(on[p])
      BY <1>1, <1>4 DEF DialFails, Goto, CallsOK
    <3> QED BY <1>1, <3>1, StatsChange
  <2>2. CallsOK'
    BY <1>1, <1>4, CallGoesOn DEF DialFails, Goto
  <2> QED BY <1>4, <2>1, <2>2, StatsMove DEF DialFails
<1>5. CASE ConnOpen(p)
  <2>1. StatsOK'
    <3>1. on[p] \in Adapters /\ AddActive(on[p], 1)
      BY <1>1, <1>5 DEF ConnOpen, Goto, CallsOK
    <3> QED BY <1>1, <3>1, StatsChange
  <2>2. CallsOK'
    BY <1>1, <1>5, CallGoesOn DEF ConnOpen, Goto
  <2> QED BY <1>5, <2>1, <2>2, StatsMove DEF ConnOpen
<1> QED BY <1>2, <1>3, <1>4, <1>5 DEF Running

LEMMA UsingStep ==
    ASSUME Unbounded, DialerOK, NEW p \in Callers, Using(p)
    PROVE  [Next]_vars /\ CallsOK' /\ StatsOK'
<1> USE DEF Places
<1>1. CallsOK /\ StatsOK /\ p \in DOMAIN pc /\ TypeOK
  BY DEF DialerOK, CallsOK
<1>2. CASE Begin(p)
  <2> DEFINE m == AtLeastOne(Len(entries))
  <2>1. m \in Nat
    BY <1>1, EntryAt DEF AtLeastOne
  <2>2. /\ pc' = [pc EXCEPT ![p] = "next"] /\ maxTries' = [maxTries EXCEPT ![p] = m]
        /\ tried' = [tried EXCEPT ![p] = {}] /\ UNCHANGED <<vars, on, resets>>
    BY <1>2 DEF Begin, Goto
  <2> HIDE DEF m
  <2>3. /\ maxTries' \in [Callers -> Nat] /\ tried' \in [Callers -> SUBSET Adapters]
        /\ on[p] \in Adapters \cup {None} /\ on' = [on EXCEPT ![p] = on[p]]
    BY <1>1, <2>1, <2>2 DEF CallsOK
  <2>4. CallsOK'
    BY <1>1, <2>2, <2>3, CallMoves
  <2> QED BY <1>1, <2>2, <2>4 DEF vars, StatsOK
<1>3. CASE Bypass(p)
  <2>1. CallsOK'
    BY <1>1, <1>3, CallStays DEF Bypass, Goto
  <2> QED BY <1>1, <1>3, <2>1 DEF Bypass, vars, StatsOK
<1>4. CASE Close(p)
  <2>1. StatsOK'
    <3>1. on[p] \in Adapters /\ AddActive(on[p], -1)
      BY <1>1, <1>4 DEF Close, Goto, CallsOK
    <3> QED BY <1>1, <3>1, StatsChange
  <2>2. CallsOK'
    BY <1>1, <1>4, CallForgotten DEF Close, Goto
  <2> QED BY <1>4, <2>1, <2>2, StatsMove DEF Close
<1>5. CASE Done(p)
  <2>1. CallsOK'
    BY <1>1, <1>5, CallForgotten DEF Done, Goto
  <2> QED BY <1>1, <1>5, <2>1 DEF Done, vars, StatsOK
<1>6. ASSUME NEW a \in Adapters, BeginBoundOn(p, a) PROVE [Next]_vars /\ CallsOK' /\ StatsOK'
  <2>1. /\ pc' = [pc EXCEPT ![p] = "dialing"] /\ on' = [on EXCEPT ![p] = a] /\ a # None
        /\ UNCHANGED <<vars, maxTries, tried, resets>>
    BY <1>6 DEF BeginBoundOn, Goto
  <2>2. maxTries' \in [Callers -> Nat] /\ tried' \in [Callers -> SUBSET Adapters]
    BY <1>1, <2>1 DEF CallsOK
  <2>3. CallsOK'
    BY <1>1, <2>1, <2>2, CallMoves
  <2> QED BY <1>1, <2>1, <2>3 DEF vars, StatsOK
<1> QED BY <1>2, <1>3, <1>4, <1>5, <1>6 DEF Using

LEMMA AroundStep ==
    ASSUME Unbounded, DialerOK, Reset \/ Environment \/ UNCHANGED dialerVars
    PROVE  [Next]_vars /\ CallsOK' /\ StatsOK'
<1>1. CallsOK /\ StatsOK
  BY DEF DialerOK
<1>2. CASE Reset
  <2>1. StatsOK' /\ OnlyStats
    BY <1>2 DEF Reset, Observe, StatsOK, OnlyStats
  <2>2. CallsOK'
    BY <1>1, <1>2 DEF Reset, CallsOK
  <2> QED BY <2>1, <2>2, StatsMove
<1>3. CASE Environment
  <2>1. Next
    BY <1>3 DEF Environment, Next
  <2>2. stats' = stats /\ UNCHANGED <<pc, callVars>>
    BY <1>3 DEF Environment, Tick, SetEntries, SetMode
  <2> QED BY <1>1, <2>1, <2>2 DEF CallsOK, StatsOK, callVars
<1>4. CASE UNCHANGED dialerVars
  BY <1>1, <1>4 DEF dialerVars, vars, callVars, CallsOK, StatsOK
<1> QED BY <1>2, <1>3, <1>4

LEMMA DialerStep ==
    ASSUME Unbounded, DialerOK, [DialerNext]_dialerVars
    PROVE  [Next]_vars /\ DialerOK'
<1>1. [Next]_vars /\ CallsOK' /\ StatsOK'
  BY LockingStep, RunningStep, UsingStep, AroundStep DEF DialerNext
<1> QED BY <1>1, NextType DEF DialerOK

LEMMA DialerInitOK == DialerInit => Init /\ DialerOK
<1> SUFFICES ASSUME DialerInit PROVE Init /\ DialerOK
  OBVIOUS
<1>1. CallsOK
  BY DEF DialerInit, CallsOK, Places
<1>2. StatsOK
  BY DEF DialerInit, Init, StatsOK
<1> QED BY <1>1, <1>2, InitType DEF DialerInit, DialerOK

(* The callers' program counters, adapters and tries are what their types  *)
(* say, and a caller that dials or is connected does so on some adapter.   *)
THEOREM DialerTypeCorrect == ASSUME Unbounded PROVE DialerSpec => []DialerTypeOK
<1>1. DialerOK /\ [DialerNext]_dialerVars => DialerOK'
  BY DialerStep
<1> QED BY <1>1, DialerInitOK, TypedCallers, PTL DEF DialerSpec

(* However calls interleave, the dialer only does to the scheduler what    *)
(* the scheduler's specification allows.                                   *)
THEOREM DialsSchedule == ASSUME Unbounded PROVE DialerSpec => Spec
<1>1. DialerOK /\ [DialerNext]_dialerVars => DialerOK' /\ [Next]_vars
  BY DialerStep
<1> QED BY <1>1, DialerInitOK, PTL DEF DialerSpec, Spec

(* A hard-demoted adapter is a last resort of the dialer, too. *)
THEOREM DialerLastResort == ASSUME Unbounded PROVE DialerSpec => []PickHonoursDemotion
  BY DialsSchedule, LastResort, PTL

(* Demotions that begin and end while dials choose adapters only lower the *)
(* sum of the scores, as long as no adapter reports traffic.               *)
THEOREM DialerNeverPositive ==
    ASSUME Unbounded, ColdReadings PROVE DialerSpec => []SumNeverPositive
  BY DialsSchedule, NeverPositive, PTL
-----------------------------------------------------------------------------
(* The accounts                                                            *)

At(place, a) == {p \in Callers : pc[p] = place /\ on[p] = a}

(* What the counters of the registry and the scheduler owe to the callers. *)
Accounts ==
    \A a \in Adapters :
        /\ resets = 0 => /\ stats[a].active = Cardinality(At("open", a))
                         /\ health[a].fails + Cardinality(At("charge", a)) <= stats[a].errors
        /\ stats[a].active <= Cardinality(At("open", a))

LEMMA AtFinite ==
    ASSUME Unbounded, NEW place, NEW a
    PROVE  IsFiniteSet(At(place, a)) /\ Cardinality(At(place, a)) \in Nat
<1>1. At(place, a) \in SUBSET Callers
  BY DEF At
<1>2. IsFiniteSet(At(place, a))
  BY <1>1, FS_Subset DEF Unbounded
<1> QED BY <1>2, FS_CardinalityType

(* One caller moves; two places are accounted for. *)
LEMMA CountsMove ==
    ASSUME Unbounded, CallsOK, NEW p \in Callers, NEW to, pc' = [pc EXCEPT ![p] = to],
           on' \in [Callers -> Adapters \cup {None}], \A q \in Callers : q # p => on'[q] = on[q],
           NEW a
    PROVE  /\ Cardinality(At("open", a))' = Cardinality(At("open", a))
                  + (IF to = "open" /\ on'[p] = a THEN 1 ELSE 0)
                  - (IF pc[p] = "open" /\ on[p] = a THEN 1 ELSE 0)
           /\ Cardinality(At("charge", a))' = Cardinality(At("charge", a))
                  + (IF to = "charge" /\ on'[p] = a THEN 1 ELSE 0)
                  - (IF pc[p] = "charge" /\ on[p] = a THEN 1 ELSE 0)
<1>1. ASSUME NEW place
      PROVE  Cardinality(At(place, a))' = Cardinality(At(place, a))
                 + (IF to = place /\ on'[p] = a THEN 1 ELSE 0)
                 - (IF pc[p] = place /\ on[p] = a THEN 1 ELSE 0)
  <2> DEFINE rest == At(place, a) \ {p}
  <2>1. IsFiniteSet(At(place, a)) /\ Cardinality(At(place, a)) \in Nat
    BY AtFinite
  <2>2. /\ IsFiniteSet(rest)
        /\ Cardinality(rest) = Cardinality(At(place, a)) - (IF p \in At(place, a) THEN 1 ELSE 0)
    BY <2>1, FS_RemoveElement, SMTT(30)
  <2>3. Cardinality(rest \cup {p}) = Cardinality(rest) + 1
    BY <2>2, FS_AddElement
  <2>4. p \in At(place, a) <=> pc[p] = place /\ on[p] = a
    BY DEF At
  <2>5. At(place, a)' = IF to = place /\ on'[p] = a THEN rest \cup {p} ELSE rest
    BY DEF At, CallsOK
  <2> QED BY <2>1, <2>2, <2>3, <2>4, <2>5
<1> QED BY <1>1

LEMMA CountsKnown ==
    ASSUME Unbounded, DialerOK, NEW a \in Adapters
    PROVE  /\ Cardinality(At("open", a)) \in Nat /\ Cardinality(At("charge", a)) \in Nat
           /\ stats[a].errors \in Nat /\ stats[a].active \in Int /\ health[a].fails \in 0..3
<1>1. Cardinality(At("open", a)) \in Nat
  BY AtFinite
<1>2. Cardinality(At("charge", a)) \in Nat
  BY AtFinite
<1>3. stats[a].errors \in Nat /\ stats[a].active \in Int
  BY DEF DialerOK, StatsOK
<1>4. health[a].fails \in 0..3
  BY DEF DialerOK, TypeOK
<1> QED BY <1>1, <1>2, <1>3, <1>4

(* Neither from nor to a place that is accounted for. *)
LEMMA QuietAccounts ==
    ASSUME Unbounded, DialerOK, Accounts, CallsOK', NEW p \in Callers, NEW to, pc' = [pc EXCEPT ![p] = to],
           pc[p] \notin {"open", "charge"}, to \notin {"open", "charge"},
           \A q \in Callers : q # p => on'[q] = on[q], stats' = stats, resets' = resets,
           \A a \in Adapters : health'[a].fails \in Int /\ health'[a].fails <= health[a].fails
    PROVE  Accounts'
<1> SUFFICES ASSUME NEW a \in Adapters
             PROVE  /\ resets' = 0 => /\ stats'[a].active = Cardinality(At("open", a))'
                                      /\ health'[a].fails + Cardinality(At("charge", a))' <= stats'[a].errors
                    /\ stats'[a].active <= Cardinality(At("open", a))'
  BY DEF Accounts
<1>1. CallsOK /\ on' \in [Callers -> Adapters \cup {None}]
  BY DEF DialerOK, CallsOK
<1>2. /\ Cardinality(At("open", a)) \in Nat /\ Cardinality(At("charge", a)) \in Nat
      /\ stats[a].errors \in Nat /\ health[a].fails \in Nat
  BY CountsKnown
<1>3. /\ Cardinality(At("open", a))' = Cardinality(At("open", a))
      /\ Cardinality(At("charge", a))' = Cardinality(At("charge", a))
  <2>1. /\ Cardinality(At("open", a))' = Cardinality(At("open", a))
               + (IF to = "open" /\ on'[p] = a THEN 1 ELSE 0)
               - (IF pc[p] = "open" /\ on[p] = a THEN 1 ELSE 0)
        /\ Cardinality(At("charge", a))' = Cardinality(At("charge", a))
               + (IF to = "charge" /\ on'[p] = a THEN 1 ELSE 0)
               - (IF pc[p] = "charge" /\ on[p] = a THEN 1 ELSE 0)
    BY <1>1, CountsMove, ZenonT(60)
  <2> QED BY <1>2, <2>1
<1> QED BY <1>2, <1>3 DEF Accounts

LEMMA ChargeAccounts ==
    ASSUME Unbounded, DialerOK, Accounts, NEW p \in Callers, Charge(p)
    PROVE  Accounts'
<1> DEFINE to == IF p \in Dials THEN "next" ELSE "failed"
<1>1. /\ pc[p] = "charge" /\ pc' = [pc EXCEPT ![p] = to] /\ UNCHANGED callVars
      /\ RecordDialFailure(on[p]) /\ stats' = stats /\ CallsOK /\ on[p] \in Adapters
  BY DEF Charge, Goto, RecordDialFailure, DialerOK, CallsOK
<1>2. to \notin {"open", "charge"}
  OBVIOUS
<1> HIDE DEF to
<1> SUFFICES ASSUME NEW a \in Adapters
             PROVE  /\ resets' = 0 => /\ stats'[a].active = Cardinality(At("open", a))'
                                      /\ health'[a].fails + Cardinality(At("charge", a))' <= stats'[a].errors
                    /\ stats'[a].active <= Cardinality(At("open", a))'
  BY DEF Accounts
<1>3. /\ Cardinality(At("open", a)) \in Nat /\ Cardinality(At("charge", a)) \in Nat
      /\ stats[a].errors \in Nat /\ health[a].fails \in 0..3
  BY CountsKnown
<1>4. /\ Cardinality(At("open", a))' = Cardinality(At("open", a))
      /\ Cardinality(At("charge", a))' = Cardinality(At("charge", a)) - (IF on[p] = a THEN 1 ELSE 0)
  <2>1. on' = on /\ on' \in [Callers -> Adapters \cup {None}]
    BY <1>1 DEF callVars, CallsOK
  <2>2. /\ Cardinality(At("open", a))' = Cardinality(At("open", a))
               + (IF to = "open" /\ on'[p] = a THEN 1 ELSE 0)
               - (IF pc[p] = "open" /\ on[p] = a THEN 1 ELSE 0)
        /\ Cardinality(At("charge", a))' = Cardinality(At("charge", a))
               + (IF to = "charge" /\ on'[p] = a THEN 1 ELSE 0)
               - (IF pc[p] = "charge" /\ on[p] = a THEN 1 ELSE 0)
    BY <1>1, <2>1, CountsMove
  <2> QED BY <1>1, <1>2, <1>3, <2>1, <2>2
<1>5. /\ a # on[p] => health'[a].fails = health[a].fails
      /\ a = on[p] => health'[a].fails \in Int /\ health'[a].fails <= health[a].fails + 1
  <2>1. health \in [Adapters -> [fails : 0..3, demote : 0..HardTicks]]
    BY DEF DialerOK, TypeOK
  <2> QED BY <1>1, <1>3, <2>1 DEF RecordDialFailure
<1>6. resets' = resets
  BY <1>1 DEF callVars
<1> QED BY <1>1, <1>3, <1>4, <1>5, <1>6 DEF Accounts

LEMMA DialFailsAccounts ==
    ASSUME Unbounded, DialerOK, Accounts, NEW p \in Callers, DialFails(p)
    PROVE  Accounts'
<1>1. /\ pc[p] = "dialing" /\ pc' = [pc EXCEPT ![p] = "charge"] /\ UNCHANGED callVars
      /\ stats' = [stats EXCEPT ![on[p]].errors = @ + 1] /\ health' = health /\ CallsOK /\ on[p] \in Adapters
  BY DEF DialFails, AddError, Goto, OnlyStats, DialerOK, CallsOK
<1> SUFFICES ASSUME NEW a \in Adapters
             PROVE  /\ resets' = 0 => /\ stats'[a].active = Cardinality(At("open", a))'
                                      /\ health'[a].fails + Cardinality(At("charge", a))' <= stats'[a].errors
                    /\ stats'[a].active <= Cardinality(At("open", a))'
  BY DEF Accounts
<1>2. /\ Cardinality(At("open", a)) \in Nat /\ Cardinality(At("charge", a)) \in Nat
      /\ stats[a].errors \in Nat /\ health[a].fails \in 0..3
  BY CountsKnown
<1>3. /\ Cardinality(At("open", a))' = Cardinality(At("open", a))
      /\ Cardinality(At("charge", a))' = Cardinality(At("charge", a)) + (IF on[p] = a THEN 1 ELSE 0)
  <2>1. on' = on /\ on' \in [Callers -> Adapters \cup {None}]
    BY <1>1 DEF callVars, CallsOK
  <2>2. /\ Cardinality(At("open", a))' = Cardinality(At("open", a))
               + (IF "charge" = "open" /\ on'[p] = a THEN 1 ELSE 0)
               - (IF pc[p] = "open" /\ on[p] = a THEN 1 ELSE 0)
        /\ Cardinality(At("charge", a))' = Cardinality(At("charge", a))
               + (IF "charge" = "charge" /\ on'[p] = a THEN 1 ELSE 0)
               - (IF pc[p] = "charge" /\ on[p] = a THEN 1 ELSE 0)
    BY <1>1, <2>1, CountsMove
  <2> QED BY <1>1, <1>2, <2>1, <2>2
<1>4. stats'[a].active = stats[a].active
      /\ stats'[a].errors = stats[a].errors + (IF on[p] = a THEN 1 ELSE 0)
  <2>1. stats \in [Adapters -> [rate : {0}, active : Int, errors : Nat]]
    BY DEF DialerOK, StatsOK
  <2> QED BY <1>1, <2>1
<1>5. resets' = resets
  BY <1>1 DEF callVars
<1> QED BY <1>1, <1>2, <1>3, <1>4, <1>5 DEF Accounts

LEMMA ConnAccounts ==
    ASSUME Unbounded, DialerOK, Accounts, NEW p \in Callers, ConnOpen(p) \/ Close(p)
    PROVE  Accounts'
<1> DEFINE o  == on[p]
           to == IF pc[p] = "open" THEN "idle" ELSE "open"
           n  == IF pc[p] = "open" THEN -1 ELSE 1
<1>1. /\ pc[p] \in {"count", "open"} /\ pc' = [pc EXCEPT ![p] = to]
      /\ stats' = [stats EXCEPT ![o].active = @ + n] /\ health' = health /\ CallsOK /\ o \in Adapters
      /\ resets' = resets
      /\ pc[p] = "count" => on' = on
      /\ pc[p] = "open"  => on' = [on EXCEPT ![p] = None]
  BY DEF ConnOpen, Close, AddActive, Forget, Goto, OnlyStats, DialerOK, CallsOK, callVars
<1>2. n \in Int /\ (pc[p] = "open" => n = -1 /\ to = "idle") /\ (pc[p] = "count" => n = 1 /\ to = "open")
  OBVIOUS
<1> HIDE DEF n, to
<1> SUFFICES ASSUME NEW a \in Adapters
             PROVE  /\ resets' = 0 => /\ stats'[a].active = Cardinality(At("open", a))'
                                      /\ health'[a].fails + Cardinality(At("charge", a))' <= stats'[a].errors
                    /\ stats'[a].active <= Cardinality(At("open", a))'
  BY DEF Accounts
<1>3. /\ Cardinality(At("open", a)) \in Nat /\ Cardinality(At("charge", a)) \in Nat
      /\ stats[a].errors \in Nat /\ stats[a].active \in Int /\ health[a].fails \in 0..3
  BY CountsKnown
<1>4. /\ Cardinality(At("open", a))' = Cardinality(At("open", a)) + (IF o = a THEN n ELSE 0)
      /\ Cardinality(At("charge", a))' = Cardinality(At("charge", a))
  <2>1. on' \in [Callers -> Adapters \cup {None}] /\ (\A q \in Callers : q # p => on'[q] = on[q])
        /\ (pc[p] = "count" => on'[p] = o)
    BY <1>1 DEF CallsOK
  <2>2. /\ Cardinality(At("open", a))' = Cardinality(At("open", a))
               + (IF to = "open" /\ on'[p] = a THEN 1 ELSE 0)
               - (IF pc[p] = "open" /\ on[p] = a THEN 1 ELSE 0)
        /\ Cardinality(At("charge", a))' = Cardinality(At("charge", a))
               + (IF to = "charge" /\ on'[p] = a THEN 1 ELSE 0)
               - (IF pc[p] = "charge" /\ on[p] = a THEN 1 ELSE 0)
    BY <1>1, <2>1, CountsMove
  <2>3. CASE pc[p] = "open"
    BY <1>2, <1>3, <2>2, <2>3
  <2>4. CASE pc[p] = "count"
    BY <1>2, <1>3, <2>1, <2>2, <2>4
  <2> QED BY <1>1, <2>3, <2>4
<1>5. stats'[a].active = stats[a].active + (IF o = a THEN n ELSE 0) /\ stats'[a].errors = stats[a].errors
  <2>1. stats \in [Adapters -> [rate : {0}, active : Int, errors : Nat]]
    BY DEF DialerOK, StatsOK
  <2> QED BY <1>1, <1>2, <2>1
<1> QED BY <1>1, <1>2, <1>3, <1>4, <1>5 DEF Accounts

LEMMA AroundAccounts ==
    ASSUME Unbounded, DialerOK, Accounts, Reset \/ Environment \/ UNCHANGED dialerVars
    PROVE  Accounts'
<1>1. ASSUME NEW place, NEW a PROVE Cardinality(At(place, a))' = Cardinality(At(place, a))
  <2>1. pc' = pc /\ on' = on
    BY DEF Reset, Environment, dialerVars, callVars
  <2> QED BY <2>1 DEF At
<1>2. CASE Reset
  <2>1. resets' # 0
    BY <1>2 DEF Reset, DialerOK, CallsOK
  <2>2. \A a \in Adapters : stats'[a].active = 0
    BY <1>2 DEF Reset, Observe
  <2>3. \A a \in Adapters : Cardinality(At("open", a)) \in Nat
    BY AtFinite
  <2> QED BY <1>1, <2>1, <2>2, <2>3 DEF Accounts
<1>3. CASE Environment \/ UNCHANGED dialerVars
  <2>1. stats' = stats /\ resets' = resets
    BY <1>3 DEF Environment, Tick, SetEntries, SetMode, dialerVars, vars, callVars
  <2>2. \A a \in Adapters : health'[a].fails = health[a].fails
    <3>1. health \in [Adapters -> [fails : 0..3, demote : 0..HardTicks]]
      BY DEF DialerOK, TypeOK
    <3> QED BY <1>3, <3>1 DEF Environment, Tick, SetEntries, SetMode, dialerVars, vars
  <2> QED BY <1>1, <2>1, <2>2 DEF Accounts
<1> QED BY <1>2, <1>3

LEMMA CallerAccounts ==
    ASSUME Unbounded, DialerOK, Accounts, CallsOK', NEW p \in Callers, Locking(p) \/ Running(p) \/ Using(p)
    PROVE  Accounts'
<1>1. CallsOK /\ health \in [Adapters -> [fails : 0..3, demote : 0..HardTicks]]
  BY DEF DialerOK, TypeOK
<1>2. health' = health => \A a \in Adapters : health'[a].fails \in Int /\ health'[a].fails <= health[a].fails
  BY <1>1
<1>3. CASE Choose(p) \/ Compare(p) \/ GiveUp(p)
  <2>1. UNCHANGED <<health, stats, callVars>> /\ pc[p] \in {"next", "picking"}
        /\ pc' \in {[pc EXCEPT ![p] = to] : to \in {"picking", "failed"}}
    <3>1. CASE Choose(p) \/ GiveUp(p)
      BY <3>1 DEF Choose, GiveUp, Goto, StartPick, vars
    <3>2. CASE Compare(p)
      <4>1. TypeOK /\ pc = [pc EXCEPT ![p] = "picking"]
        BY <1>1, <3>2 DEF Compare, DialerOK, CallsOK
      <4> QED BY <3>2, <4>1, PassingKeeps DEF Compare
    <3> QED BY <1>3, <3>1, <3>2
  <2>2. PICK to \in {"picking", "failed"} : pc' = [pc EXCEPT ![p] = to]
    BY <2>1
  <2> QED BY <1>2, <2>1, <2>2, QuietAccounts DEF callVars
<1>4. CASE Chosen(p)
  <2>1. UNCHANGED <<health, stats, resets>> /\ pc[p] = "picking" /\ pc' = [pc EXCEPT ![p] = "dialing"]
        /\ \A q \in Callers : q # p => on'[q] = on[q]
    BY <1>1, <1>4 DEF Chosen, Settle, Goto, CallsOK
  <2> QED BY <1>2, <2>1, QuietAccounts, ZenonT(60)
<1>5. CASE DialSucceeds(p)
  <2>1. UNCHANGED <<stats, callVars>> /\ pc[p] = "dialing" /\ pc' = [pc EXCEPT ![p] = "count"]
        /\ health' = [health EXCEPT ![on[p]] = Healthy]
    BY <1>5 DEF DialSucceeds, RecordDialSuccess, Goto
  <2>2. \A a \in Adapters : health'[a].fails \in Int /\ health'[a].fails <= health[a].fails
    BY <1>1, <2>1 DEF Healthy
  <2> QED BY <2>1, <2>2, QuietAccounts DEF callVars
<1>6. CASE Begin(p) \/ Bypass(p)
  <2>1. UNCHANGED <<health, stats, on, resets>> /\ pc[p] = "idle"
        /\ pc' \in {[pc EXCEPT ![p] = to] : to \in {"next", "direct"}}
    BY <1>6 DEF Begin, Bypass, Goto, vars, callVars
  <2>2. PICK to \in {"next", "direct"} : pc' = [pc EXCEPT ![p] = to]
    BY <2>1
  <2> QED BY <1>2, <2>1, <2>2, QuietAccounts
<1>7. ASSUME NEW a \in Adapters, BeginBoundOn(p, a) PROVE Accounts'
  <2>1. UNCHANGED <<health, stats, resets>> /\ pc[p] = "idle" /\ pc' = [pc EXCEPT ![p] = "dialing"]
        /\ \A q \in Callers : q # p => on'[q] = on[q]
    BY <1>1, <1>7 DEF BeginBoundOn, Goto, vars, CallsOK
  <2> QED BY <1>2, <2>1, QuietAccounts, ZenonT(60)
<1>8. CASE Done(p)
  <2>1. UNCHANGED <<health, stats, resets>> /\ pc[p] \in {"direct", "failed"} /\ pc' = [pc EXCEPT ![p] = "idle"]
        /\ \A q \in Callers : q # p => on'[q] = on[q]
    BY <1>1, <1>8 DEF Done, Forget, Goto, vars, CallsOK
  <2> QED BY <1>2, <2>1, QuietAccounts, ZenonT(60)
<1> QED BY <1>3, <1>4, <1>5, <1>6, <1>7, <1>8, ChargeAccounts, DialFailsAccounts, ConnAccounts
        DEF Locking, Running, Using

LEMMA AccountsKept == ASSUME Unbounded PROVE DialerSpec => [](DialerOK /\ Accounts)
<1>1. DialerInit => DialerOK /\ Accounts
  <2> SUFFICES ASSUME DialerInit PROVE Accounts
    BY DialerInitOK
  <2>1. \A a \in Adapters : At("open", a) = {} /\ At("charge", a) = {}
    BY DEF DialerInit, At
  <2>2. \A a \in Adapters : stats[a].active = 0 /\ stats[a].errors = 0 /\ health[a].fails = 0
    BY DEF DialerInit, Init, Healthy
  <2>3. Cardinality({}) = 0
    BY FS_EmptySet
  <2>4. ASSUME NEW a \in Adapters
        PROVE  Cardinality(At("open", a)) = 0 /\ Cardinality(At("charge", a)) = 0
    BY <2>1, <2>3
  <2> QED BY <2>2, <2>4 DEF Accounts
<1>2. DialerOK /\ Accounts /\ [DialerNext]_dialerVars => DialerOK' /\ Accounts'
  <2> SUFFICES ASSUME DialerOK, Accounts, [DialerNext]_dialerVars PROVE Accounts'
    BY DialerStep
  <2>1. CallsOK'
    BY DialerStep DEF DialerOK
  <2> QED BY <2>1, CallerAccounts, AroundAccounts DEF DialerNext
<1> QED BY <1>1, <1>2, PTL DEF DialerSpec

(* "Active returns current active connections for an adapter"              *)
(* (stats.go:96) : whatever the callers interleave, it does until the      *)
(* statistics are cleared.                                                 *)
THEOREM ActiveIsExact == ASSUME Unbounded PROVE DialerSpec => []ActiveUntilReset
<1>1. DialerOK /\ Accounts => ActiveUntilReset
  BY DEF Accounts, ActiveUntilReset, ActiveIsOpen, Open, At
<1> QED BY <1>1, AccountsKept, PTL

(* With any number of Resets the counter is never too high. *)
THEOREM ActiveNeverTooHigh == ASSUME Unbounded PROVE DialerSpec => []ActiveAtMostOpen
<1>1. DialerOK /\ Accounts => ActiveAtMostOpen
  BY DEF Accounts, ActiveAtMostOpen, Open, At
<1> QED BY <1>1, AccountsKept, PTL

(* Every failure that may demote an adapter is one the user can see.       *)
THEOREM FailuresAreCounted == ASSUME Unbounded PROVE DialerSpec => []ErrorsCoverFails
<1>1. DialerOK /\ Accounts => ErrorsCoverFails
  BY DEF Accounts, ErrorsCoverFails, At
<1> QED BY <1>1, AccountsKept, PTL

-----------------------------------------------------------------------------
(* The failover protocol                                                   *)

(* The selection names an adapter once, as the system does its interfaces. *)
OneEntryEach ==
    \A config \in Configs : \A i, j \in DOMAIN config : config[i].id = config[j].id => i = j

Distinct == \A i, j \in Positions : entries[i].id = entries[j].id => i = j

(* The caller that is in the middle of a pick holds the scheduler's mutex, *)
(* so it is the only one, and the pick excludes what it has tried.         *)
Picking(p) == pc[p] = "picking"
PicksInv ==
    /\ \A p \in Callers : Picking(p) =>
          ~Unlocked /\ pick.exclude = tried[p] /\ Cardinality(tried[p]) < maxTries[p]
    /\ \A p, q \in Callers : Picking(p) /\ Picking(q) => p = q

(* A dial that is over has forgotten its tries, one that has an adapter    *)
(* has tried it, and none exceeds its number of tries.                     *)
TryOK(at, done, max) ==
    /\ at \in {"idle", "direct"} => max = 0 /\ done = {}
    /\ at \in {"dialing", "charge", "count"} => done # {}
    /\ IsFiniteSet(done) /\ Cardinality(done) <= max
TriesInv == \A d \in Dials : TryOK(pc[d], tried[d], maxTries[d])

FailoverInv == DialerOK /\ Distinct /\ PicksInv /\ TriesInv

PhaseAt(at) == IF at = "idle" \/ at = "direct" THEN "idle"
               ELSE IF at = "open"   THEN "connected"
               ELSE IF at = "failed" THEN "failed"
               ELSE "trying"

Phases == [d \in Dials |-> PhaseAt(pc[d])]
Wants  == [d \in Dials |-> maxTries[d]]
Tries  == [d \in Dials |-> tried[d]]
View   == <<Selected, Phases, Wants, Tries>>

Promised == [Promise!Next]_View

LEMMA SameCardinality == \A S : Promise!Cardinality(S) = Cardinality(S)
  BY DEF Promise!Cardinality, Cardinality

LEMMA SameView ==
    Phases = [d \in Dials |-> Phase(d)] /\ Phases' = [d \in Dials |-> Phase(d)]'
  BY DEF Phases, PhaseAt, Phase

(* A caller moves within a phase, or is no dial. *)
LEMMA HiddenMove ==
    ASSUME FailoverInv, NEW p \in Callers, NEW to, pc' = [pc EXCEPT ![p] = to],
           PhaseAt(to) = PhaseAt(pc[p]) \/ p \notin Dials, entries' = entries,
           \A d \in Dials : tried'[d] = tried[d] /\ maxTries'[d] = maxTries[d]
    PROVE  UNCHANGED View
<1>1. Phases' = Phases
  BY DEF Phases, FailoverInv, DialerOK, CallsOK, Callers
<1>2. Selected' = Selected
  BY DEF Selected, Positions
<1>3. Wants' = Wants /\ Tries' = Tries
  BY DEF Wants, Tries
<1> QED BY <1>1, <1>2, <1>3 DEF View

LEMMA PhaseMove ==
    ASSUME FailoverInv, NEW d \in Dials, NEW to, pc' = [pc EXCEPT ![d] = to]
    PROVE  Phases' = [Phases EXCEPT ![d] = PhaseAt(to)]
  BY DEF Phases, FailoverInv, DialerOK, CallsOK, Callers

(* The tries of a dial that moves and of the others. *)
LEMMA TriesMove ==
    ASSUME FailoverInv, NEW p \in Callers, NEW to, pc' = [pc EXCEPT ![p] = to],
           NEW done, tried' = [tried EXCEPT ![p] = done],
           NEW max, maxTries' = [maxTries EXCEPT ![p] = max],
           p \in Dials => TryOK(to, done, max)
    PROVE  TriesInv'
<1> SUFFICES ASSUME NEW d \in Dials PROVE TryOK(pc'[d], tried'[d], maxTries'[d])
  BY DEF TriesInv, TryOK
<1>1. pc \in [Callers -> Places] /\ tried \in [Callers -> SUBSET Adapters]
      /\ maxTries \in [Callers -> Nat] /\ d \in Callers
  BY DEF FailoverInv, DialerOK, CallsOK, Callers
<1>2. CASE d = p
  BY <1>1, <1>2
<1>3. CASE d # p
  BY <1>1, <1>3 DEF FailoverInv, TriesInv
<1> QED BY <1>2, <1>3

LEMMA TriesStay ==
    ASSUME FailoverInv, NEW p \in Callers, NEW to, pc' = [pc EXCEPT ![p] = to],
           UNCHANGED <<tried, maxTries>>, p \in Dials => TryOK(to, tried[p], maxTries[p])
    PROVE  TriesInv'
<1>1. tried' = [tried EXCEPT ![p] = tried[p]] /\ maxTries' = [maxTries EXCEPT ![p] = maxTries[p]]
  BY DEF FailoverInv, DialerOK, CallsOK
<1> QED BY <1>1, TriesMove

(* Nobody begins a pick, and the one in progress goes on. *)
LEMMA PicksStay ==
    ASSUME FailoverInv, NEW p \in Callers, NEW to, pc' = [pc EXCEPT ![p] = to],
           to # "picking", pick' = pick,
           \A q \in Callers : q # p => tried'[q] = tried[q] /\ maxTries'[q] = maxTries[q]
    PROVE  PicksInv'
<1>1. pc \in [Callers -> Places]
  BY DEF FailoverInv, DialerOK, CallsOK
<1>2. ASSUME NEW q \in Callers, Picking(q)' PROVE q # p /\ Picking(q)
  BY <1>1, <1>2 DEF Picking
<1>3. ASSUME NEW q \in Callers, Picking(q)'
      PROVE  (~Unlocked)' /\ pick'.exclude = tried'[q] /\ Cardinality(tried'[q]) < maxTries'[q]
  BY <1>2, <1>3 DEF FailoverInv, PicksInv, Unlocked
<1> QED BY <1>2, <1>3 DEF PicksInv, FailoverInv

LEMMA ChooseFails ==
    ASSUME Unbounded, FailoverInv, NEW p \in Callers, Choose(p)
    PROVE  PicksInv' /\ TriesInv' /\ UNCHANGED View
<1>1. /\ pc[p] = "next" /\ pc' = [pc EXCEPT ![p] = "picking"] /\ UNCHANGED <<tried, maxTries>>
      /\ entries' = entries /\ TriesLeft(p) /\ Unlocked
      /\ pick'.stage = "weigh" /\ pick'.exclude = tried[p]
  <2>1. TypeOK /\ tried[p] \in Excludes /\ StartPick(tried[p])
    BY DEF Choose, FailoverInv, DialerOK, CallsOK, Unbounded
  <2> QED BY <2>1, StartIs DEF Choose, Goto, callVars, StartPick
<1>2. PicksInv'
  <2>1. ~(Unlocked') /\ pick'.exclude = tried'[p] /\ Cardinality(tried'[p]) < maxTries'[p]
    BY <1>1 DEF Unlocked, TriesLeft
  <2>2. ASSUME NEW q \in Callers, Picking(q)' PROVE q = p
    BY <1>1, <2>2 DEF Picking, FailoverInv, PicksInv, DialerOK, CallsOK
  <2> QED BY <2>1, <2>2 DEF PicksInv
<1>3. TriesInv'
  BY <1>1, TriesStay DEF TryOK, FailoverInv, TriesInv
<1>4. UNCHANGED View
  BY <1>1, HiddenMove DEF PhaseAt
<1> QED BY <1>2, <1>3, <1>4

LEMMA CompareFails ==
    ASSUME Unbounded, FailoverInv, NEW p \in Callers, Compare(p)
    PROVE  PicksInv' /\ TriesInv' /\ UNCHANGED View
<1>2. pc \in [Callers -> Places] /\ TypeOK
  BY DEF FailoverInv, DialerOK, CallsOK
<1>1. /\ pc[p] = "picking" /\ pc' = [pc EXCEPT ![p] = "picking"] /\ UNCHANGED <<tried, maxTries>>
      /\ entries' = entries /\ ~Unlocked' /\ pick'.exclude = pick.exclude
  BY <1>2, PassingKeeps DEF Compare, callVars
<1>3. PicksInv'
  <2>1. ~Unlocked /\ pick.exclude = tried[p] /\ Cardinality(tried[p]) < maxTries[p]
    BY <1>1 DEF FailoverInv, PicksInv, Picking
  <2>4. ASSUME NEW q \in Callers, Picking(q)' PROVE Picking(q)
    BY <1>1, <1>2, <2>4 DEF Picking
  <2> QED BY <1>1, <2>1, <2>4 DEF PicksInv, FailoverInv, Picking
<1>4. TriesInv'
  BY <1>1, TriesStay DEF TryOK, FailoverInv, TriesInv
<1>5. UNCHANGED View
  BY <1>1, HiddenMove DEF PhaseAt
<1> QED BY <1>3, <1>4, <1>5

(* A pick settles: the dial tries an adapter that is selected and new.     *)
LEMMA ChosenTries ==
    ASSUME Unbounded, FailoverInv, NEW p \in Callers, Chosen(p)
    PROVE  PicksInv' /\ TriesInv' /\ Promised
<1>0. /\ pc \in [Callers -> Places] /\ tried \in [Callers -> SUBSET Adapters]
      /\ maxTries \in [Callers -> Nat] /\ TypeOK
  BY DEF FailoverInv, DialerOK, CallsOK
<1>10. PICK k \in Positions : Settle(k)
  BY DEF Chosen
<1>11. PICK a \in Adapters : a = entries[pick.best].id /\ pick.best \in NonExcluded(pick.exclude)
                           /\ pick.best # 0 /\ pick' = NoPick
  <2>1. /\ pick.best \in NonExcluded(pick.exclude) /\ pick.best \in Positions
        /\ pick.best # 0 /\ pick' = NoPick
    BY <1>0, <1>10, SettleIs, EntryAt DEF TypeOK, PickOk, PickAmong, Positions
  <2> QED BY <1>0, <2>1, EntryAt
<1> DEFINE done == tried[p] \cup {a}
<1>1. /\ pc[p] = "picking" /\ pc' = [pc EXCEPT ![p] = "dialing"] /\ maxTries' = maxTries
      /\ tried' = [tried EXCEPT ![p] = done] /\ entries' = entries
  BY <1>11, <1>10 DEF Chosen, Goto, Settle
<1>2. /\ pc \in [Callers -> Places] /\ tried \in [Callers -> SUBSET Adapters]
      /\ maxTries \in [Callers -> Nat] /\ TypeOK
  BY <1>0
<1>3. pick.exclude = tried[p] /\ Cardinality(tried[p]) < maxTries[p]
  BY <1>1 DEF FailoverInv, PicksInv, Picking
<1>4. a \in Selected /\ a \notin tried[p]
  BY <1>11, <1>3 DEF NonExcluded, Selected
<1>5. PicksInv'
  <2>1. \A q \in Callers : ~Picking(q)'
    BY <1>1, <1>2 DEF Picking, FailoverInv, PicksInv
  <2> QED BY <2>1 DEF PicksInv
<1>6. p \in Dials => IsFiniteSet(done) /\ Cardinality(done) <= maxTries[p] /\ Cardinality(tried[p]) \in Nat
  <2> SUFFICES ASSUME p \in Dials
               PROVE  IsFiniteSet(done) /\ Cardinality(done) <= maxTries[p] /\ Cardinality(tried[p]) \in Nat
    OBVIOUS
  <2>1. IsFiniteSet(tried[p]) /\ Cardinality(tried[p]) \in Nat
    BY FS_CardinalityType DEF FailoverInv, TriesInv, TryOK
  <2>2. IsFiniteSet(done) /\ Cardinality(done) = Cardinality(tried[p]) + 1
    BY <1>4, <2>1, FS_AddElement
  <2> QED BY <1>2, <1>3, <2>1, <2>2
<1>7. TriesInv'
  <2>1. maxTries' = [maxTries EXCEPT ![p] = maxTries[p]]
    BY <1>1, <1>2
  <2>2. p \in Dials => TryOK("dialing", done, maxTries[p])
    BY <1>6 DEF TryOK
  <2> HIDE DEF done
  <2> QED BY <1>1, <2>1, <2>2, TriesMove
<1>8. CASE p \in Dials
  <2>1. Promise!Try(p, a)
    <3>1. Phases' = Phases
      BY <1>1, <1>2 DEF Phases, PhaseAt, Callers
    <3>2. Phases[p] = "trying"
      BY <1>1, <1>8 DEF Phases, PhaseAt
    <3>3. Tries' = [Tries EXCEPT ![p] = @ \cup {a}] /\ Wants' = Wants
      BY <1>1, <1>2, <1>8 DEF Tries, Wants, Callers
    <3>4. Selected' = Selected
      BY <1>1 DEF Selected, Positions
    <3>5. a \in Selected \ Tries[p] /\ Cardinality(Tries[p]) < Wants[p]
      BY <1>3, <1>4, <1>8 DEF Tries, Wants
    <3> QED BY <3>1, <3>2, <3>3, <3>4, <3>5, SameView, SameCardinality DEF Promise!Try, Tries, Wants
  <2>2. Promise!Next
    BY <1>4, <1>8, <2>1 DEF Promise!Next, Promise!Move
  <2> QED BY <1>5, <1>7, <2>2 DEF Promised
<1>9. CASE p \notin Dials
  <2>1. \A d \in Dials : tried'[d] = tried[d] /\ maxTries'[d] = maxTries[d]
    BY <1>1, <1>2, <1>9 DEF Callers
  <2>2. UNCHANGED View
    BY <1>1, <1>9, <2>1, HiddenMove
  <2> QED BY <1>5, <1>7, <2>2 DEF Promised
<1> QED BY <1>8, <1>9

LEMMA DialingStep ==
    ASSUME Unbounded, FailoverInv, NEW p \in Callers, DialFails(p) \/ Charge(p) \/ DialSucceeds(p)
    PROVE  PicksInv' /\ TriesInv' /\ UNCHANGED View
<1>1. /\ UNCHANGED <<tried, maxTries, entries, pick>> /\ pc[p] \in {"dialing", "charge"}
      /\ pc' \in {[pc EXCEPT ![p] = to] : to \in {"charge", "count", IF p \in Dials THEN "next" ELSE "failed"}}
  BY DEF DialFails, Charge, DialSucceeds, Goto, callVars, OnlyStats, RecordDialFailure, RecordDialSuccess
<1>2. PICK to \in {"charge", "count", IF p \in Dials THEN "next" ELSE "failed"} : pc' = [pc EXCEPT ![p] = to]
  BY <1>1
<1>3. /\ to \notin {"picking", "idle", "direct", "open"}
      /\ PhaseAt(to) = PhaseAt(pc[p]) \/ p \notin Dials
  BY <1>1 DEF PhaseAt
<1>4. PicksInv'
  BY <1>1, <1>2, <1>3, PicksStay
<1>5. p \in Dials => TryOK(to, tried[p], maxTries[p])
  BY <1>1, <1>3 DEF FailoverInv, TriesInv, TryOK
<1>6. TriesInv'
  BY <1>1, <1>2, <1>5, TriesStay
<1>7. UNCHANGED View
  BY <1>1, <1>2, <1>3, HiddenMove
<1> QED BY <1>4, <1>6, <1>7

LEMMA ConnOpenConnects ==
    ASSUME Unbounded, FailoverInv, NEW p \in Callers, ConnOpen(p)
    PROVE  PicksInv' /\ TriesInv' /\ Promised
<1>1. /\ UNCHANGED <<tried, maxTries, entries, pick>> /\ pc[p] = "count"
      /\ pc' = [pc EXCEPT ![p] = "open"]
  BY DEF ConnOpen, Goto, callVars, OnlyStats
<1>2. PicksInv'
  BY <1>1, PicksStay
<1>3. p \in Dials => TryOK("open", tried[p], maxTries[p]) /\ tried[p] # {}
  BY <1>1 DEF FailoverInv, TriesInv, TryOK
<1>4. TriesInv'
  BY <1>1, <1>3, TriesStay
<1>5. CASE p \in Dials
  <2>1. Phases' = [Phases EXCEPT ![p] = "connected"] /\ Phases[p] = "trying"
    <3>1. PhaseAt("open") = "connected" /\ PhaseAt(pc[p]) = "trying"
      BY <1>1 DEF PhaseAt
    <3> QED BY <1>1, <1>5, <3>1, PhaseMove DEF Phases
  <2>2. UNCHANGED <<Selected, Wants, Tries>> /\ Tries[p] # {}
    BY <1>1, <1>3, <1>5 DEF Selected, Positions, Wants, Tries
  <2>3. Promise!Connect(p)
    BY <2>1, <2>2, SameView DEF Promise!Connect, Wants, Tries
  <2> QED BY <1>2, <1>4, <1>5, <2>3 DEF Promised, Promise!Next, Promise!Move
<1>6. CASE p \notin Dials
  <2>1. UNCHANGED View
    BY <1>1, <1>6, HiddenMove
  <2> QED BY <1>2, <1>4, <2>1 DEF Promised
<1> QED BY <1>5, <1>6

(* A dial gives up when its tries are used up or nothing is left to try.   *)
LEMMA GiveUpFails ==
    ASSUME Unbounded, FailoverInv, NEW p \in Callers, GiveUp(p)
    PROVE  PicksInv' /\ TriesInv' /\ Promised
<1>1. /\ UNCHANGED <<tried, maxTries, entries, pick>> /\ pc[p] = "next"
      /\ pc' = [pc EXCEPT ![p] = "failed"]
      /\ ~TriesLeft(p) \/ NoAdapters(tried[p])
  BY DEF GiveUp, Goto, callVars, vars
<1>2. PicksInv'
  BY <1>1, PicksStay
<1>3. p \in Dials => TryOK("failed", tried[p], maxTries[p])
  BY <1>1 DEF FailoverInv, TriesInv, TryOK
<1>4. TriesInv'
  BY <1>1, <1>3, TriesStay
<1>5. CASE p \in Dials
  <2>1. Phases' = [Phases EXCEPT ![p] = "failed"] /\ Phases[p] = "trying"
    <3>1. PhaseAt("failed") = "failed" /\ PhaseAt(pc[p]) = "trying"
      BY <1>1 DEF PhaseAt
    <3> QED BY <1>1, <1>5, <3>1, PhaseMove DEF Phases
  <2>2. UNCHANGED <<Selected, Wants, Tries>>
    BY <1>1 DEF Selected, Positions, Wants, Tries
  <2>3. Cardinality(Tries[p]) = Wants[p] \/ Selected \subseteq Tries[p]
    <3>1. CASE ~TriesLeft(p)
      <4>1. Cardinality(tried[p]) \in Nat /\ maxTries[p] \in Nat
        BY <1>3, <1>5, FS_CardinalityType DEF TryOK, FailoverInv, DialerOK, CallsOK
      <4> QED BY <1>3, <1>5, <3>1, <4>1 DEF TriesLeft, TryOK, Tries, Wants
    <3>2. CASE NoAdapters(tried[p])
      BY <1>5, <3>2 DEF NoAdapters, NonExcluded, Selected, Tries
    <3> QED BY <1>1, <3>1, <3>2
  <2>4. Promise!GiveUp(p)
    BY <2>1, <2>2, <2>3, SameView, SameCardinality DEF Promise!GiveUp, Wants, Tries
  <2> QED BY <1>2, <1>4, <1>5, <2>4 DEF Promised, Promise!Next, Promise!Move
<1>6. CASE p \notin Dials
  <2>1. UNCHANGED View
    BY <1>1, <1>6, HiddenMove
  <2> QED BY <1>2, <1>4, <2>1 DEF Promised
<1> QED BY <1>5, <1>6

(* As many tries as adapters are selected. *)
LEMMA SelectedCount ==
    ASSUME FailoverInv PROVE Cardinality(Selected) = Len(entries) /\ (Selected = {} <=> Len(entries) = 0)
<1> DEFINE f == [i \in Positions |-> entries[i].id]
<1>1. Len(entries) \in Nat
  BY EntryAt DEF FailoverInv, DialerOK
<1>2. f \in Bijection(1..Len(entries), Selected)
  BY DEF Bijection, Injection, Surjection, IsInjective, Selected, Positions, FailoverInv, Distinct
<1>3. ExistsBijection(1..Len(entries), Selected)
  BY <1>2 DEF ExistsBijection
<1>4. Cardinality(Selected) = Len(entries)
  <2>1. /\ IsFiniteSet(1..Len(entries))
        /\ Cardinality(1..Len(entries)) = IF 1 > Len(entries) THEN 0 ELSE Len(entries) - 1 + 1
    <3>1. 1 \in Int /\ Len(entries) \in Int
      BY <1>1
    <3> HIDE DEF f
    <3> QED BY ONLY <3>1, FS_Interval
  <2>2. (IF 1 > Len(entries) THEN 0 ELSE Len(entries) - 1 + 1) = Len(entries)
    BY ONLY <1>1
  <2>3. IsFiniteSet(1..Len(entries)) /\ Cardinality(1..Len(entries)) = Len(entries)
    BY <2>1, <2>2
  <2> QED BY <1>3, <2>3, FS_Bijection
<1>5. Selected = {} <=> Len(entries) = 0
  <2>1. IsFiniteSet(Selected)
    BY <1>1, <1>3, FS_Interval, FS_Bijection
  <2> QED BY <1>4, <2>1, FS_EmptySet
<1> QED BY <1>4, <1>5

LEMMA BeginTries ==
    ASSUME Unbounded, FailoverInv, NEW p \in Callers, Begin(p)
    PROVE  PicksInv' /\ TriesInv' /\ Promised
<1> DEFINE n == AtLeastOne(Len(entries))
<1>1. /\ UNCHANGED <<entries, pick>> /\ pc[p] = "idle" /\ p \in Dials
      /\ pc' = [pc EXCEPT ![p] = "next"] /\ tried' = [tried EXCEPT ![p] = {}]
      /\ maxTries' = [maxTries EXCEPT ![p] = n]
  BY DEF Begin, Goto, vars
<1>2. n \in Nat /\ n = IF Selected = {} THEN 1 ELSE Cardinality(Selected)
  BY SelectedCount, EntryAt DEF AtLeastOne, FailoverInv, DialerOK
<1>3. /\ pc \in [Callers -> Places] /\ tried \in [Callers -> SUBSET Adapters]
      /\ maxTries \in [Callers -> Nat]
  BY DEF FailoverInv, DialerOK, CallsOK
<1> HIDE DEF n
<1>4. PicksInv'
  BY <1>1, <1>3, PicksStay
<1>5. TryOK("next", {}, n)
  BY <1>2, FS_EmptySet DEF TryOK
<1>6. TriesInv'
  BY <1>1, <1>5, TriesMove
<1>7. Promise!Begin(p)
  <2>1. Phases' = [Phases EXCEPT ![p] = "trying"] /\ Phases[p] = "idle"
    <3>1. PhaseAt("next") = "trying" /\ PhaseAt(pc[p]) = "idle"
      BY <1>1 DEF PhaseAt
    <3> QED BY <1>1, <3>1, PhaseMove DEF Phases
  <2>2. Selected' = Selected
    BY <1>1 DEF Selected, Positions
  <2>3. Wants' = [Wants EXCEPT ![p] = n] /\ Tries' = [Tries EXCEPT ![p] = {}]
    BY <1>1, <1>3 DEF Wants, Tries, Callers
  <2> QED BY <1>2, <2>1, <2>2, <2>3, SameView, SameCardinality DEF Promise!Begin, Wants, Tries
<1> QED BY <1>1, <1>4, <1>6, <1>7 DEF Promised, Promise!Next

(* The other ways to start a call are none of the protocol's. *)
LEMMA OtherStart ==
    ASSUME Unbounded, FailoverInv, NEW p \in Callers, Bypass(p) \/ \E a \in Adapters : BeginBoundOn(p, a)
    PROVE  PicksInv' /\ TriesInv' /\ UNCHANGED View
<1>1. /\ UNCHANGED <<tried, maxTries, entries, pick>> /\ pc[p] = "idle"
      /\ \/ pc' = [pc EXCEPT ![p] = "direct"]
         \/ pc' = [pc EXCEPT ![p] = "dialing"] /\ p \notin Dials
  BY DEF Bypass, BeginBoundOn, Goto, callVars, vars
<1>2. PICK to \in {"direct", "dialing"} :
          /\ pc' = [pc EXCEPT ![p] = to]
          /\ to = "direct" \/ p \notin Dials
  BY <1>1
<1>3. PicksInv'
  BY <1>1, <1>2, PicksStay
<1>4. p \in Dials => TryOK(to, tried[p], maxTries[p])
  BY <1>1, <1>2 DEF FailoverInv, TriesInv, TryOK
<1>5. TriesInv'
  BY <1>1, <1>2, <1>4, TriesStay
<1>6. UNCHANGED View
  BY <1>1, <1>2, HiddenMove DEF PhaseAt
<1> QED BY <1>3, <1>5, <1>6

LEMMA OverStep ==
    ASSUME Unbounded, FailoverInv, NEW p \in Callers, Close(p) \/ Done(p)
    PROVE  PicksInv' /\ TriesInv' /\ Promised
<1>1. /\ UNCHANGED <<entries, pick>> /\ pc[p] \in {"open", "direct", "failed"}
      /\ pc' = [pc EXCEPT ![p] = "idle"] /\ tried' = [tried EXCEPT ![p] = {}]
      /\ maxTries' = [maxTries EXCEPT ![p] = 0]
  BY DEF Close, Done, Goto, Forget, OnlyStats, vars
<1>2. /\ pc \in [Callers -> Places] /\ tried \in [Callers -> SUBSET Adapters]
      /\ maxTries \in [Callers -> Nat]
  BY DEF FailoverInv, DialerOK, CallsOK
<1>3. PicksInv'
  BY <1>1, <1>2, PicksStay
<1>4. TryOK("idle", {}, 0)
  BY FS_EmptySet DEF TryOK
<1>5. TriesInv'
  BY <1>1, <1>4, TriesMove
<1>6. CASE p \in Dials /\ pc[p] # "direct"
  <2>1. Phases' = [Phases EXCEPT ![p] = "idle"] /\ Phases[p] \in {"connected", "failed"}
    <3>1. PhaseAt("idle") = "idle" /\ PhaseAt(pc[p]) \in {"connected", "failed"}
      BY <1>1, <1>6 DEF PhaseAt
    <3> QED BY <1>1, <1>6, <3>1, PhaseMove DEF Phases
  <2>2. Selected' = Selected
    BY <1>1 DEF Selected, Positions
  <2>3. Wants' = [Wants EXCEPT ![p] = 0] /\ Tries' = [Tries EXCEPT ![p] = {}]
    BY <1>1, <1>2, <1>6 DEF Wants, Tries, Callers
  <2>4. Promise!Finish(p)
    BY <2>1, <2>2, <2>3, SameView DEF Promise!Finish, Wants, Tries
  <2> QED BY <1>3, <1>5, <1>6, <2>4 DEF Promised, Promise!Next
<1>7. CASE p \notin Dials \/ pc[p] = "direct"
  <2>1. \A d \in Dials : tried'[d] = tried[d] /\ maxTries'[d] = maxTries[d]
    BY <1>1, <1>2, <1>7 DEF Callers, FailoverInv, TriesInv, TryOK
  <2>2. UNCHANGED View
    BY <1>1, <1>7, <2>1, HiddenMove DEF PhaseAt
  <2> QED BY <1>3, <1>5, <2>2 DEF Promised
<1> QED BY <1>6, <1>7

(* The selection names an adapter once, also after the entries without an  *)
(* IPv4 address are left out.                                              *)
LEMMA KeptDistinct ==
    ASSUME OneEntryEach, NEW config \in Configs, SetEntries(config) PROVE Distinct'
<1> DEFINE step == [i \in 1..Len(config) |-> [acc \in Seq(Entry) |->
               IF config[i].ipv4
               THEN Append(acc, [id |-> config[i].id, weight |-> AtLeastOne(config[i].weight)])
               ELSE acc]]
           P == [k \in Nat |-> {acc \in Seq(Entry) :
                    /\ \A i, j \in 1..Len(acc) : acc[i].id = acc[j].id => i = j
                    /\ \A i \in 1..Len(acc) : \E m \in 1..k : acc[i].id = config[m].id}]
<1>0. config \in Seq(ConfigEntry) /\ Len(config) \in Nat
  BY SchedulerAssumption
<1>1. <<>> \in P[0]
  OBVIOUS
<1>2. \A k \in 1..Len(config) : \A acc \in P[k-1] : step[k][acc] \in P[k]
  <2> TAKE k \in 1..Len(config)
  <2> TAKE acc \in P[k-1]
  <2> DEFINE e == [id |-> config[k].id, weight |-> AtLeastOne(config[k].weight)]
  <2>1. /\ k \in Nat /\ k - 1 \in Nat /\ acc \in Seq(Entry) /\ Len(acc) \in Nat
        /\ \A i, j \in 1..Len(acc) : acc[i].id = acc[j].id => i = j
        /\ \A i \in 1..Len(acc) : \E m \in 1..(k-1) : acc[i].id = config[m].id
    BY <1>0
  <2>2. config[k] \in ConfigEntry
    BY <1>0, ElementOf
  <2>3. e \in Entry /\ e.id = config[k].id
    BY <2>2 DEF ConfigEntry, Entry, AtLeastOne
  <2>4. \A i \in 1..Len(acc) : acc[i].id # e.id
    <3> TAKE i \in 1..Len(acc)
    <3>1. PICK m \in 1..(k-1) : acc[i].id = config[m].id
      BY <2>1
    <3>2. m \in DOMAIN config /\ k \in DOMAIN config /\ m # k
      BY <1>0, <2>1
    <3> QED BY <2>3, <3>1, <3>2 DEF OneEntryEach
  <2> HIDE DEF e
  <2>5. /\ Append(acc, e) \in Seq(Entry) /\ Len(Append(acc, e)) = Len(acc) + 1
        /\ \A i \in 1..Len(acc) : Append(acc, e)[i] = acc[i]
        /\ Append(acc, e)[Len(acc) + 1] = e
    BY <2>1, <2>3
  <2>6. Append(acc, e) \in P[k]
    <3> DEFINE new == Append(acc, e)
    <3> HIDE DEF new
    <3>1. ASSUME NEW i \in 1..Len(new), NEW j \in 1..Len(new), new[i].id = new[j].id
          PROVE  i = j
      BY <2>1, <2>4, <2>5, <3>1 DEF new
    <3>2. ASSUME NEW i \in 1..Len(new) PROVE \E m \in 1..k : new[i].id = config[m].id
      <4>1. CASE i = Len(acc) + 1
        BY <2>1, <2>3, <2>5, <4>1 DEF new
      <4>2. CASE i # Len(acc) + 1
        <5>1. i \in 1..Len(acc) /\ new[i] = acc[i]
          BY <2>1, <2>5, <4>2 DEF new
        <5> QED BY <2>1, <5>1
      <4> QED BY <4>1, <4>2
    <3> QED BY <2>1, <2>5, <3>1, <3>2 DEF new
  <2>7. acc \in P[k]
    BY <2>1
  <2>8. step[k][acc] = IF config[k].ipv4 THEN Append(acc, e) ELSE acc
    BY <2>1 DEF e
  <2> HIDE DEF step, P
  <2> QED BY <2>6, <2>7, <2>8
<1> HIDE DEF step, P
<1>3. Loop(Len(config), <<>>, step) \in P[Len(config)]
  BY <1>0, <1>1, <1>2, LoopInvariant
<1>4. entries' = Loop(Len(config), <<>>, step)
  BY DEF SetEntries, step
<1>5. \A i, j \in 1..Len(entries') : entries'[i].id = entries'[j].id => i = j
  BY <1>0, <1>3, <1>4 DEF P
<1> QED BY <1>5 DEF Distinct, Positions

(* The rest of the program changes the selection or nothing of the dials.  *)
LEMMA AroundFailover ==
    ASSUME Unbounded, OneEntryEach, FailoverInv, Reset \/ Environment \/ UNCHANGED dialerVars
    PROVE  Distinct' /\ PicksInv' /\ TriesInv' /\ Promised
<1>1. UNCHANGED <<pc, tried, maxTries>>
  BY DEF Reset, Environment, dialerVars, callVars
<1>2. TriesInv'
  BY <1>1 DEF FailoverInv, TriesInv
<1>3. PicksInv'
  <2>1. pick' = pick
    BY DEF Reset, Environment, dialerVars, vars, Observe, Tick, SetEntries, SetMode
  <2> QED BY <1>1, <2>1 DEF FailoverInv, PicksInv, Picking, Unlocked
<1>4. UNCHANGED <<Phases, Wants, Tries>>
  BY <1>1 DEF Phases, Wants, Tries
<1>5. ASSUME NEW config \in Configs, SetEntries(config) PROVE Distinct' /\ Promised
  <2>1. TypeOK'
    BY <1>5, SetEntriesType DEF FailoverInv, DialerOK
  <2>2. Selected' \in SUBSET Adapters
    <3>1. entries' \in Seq(Entry)
      BY <2>1 DEF TypeOK
    <3>2. \A i \in 1..Len(entries') : entries'[i] \in Entry
      BY <3>1, ElementOf
    <3>3. \A i \in 1..Len(entries') : entries'[i].id \in Adapters
      BY <3>2 DEF Entry
    <3> QED BY <3>3 DEF Selected, Positions
  <2>3. Promise!Reselect
    BY <1>4, <2>2, SameView DEF Promise!Reselect, Wants, Tries
  <2> QED BY <1>5, <2>3, KeptDistinct DEF Promised, Promise!Next
<1>6. ASSUME entries' = entries PROVE Distinct' /\ Promised
  <2>1. UNCHANGED View
    BY <1>4, <1>6 DEF View, Selected, Positions
  <2> QED BY <1>6, <2>1 DEF FailoverInv, Distinct, Positions, Promised
<1> QED BY <1>2, <1>3, <1>5, <1>6 DEF Reset, Environment, dialerVars, vars, Observe, Tick, SetMode

LEMMA FailoverStep ==
    ASSUME Unbounded, OneEntryEach, FailoverInv, [DialerNext]_dialerVars
    PROVE  FailoverInv' /\ Promised
<1>1. DialerOK'
  BY DialerStep DEF FailoverInv
<1>2. ASSUME NEW p \in Callers, Locking(p) \/ Running(p) \/ Using(p)
      PROVE  Distinct' /\ PicksInv' /\ TriesInv' /\ Promised
  <2>1. entries' = entries
    BY <1>2 DEF Locking, Running, Using, Choose, GiveUp, Charge, DialSucceeds, Compare, Chosen, DialFails,
                ConnOpen, Begin, Bypass, Close, Done, BeginBoundOn, vars, StartPick, Passing, SkipEntry,
                WeighEntry, ScanEntry, PayEntry, Settle, RecordDialFailure, RecordDialSuccess, OnlyStats
  <2>2. Distinct'
    BY <2>1 DEF FailoverInv, Distinct, Positions
  <2>3. PicksInv' /\ TriesInv' /\ Promised
    BY <1>2, ChooseFails, CompareFails, ChosenTries, DialingStep, ConnOpenConnects, GiveUpFails,
       BeginTries, OtherStart, OverStep DEF Locking, Running, Using, Promised
  <2> QED BY <2>2, <2>3, SMTT(30)
<1>3. Distinct' /\ PicksInv' /\ TriesInv' /\ Promised
  BY <1>2, AroundFailover DEF DialerNext
<1> QED BY <1>1, <1>3 DEF FailoverInv

(* DialContext keeps its promise (Failover), whatever the callers, the     *)
(* health, the selection and the registry do meanwhile: no adapter is      *)
(* tried twice, only selected ones are tried, a connection comes from a    *)
(* try, and an error only after as many tries as there were adapters, or   *)
(* when all that are selected have been tried.                             *)
THEOREM DialsFailOver == ASSUME Unbounded, OneEntryEach PROVE DialerSpec => FailsOverSafely
<1>1. DialerInit => FailoverInv /\ Promise!Init
  <2> SUFFICES ASSUME DialerInit PROVE FailoverInv /\ Promise!Init
    OBVIOUS
  <2>1. DialerOK
    BY DialerInitOK
  <2>2. Distinct /\ Selected = {}
    BY DEF DialerInit, Init, Distinct, Positions, Selected
  <2>3. PicksInv /\ TriesInv
    BY FS_EmptySet DEF DialerInit, PicksInv, Picking, TriesInv, TryOK, Callers
  <2>4. Promise!Init
    BY <2>2 DEF DialerInit, Promise!Init, Phase, Callers
  <2> QED BY <2>1, <2>2, <2>3, <2>4 DEF FailoverInv
<1>2. FailoverInv /\ [DialerNext]_dialerVars => FailoverInv' /\ [Promise!Next]_(Promise!vars)
  <2>1. [Promise!Next]_View = [Promise!Next]_(Promise!vars)
    BY SameView DEF View, Promise!vars, Wants, Tries
  <2> QED BY <2>1, FailoverStep DEF Promised
<1> QED BY <1>1, <1>2, PTL DEF DialerSpec, FailsOverSafely, Promise!Safety

=============================================================================
