------------------------------- MODULE Dialer -------------------------------
(***************************************************************************)
(* The dialer of LinkPool (internal/proxy/dialer.go) with the scheduler it *)
(* asks and the statistics it keeps.                                       *)
(*                                                                         *)
(* Several goroutines dial at once: a proxy handler calls DialContext,     *)
(* which fails over from adapter to adapter; a part of a download calls    *)
(* DialBoundOn for one adapter.  Every call into the scheduler takes its   *)
(* mutex, every call into the registry is a step of its own, and the dial  *)
(* itself takes place outside all locks.  The caller holds the connection  *)
(* until it closes it.                                                     *)
(*                                                                         *)
(* The rates of the registry stay where they are; its active and errors    *)
(* counters are driven by the dialer.                                      *)
(***************************************************************************)
EXTENDS Scheduler

CONSTANTS
    Dials,        \* callers of DialContext
    Parts,        \* callers of DialBoundOn
    None,         \* no adapter
    MaxResets,    \* bound: times the user clears the statistics
    MaxErrors     \* bound: failures the registry counts for one adapter

Callers == Dials \cup Parts

ASSUME DialerAssumption ==
    /\ Dials \cap Parts = {}
    /\ None \notin Adapters
    /\ MaxResets \in Nat
    /\ MaxErrors \in Nat

VARIABLES
    pc,           \* where each caller is
    on,           \* the adapter it dials or is connected on
    maxTries,     \* the number of adapters DialContext may try
    tried,        \* the adapters it has tried
    resets        \* how often the statistics have been cleared

callVars   == <<on, maxTries, tried, resets>>
dialerVars == <<vars, pc, callVars>>

Goto(p, from, to) == pc[p] = from /\ pc' = [pc EXCEPT ![p] = to]

(* The call and the connection it returned are over, and its locals gone. *)
Forget(p) ==
    /\ on'       = [on EXCEPT ![p] = None]
    /\ maxTries' = [maxTries EXCEPT ![p] = 0]
    /\ tried'    = [tried EXCEPT ![p] = {}]
    /\ UNCHANGED resets

(* The steps of one caller, in the order of the code. *)

(* DialContext reads how many adapters there are to try. *)
Begin(p) ==
    /\ p \in Dials /\ Unlocked
    /\ Goto(p, "idle", "next")
    /\ maxTries' = [maxTries EXCEPT ![p] = AtLeastOne(Len(entries))]
    /\ tried' = [tried EXCEPT ![p] = {}]
    /\ UNCHANGED <<vars, on, resets>>

(* A bypassed host is dialled without the scheduler and not counted. *)
Bypass(p) ==
    /\ p \in Dials
    /\ Goto(p, "idle", "direct")
    /\ UNCHANGED <<vars, callVars>>

(* DialBoundOn starts with the adapter it is given. *)
BeginBoundOn(p, a) ==
    /\ p \in Parts
    /\ Goto(p, "idle", "dialing")
    /\ on' = [on EXCEPT ![p] = a]
    /\ UNCHANGED <<vars, maxTries, tried, resets>>

TriesLeftForgetful(p) == Cardinality(tried[p]) + 1 < maxTries[p]
TriesLeft(p) == Cardinality(tried[p]) < maxTries[p]

(* NextExcluding(tried), under the scheduler's mutex. *)
Choose(p) ==
    /\ TriesLeft(p)
    /\ Goto(p, "next", "picking")
    /\ StartPick(tried[p])
    /\ UNCHANGED callVars

Compare(p) ==
    /\ pc[p] = "picking"
    /\ Passing
    /\ UNCHANGED <<pc, callVars>>

ChosenUnnamed(p) ==
    /\ Goto(p, "picking", "dialing")
    /\ \E i \in Positions : Settle(i)
    /\ tried' = [tried EXCEPT ![p] = @ \cup {entries[pick.best].id}]
    /\ UNCHANGED <<on, maxTries, resets>>

Chosen(p) ==
    /\ Goto(p, "picking", "dialing")
    /\ \E i \in Positions : Settle(i)
    /\ on' = [on EXCEPT ![p] = entries[pick.best].id]
    /\ tried' = [tried EXCEPT ![p] = @ \cup {entries[pick.best].id}]
    /\ UNCHANGED <<maxTries, resets>>

(* The loop ends without a connection. *)
GiveUp(p) ==
    /\ ~TriesLeft(p) \/ (Unlocked /\ NoAdapters(tried[p]))
    /\ Goto(p, "next", "failed")
    /\ UNCHANGED <<vars, callVars>>

(* Stats.AddError and Stats.ConnOpen, Stats.ConnClose *)
AddNoError(a) == UNCHANGED stats
AddError(a) == stats' = [stats EXCEPT ![a].errors = @ + 1]
AddActiveOnce(a, n) == stats' = [stats EXCEPT ![a].active = IF n > 0 THEN 1 ELSE @ + n]
AddActiveUnsigned(a, n) == stats' = [stats EXCEPT ![a].active = @ + n * n]
AddActive(a, n) == stats' = [stats EXCEPT ![a].active = @ + n]

OnlyStats == UNCHANGED <<entries, current, mode, health, pick>>

(* dialBound fails, times out or is cancelled: the adapter is charged. *)
DialFails(p) ==
    /\ on[p] \in Failing /\ stats[on[p]].errors < MaxErrors
    /\ Goto(p, "dialing", "charge")
    /\ AddError(on[p]) /\ OnlyStats
    /\ UNCHANGED callVars

Charge(p) ==
    /\ Goto(p, "charge", IF p \in Dials THEN "next" ELSE "failed")
    /\ RecordDialFailure(on[p])
    /\ UNCHANGED callVars

DialSucceeds(p) ==
    /\ Goto(p, "dialing", "count")
    /\ RecordDialSuccess(on[p])
    /\ UNCHANGED callVars

ConnOpen(p) ==
    /\ Goto(p, "count", "open")
    /\ AddActive(on[p], 1) /\ OnlyStats
    /\ UNCHANGED callVars

Close(p) ==
    /\ Goto(p, "open", "idle")
    /\ AddActive(on[p], -1) /\ OnlyStats
    /\ Forget(p)

(* The caller drops a bypassed connection or an error. *)
Done(p) ==
    /\ pc[p] \in {"direct", "failed"}
    /\ Goto(p, pc[p], "idle")
    /\ Forget(p)
    /\ UNCHANGED vars

-----------------------------------------------------------------------------
(* The user changes the selection or clears the statistics; time passes.   *)

Reset ==
    /\ resets < MaxResets
    /\ resets' = resets + 1
    /\ Observe([a \in Adapters |-> [rate |-> 0, active |-> 0, errors |-> 0]])
    /\ UNCHANGED <<pc, on, maxTries, tried>>

Environment ==
    /\ Tick \/ (\E config \in Configs : SetEntries(config)) \/ (\E m \in ModeArgs : SetMode(m))
    /\ UNCHANGED <<pc, callVars>>

DialerInit ==
    /\ Init
    /\ pc       = [p \in Callers |-> "idle"]
    /\ on       = [p \in Callers |-> None]
    /\ maxTries = [p \in Callers |-> 0]
    /\ tried    = [p \in Callers |-> {}]
    /\ resets   = 0

(* Steps that wait for the scheduler's mutex, and the others. *)
Locking(p) == Choose(p) \/ GiveUp(p) \/ Charge(p) \/ DialSucceeds(p)
Running(p) == Compare(p) \/ Chosen(p) \/ DialFails(p) \/ ConnOpen(p)
Using(p)   == Begin(p) \/ Bypass(p) \/ Close(p) \/ Done(p) \/ \E a \in Adapters : BeginBoundOn(p, a)

DialerNext ==
    \/ \E p \in Callers : Locking(p) \/ Running(p) \/ Using(p)
    \/ Reset
    \/ Environment

DialerSpec == DialerInit /\ [][DialerNext]_dialerVars

(* A Go mutex hands itself to the longest waiter, so a caller that keeps   *)
(* asking for it gets it; a dial ends by its timeout at the latest.        *)
FairDialerSpec ==
    DialerSpec /\ \A p \in Callers : SF_dialerVars(Locking(p)) /\ WF_dialerVars(Running(p))
-----------------------------------------------------------------------------
(* Properties                                                              *)

DialerTypeOK ==
    /\ TypeOK
    /\ pc \in [Callers -> {"idle", "direct", "next", "picking", "dialing",
                           "charge", "count", "open", "failed"}]
    /\ on \in [Callers -> Adapters \cup {None}]
    /\ maxTries \in [Callers -> Nat]
    /\ tried \in [Callers -> SUBSET Adapters]
    /\ resets \in 0..MaxResets
    /\ \A p \in Callers : on[p] = None => pc[p] \notin {"dialing", "charge", "count", "open"}

Open(a) == {p \in Callers : pc[p] = "open" /\ on[p] = a}

(* "Active returns current active connections for an adapter": whatever    *)
(* callers interleave, the counter the scheduler's weights and tie-break   *)
(* read is the number of tracked connections that are open.                *)
ActiveIsOpen == \A a \in Adapters : stats[a].active = Cardinality(Open(a))

(* That is so as long as nobody clears the statistics, and after that the  *)
(* counter can only be too low: no adapter looks busier than it is.        *)
ActiveUntilReset == resets = 0 => ActiveIsOpen
ActiveAtMostOpen == \A a \in Adapters : stats[a].active <= Cardinality(Open(a))

(* Until then the scheduler knows of no more consecutive failures of an    *)
(* adapter than the registry has counted, also while failed dials are      *)
(* between Stats.AddError and Sched.RecordDialFailure.                     *)
ErrorsCoverFails ==
    resets = 0 => \A a \in Adapters :
        health[a].fails + Cardinality({p \in Callers : pc[p] = "charge" /\ on[p] = a})
            <= stats[a].errors

(* The dials carry out the failover protocol. *)
Phase(p) == IF pc[p] = "idle" \/ pc[p] = "direct" THEN "idle"
            ELSE IF pc[p] = "open"   THEN "connected"
            ELSE IF pc[p] = "failed" THEN "failed"
            ELSE "trying"

Promise == INSTANCE Failover WITH
    selected <- Selected,
    phase    <- [d \in Dials |-> Phase(d)],
    want     <- [d \in Dials |-> maxTries[d]],
    tried    <- [d \in Dials |-> tried[d]]

FailsOver == Promise!Spec
FailsOverSafely == Promise!Safety
=============================================================================
