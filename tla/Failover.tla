----------------------------- MODULE Failover ------------------------------
(***************************************************************************)
(* What Dialer.DialContext (internal/proxy/dialer.go) promises the proxy   *)
(* handlers, without scheduling, health or statistics: a dial tries        *)
(* selected adapters, none of them twice, and reports an error only when   *)
(* it has tried as many adapters as were selected when it began, or all    *)
(* those selected now.                                                     *)
(***************************************************************************)
EXTENDS Integers, FiniteSets

CONSTANTS Dials, Adapters

VARIABLES
    selected,     \* the selectable adapters
    phase,        \* what each dial is doing
    want,         \* how many adapters were selected when the dial began
    tried         \* the adapters it has tried

vars == <<selected, phase, want, tried>>

Init ==
    /\ selected = {}
    /\ phase = [d \in Dials |-> "idle"]
    /\ want  = [d \in Dials |-> 0]
    /\ tried = [d \in Dials |-> {}]

Begin(d) ==
    /\ phase[d] = "idle"
    /\ phase' = [phase EXCEPT ![d] = "trying"]
    /\ want'  = [want EXCEPT ![d] = IF selected = {} THEN 1 ELSE Cardinality(selected)]
    /\ tried' = [tried EXCEPT ![d] = {}]
    /\ UNCHANGED selected

Try(d, a) ==
    /\ phase[d] = "trying"
    /\ a \in selected \ tried[d]
    /\ Cardinality(tried[d]) < want[d]
    /\ tried' = [tried EXCEPT ![d] = @ \cup {a}]
    /\ UNCHANGED <<selected, phase, want>>

Connect(d) ==
    /\ phase[d] = "trying"
    /\ tried[d] # {}
    /\ phase' = [phase EXCEPT ![d] = "connected"]
    /\ UNCHANGED <<selected, want, tried>>

GiveUp(d) ==
    /\ phase[d] = "trying"
    /\ Cardinality(tried[d]) = want[d] \/ selected \subseteq tried[d]
    /\ phase' = [phase EXCEPT ![d] = "failed"]
    /\ UNCHANGED <<selected, want, tried>>

Finish(d) ==
    /\ phase[d] \in {"connected", "failed"}
    /\ phase' = [phase EXCEPT ![d] = "idle"]
    /\ want'  = [want EXCEPT ![d] = 0]
    /\ tried' = [tried EXCEPT ![d] = {}]
    /\ UNCHANGED selected

Reselect ==
    /\ selected' \in SUBSET Adapters
    /\ UNCHANGED <<phase, want, tried>>

Move(d) == Connect(d) \/ GiveUp(d) \/ \E a \in Adapters : Try(d, a)

Next ==
    \/ \E d \in Dials : Begin(d) \/ Move(d) \/ Finish(d)
    \/ Reselect

Safety == Init /\ [][Next]_vars

Spec == Safety /\ \A d \in Dials : WF_vars(Move(d))
=============================================================================
