----------------------------- MODULE MCConsole -----------------------------
(***************************************************************************)
(* Instances for TLC of what is behind the web console: the scheduler's    *)
(* picks, the selection of adapters, the statistics, the mutexes and the   *)
(* bypass rules.  They share mutexes but no data, so that a behaviour of   *)
(* several interleaves one of each; TLC explores them one at a time, in    *)
(* one run.                                                                *)
(***************************************************************************)
EXTENDS Selection, Statistics, Locks, MCRules

CONSTANTS a, b, c

VARIABLE part     \* the part that a behaviour is of

AnyExclude   == SUBSET Adapters
ColdReadings == [rate : {0}, active : {0, 1}, errors : {0}]

(* All adapters, two of them, one of them down, and one alone. *)
Listed(list) == [i \in DOMAIN list |-> [id |-> list[i][1], up |-> list[i][2]]]
SomeLists  == {Listed(<< <<a, TRUE>>, <<b, TRUE>>, <<c, TRUE>> >>),
               Listed(<< <<a, FALSE>>, <<b, TRUE>> >>),
               Listed(<< <<b, TRUE>>, <<c, TRUE>> >>), Listed(<< <<a, TRUE>> >>)}
AnyChoice  == UNION {[some -> [selected : BOOLEAN, weight : {0, 2}]] : some \in SUBSET {a, b}}

(* Two selections to pick from: with weights 1, 3 and 1, and 2 and 1. *)
Wishes(choice) == [ad \in Adapters |-> [selected |-> choice[ad] > -1, weight |-> choice[ad]]]
ShareChoices == {Wishes((a :> 1) @@ (b :> 3) @@ (c :> 0)), Wishes((a :> 2) @@ (b :> -1) @@ (c :> 1))}
SomeUpdates  == AnyChoice \cup ShareChoices

allVars == <<vars, selectionVars, statisticsVars, lockVars, rulesVars, part>>

ConsoleInit ==
    /\ SelectionInit /\ StatisticsInit /\ LocksInit /\ RulesInit
    /\ part \in {"picks", "selection", "statistics", "locks", "rules"}

(* Picks from the two selections, once there is a list of adapters. *)
PicksNext ==
    \/ adapters = <<>> /\ (ListAdapters(1) \/ Refresh(1))
    \/ \E update \in ShareChoices : UpdateAdapters(update)
    \/ Rebuild
    \/ Dialling

(* Every request, and no picks. *)
RequestsNext ==
    \/ \E r \in Refreshes : ListAdapters(r) \/ Refresh(r)
    \/ \E update \in AnyChoice : UpdateAdapters(update)
    \/ Rebuild

Only(name, next) == part = name /\ next /\ UNCHANGED part

ConsoleNext ==
    \/ Only("picks", PicksNext) /\ UNCHANGED <<statisticsVars, lockVars, rulesVars>>
    \/ Only("selection", RequestsNext) /\ UNCHANGED <<statisticsVars, lockVars, rulesVars>>
    \/ Only("statistics", StatisticsNext) /\ UNCHANGED <<vars, selectionVars, lockVars, rulesVars>>
    \/ Only("locks", LocksNext) /\ UNCHANGED <<vars, selectionVars, statisticsVars, rulesVars>>
    \/ Only("rules", RulesNext) /\ UNCHANGED <<vars, selectionVars, statisticsVars, lockVars>>

ConsoleSpec == ConsoleInit /\ [][ConsoleNext]_allVars /\ LocksFair
=============================================================================
