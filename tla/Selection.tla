----------------------------- MODULE Selection -----------------------------
(***************************************************************************)
(* The selection of adapters (internal/app/app.go) over the scheduler: the *)
(* web console refreshes the list of adapters and updates what the user    *)
(* has chosen of it, in requests that overlap; both rebuild the entries of *)
(* the scheduler.                                                          *)
(*                                                                         *)
(* A refresh lists the interfaces of the system before it takes a.mu, so   *)
(* its list may be old when it is applied.  a.mu is held from then on      *)
(* until the scheduler has its entries; a dial takes the scheduler's mutex *)
(* alone, and in between it still sees the old ones.                       *)
(***************************************************************************)
EXTENDS Scheduler

CONSTANTS
    Refreshes,    \* requests that refresh the adapters
    Lists,        \* what Discoverer.List may return
    Updates       \* what an update may say of some adapters

NoList  == <<>>
Listing == [id : Adapters, up : BOOLEAN]
Choice  == [selected : BOOLEAN, weight : Int]
Adapter == [id : Adapters, up : BOOLEAN, selected : BOOLEAN, weight : Nat \ {0}]

(* The system names an interface once.  A list without any usable adapter  *)
(* is an error to the code, which then changes nothing.  The scheduler's   *)
(* entries come from here alone.                                           *)
ASSUME SelectionAssumption ==
    /\ Configs = {}
    /\ Lists \subseteq Seq(Listing) \ {NoList}
    /\ \A list \in Lists : \A i, j \in DOMAIN list : list[i].id = list[j].id => i = j
    /\ \A update \in Updates : DOMAIN update \subseteq Adapters /\ update \in [DOMAIN update -> Choice]

VARIABLES
    adapters,     \* a.Adapters, in the order of the system
    listed,       \* the list a refresh has got and not yet applied
    rebuilding,   \* a.mu is held and the scheduler does not have its entries yet
    wish          \* history: what the user has last said of each adapter

selectionVars == <<adapters, listed, rebuilding, wish>>

Unchosen == [selected |-> FALSE, weight |-> 1]
Ids(list) == {list[i].id : i \in DOMAIN list}

ListAdapters(r) ==
    /\ listed[r] = NoList
    /\ \E list \in Lists : listed' = [listed EXCEPT ![r] = list]
    /\ UNCHANGED <<vars, adapters, rebuilding, wish>>

(* An adapter as it is listed, with the choice `was'. *)
Chosen(l, was) == [id |-> l.id, up |-> l.up, selected |-> was.selected,
                   weight |-> AtLeastOne(was.weight)]

(* Each adapter keeps the choice it has now, whatever its place in the list. *)
PreservedByPlace(list) ==
    [i \in DOMAIN list |-> Chosen(list[i], IF i \in DOMAIN adapters THEN adapters[i] ELSE Unchosen)]
Preserved(list) ==
    [i \in DOMAIN list |->
        LET old == {j \in DOMAIN adapters : adapters[j].id = list[i].id}
        IN  Chosen(list[i], IF old = {} THEN Unchosen ELSE adapters[CHOOSE j \in old : TRUE])]

(* The refresh goes on; an adapter that its list lacks is forgotten.       *)
Refresh(r) ==
    /\ listed[r] # NoList /\ ~rebuilding
    /\ adapters' = Preserved(listed[r])
    /\ wish' = [a \in Adapters |-> IF a \in Ids(listed[r]) THEN wish[a] ELSE Unchosen]
    /\ listed' = [listed EXCEPT ![r] = NoList]
    /\ rebuilding' = TRUE
    /\ UNCHANGED vars

(* Only of an adapter that is in the list can a choice be made. *)
UpdateAdapters(update) ==
    /\ ~rebuilding
    /\ adapters' = [i \in DOMAIN adapters |->
           IF adapters[i].id \in DOMAIN update
           THEN Chosen(adapters[i], update[adapters[i].id]) ELSE adapters[i]]
    /\ wish' = [a \in Adapters |->
           IF a \in DOMAIN update \cap Ids(adapters) THEN update[a] ELSE wish[a]]
    /\ rebuilding' = TRUE
    /\ UNCHANGED <<vars, listed>>

(* rebuildSchedulerLocked, and a.mu is released. *)
Usable == {i \in DOMAIN adapters : adapters[i].selected /\ adapters[i].up}
Config == Loop(Len(adapters), <<>>, [i \in 1..Len(adapters) |-> [acc \in Seq(ConfigEntry) |->
              IF i \in Usable
              THEN Append(acc, [id |-> adapters[i].id, weight |-> adapters[i].weight, ipv4 |-> TRUE])
              ELSE acc]])
Rebuild ==
    /\ rebuilding
    /\ SetEntries(Config)
    /\ rebuilding' = FALSE
    /\ UNCHANGED <<adapters, listed, wish>>

SelectionInit ==
    /\ Init
    /\ adapters = <<>>
    /\ listed = [r \in Refreshes |-> NoList]
    /\ rebuilding = FALSE
    /\ wish = [a \in Adapters |-> Unchosen]

(* The dials go on, and SetMode, which needs no a.mu. *)
Dialling == Next /\ UNCHANGED selectionVars

SelectionNext ==
    \/ \E r \in Refreshes : ListAdapters(r) \/ Refresh(r)
    \/ \E update \in Updates : UpdateAdapters(update)
    \/ Rebuild
    \/ Dialling

SelectionSpec == SelectionInit /\ [][SelectionNext]_<<vars, selectionVars>>
-----------------------------------------------------------------------------
(* Properties                                                              *)

(* However requests overlap and whatever old lists arrive late, the        *)
(* scheduler chooses among the usable adapters that the user wants, with   *)
(* the weights he gave them: a choice is lost only when a list lacks the   *)
(* adapter, and one that was deselected does not come back by itself.      *)
EntriesAsChosen ==
    ~rebuilding =>
        {entries[i] : i \in Positions} =
            {[id |-> ad.id, weight |-> AtLeastOne(wish[ad.id].weight)] :
                ad \in {adapters[i] : i \in {j \in DOMAIN adapters :
                                             adapters[j].up /\ wish[adapters[j].id].selected}}}
=============================================================================
