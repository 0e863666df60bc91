--------------------------- MODULE ConsoleProofs ----------------------------
(***************************************************************************)
(* Proofs about what is behind the web console, in the order of MCConsole: *)
(* the selection of adapters, the statistics, the mutexes and the bypass   *)
(* rules.  Each section is about the behaviours of one specification.      *)
(***************************************************************************)
EXTENDS Selection, Statistics, Locks, Rules, LoopTheorems,
        SequenceTheorems, FiniteSetTheorems, TLAPS

-----------------------------------------------------------------------------
(***************************************************************************)
(* The selection of adapters, for any adapters, lists of the system,       *)
(* updates of the user and number of overlapping requests.                 *)
(***************************************************************************)
USE SelectionAssumption

(* The inductive invariant: what the console holds of an adapter is what   *)
(* the user last said of it, also where no adapter is listed any more.     *)
AsLastSaid(ad) == /\ ad \in Adapter
                  /\ ad.selected = wish[ad.id].selected
                  /\ ad.weight = AtLeastOne(wish[ad.id].weight)
AdaptersHeld == adapters \in Seq(Adapter) /\ \A i \in DOMAIN adapters : AsLastSaid(adapters[i])
Forgotten == \A a \in Adapters : a \notin Ids(adapters) => wish[a] = Unchosen
RequestsOk == listed \in [Refreshes -> Lists \cup {NoList}] /\ wish \in [Adapters -> Choice]

SelectionInv == RequestsOk /\ AdaptersHeld /\ Forgotten /\ EntriesAsChosen

LEMMA ListElement ==
    ASSUME NEW S, NEW seq \in Seq(S), NEW i \in DOMAIN seq PROVE seq[i] \in S
  OBVIOUS

LEMMA MappedList ==
    ASSUME NEW S, NEW seq \in Seq(S), NEW T, NEW f,
           DOMAIN f = DOMAIN seq, f = [i \in DOMAIN f |-> f[i]], \A i \in DOMAIN seq : f[i] \in T
    PROVE  f \in Seq(T)
<1>1. DOMAIN seq = 1..Len(seq) /\ Len(seq) \in Nat
  OBVIOUS
<1>2. f \in [1..Len(seq) -> T]
  BY <1>1
<1>. QED
  BY <1>1, <1>2

LEMMA AtLeastOnePositive ==
    \A w \in Int : AtLeastOne(w) \in Nat \ {0} /\ AtLeastOne(AtLeastOne(w)) = AtLeastOne(w)
  BY DEF AtLeastOne

(* An adapter with the choice `was' of some other record of it. *)
LEMMA ChosenType ==
    ASSUME NEW l, l.id \in Adapters, l.up \in BOOLEAN,
           NEW was, was.selected \in BOOLEAN, was.weight \in Int
    PROVE  /\ Chosen(l, was) \in Adapter
           /\ Chosen(l, was).id = l.id
           /\ Chosen(l, was).selected = was.selected
           /\ Chosen(l, was).weight = AtLeastOne(was.weight)
  BY AtLeastOnePositive DEF Chosen, Adapter
-----------------------------------------------------------------------------
(* The steps                                                               *)

LEMMA RefreshKeepsChoices ==
    ASSUME SelectionInv, NEW r \in Refreshes, Refresh(r)
    PROVE  SelectionInv'
<1>. DEFINE list == listed[r]
<1>1. /\ list \in Seq(Listing) /\ adapters' = Preserved(list) /\ rebuilding' = TRUE
      /\ wish' = [a \in Adapters |-> IF a \in Ids(list) THEN wish[a] ELSE Unchosen]
      /\ listed' = [listed EXCEPT ![r] = NoList]
  BY DEF Refresh, SelectionInv, RequestsOk
<1>. HIDE DEF list
<1>2. RequestsOk'
  <2>1. Unchosen \in Choice
    BY DEF Unchosen, Choice
  <2>. QED
    BY <1>1, <2>1 DEF SelectionInv, RequestsOk
<1>3. DOMAIN adapters' = DOMAIN list
  BY <1>1 DEF Preserved
<1>4. ASSUME NEW i \in DOMAIN list
      PROVE  adapters'[i].id = list[i].id /\ AsLastSaid(adapters[i])'
  <2>. DEFINE old == {j \in DOMAIN adapters : adapters[j].id = list[i].id}
              was == IF old = {} THEN Unchosen ELSE adapters[CHOOSE j \in old : TRUE]
  <2>1. list[i] \in Listing
    BY <1>1, ListElement
  <2>2. list[i].id \in Adapters /\ list[i].up \in BOOLEAN /\ wish'[list[i].id] = wish[list[i].id]
        /\ wish[list[i].id] \in Choice
    BY <1>1, <2>1 DEF Listing, Ids, SelectionInv, RequestsOk
  <2>3. adapters'[i] = Chosen(list[i], was)
    BY <1>1 DEF Preserved
  <2>4. CASE old = {}
    <3>1. list[i].id \notin Ids(adapters)
      BY <2>4 DEF Ids
    <3>2. wish[list[i].id] = Unchosen /\ was = Unchosen
      BY <3>1, <2>2, <2>4 DEF SelectionInv, Forgotten
    <3>3. was.selected \in BOOLEAN /\ was.weight \in Int
      <4>1. Unchosen.selected \in BOOLEAN /\ Unchosen.weight \in Int
        BY DEF Unchosen
      <4>. QED
        BY <3>2, <4>1
    <3>4. AtLeastOne(was.weight) = AtLeastOne(wish'[list[i].id].weight)
      BY <2>2, <3>2
    <3>5. was.selected = wish'[list[i].id].selected
      BY <2>2, <3>2
    <3>. HIDE DEF was, old
    <3>. QED
      BY <2>2, <2>3, <3>3, <3>4, <3>5, ChosenType DEF AsLastSaid
  <2>5. CASE old # {}
    <3>1. PICK j \in old : was = adapters[j]
      BY <2>5
    <3>2. j \in DOMAIN adapters /\ adapters[j].id = list[i].id
      OBVIOUS
    <3>3. /\ was.selected = wish[list[i].id].selected
          /\ was.weight = AtLeastOne(wish[list[i].id].weight)
      BY <3>1, <3>2 DEF SelectionInv, AdaptersHeld, AsLastSaid
    <3>. HIDE DEF was, old
    <3>4. wish[list[i].id].selected \in BOOLEAN /\ wish[list[i].id].weight \in Int
      BY <2>2 DEF Choice
    <3>5. was.weight \in Int /\ AtLeastOne(was.weight) = AtLeastOne(wish[list[i].id].weight)
      BY <3>3, <3>4, AtLeastOnePositive
    <3>. QED
      BY <2>2, <2>3, <3>3, <3>4, <3>5, ChosenType DEF AsLastSaid
  <2>. QED
    BY <2>4, <2>5
<1>5. AdaptersHeld'
  <2>1. adapters' = [i \in DOMAIN adapters' |-> adapters'[i]]
    BY <1>1 DEF Preserved
  <2>2. \A i \in DOMAIN list : adapters'[i] \in Adapter
    BY <1>4 DEF AsLastSaid
  <2>3. adapters' \in Seq(Adapter)
    BY <1>1, <1>3, <2>1, <2>2, MappedList
  <2>. QED
    BY <1>3, <1>4, <2>3 DEF AdaptersHeld
<1>6. Forgotten'
  <2>1. Ids(adapters)' = Ids(list)
    BY <1>3, <1>4 DEF Ids
  <2>. QED
    BY <1>1, <2>1 DEF Forgotten
<1>. QED
  BY <1>1, <1>2, <1>5, <1>6 DEF SelectionInv, EntriesAsChosen

LEMMA UpdateKeepsChoices ==
    ASSUME SelectionInv, NEW update \in Updates, UpdateAdapters(update)
    PROVE  SelectionInv'
<1>1. /\ update \in [DOMAIN update -> Choice] /\ rebuilding' = TRUE /\ listed' = listed
      /\ adapters' = [i \in DOMAIN adapters |->
             IF adapters[i].id \in DOMAIN update
             THEN Chosen(adapters[i], update[adapters[i].id]) ELSE adapters[i]]
      /\ wish' = [a \in Adapters |->
             IF a \in DOMAIN update \cap Ids(adapters) THEN update[a] ELSE wish[a]]
  BY DEF UpdateAdapters
<1>2. RequestsOk'
  BY <1>1 DEF SelectionInv, RequestsOk
<1>3. DOMAIN adapters' = DOMAIN adapters
  BY <1>1
<1>4. ASSUME NEW i \in DOMAIN adapters
      PROVE  adapters'[i].id = adapters[i].id /\ AsLastSaid(adapters[i])'
  <2>1. AsLastSaid(adapters[i]) /\ adapters[i].id \in Ids(adapters)
    BY DEF SelectionInv, AdaptersHeld, Ids
  <2>. DEFINE a == adapters[i].id
  <2>2. a \in Adapters /\ adapters[i].up \in BOOLEAN
    BY <2>1 DEF AsLastSaid, Adapter
  <2>3. CASE a \in DOMAIN update
    <3>1. adapters'[i] = Chosen(adapters[i], update[a]) /\ wish'[a] = update[a]
      BY <1>1, <2>1, <2>2, <2>3
    <3>2. update[a].selected \in BOOLEAN /\ update[a].weight \in Int
      BY <1>1, <2>3 DEF Choice
    <3>. QED
      BY <2>2, <3>1, <3>2, ChosenType DEF AsLastSaid
  <2>4. CASE a \notin DOMAIN update
    <3>1. adapters'[i] = adapters[i] /\ wish'[a] = wish[a]
      BY <1>1, <2>2, <2>4
    <3>. QED
      BY <2>1, <3>1 DEF AsLastSaid
  <2>. QED
    BY <2>3, <2>4
<1>5. AdaptersHeld'
  <2>1. adapters' = [i \in DOMAIN adapters' |-> adapters'[i]]
    BY <1>1
  <2>2. \A i \in DOMAIN adapters : adapters'[i] \in Adapter
    BY <1>4 DEF AsLastSaid
  <2>3. adapters' \in Seq(Adapter)
    BY <1>3, <2>1, <2>2, MappedList DEF SelectionInv, AdaptersHeld
  <2>. QED
    BY <1>3, <1>4, <2>3 DEF AdaptersHeld
<1>6. Forgotten'
  <2>1. Ids(adapters)' = Ids(adapters)
    BY <1>3, <1>4 DEF Ids
  <2>. QED
    BY <1>1, <2>1 DEF SelectionInv, Forgotten
<1>. QED
  BY <1>1, <1>2, <1>5, <1>6 DEF SelectionInv, EntriesAsChosen

(* What rebuildSchedulerLocked collects of the adapters. *)
ConfigOf(i) == [id |-> adapters[i].id, weight |-> adapters[i].weight, ipv4 |-> TRUE]

LEMMA ConfigCollects ==
    ASSUME SelectionInv
    PROVE  Config \in Seq(ConfigEntry) /\ Collected(Config) = {ConfigOf(i) : i \in Usable}
<1>. DEFINE n == Len(adapters)
            item == [i \in 1..n |-> ConfigOf(i)]
            step == [i \in 1..n |-> [acc \in Seq(ConfigEntry) |->
                        IF i \in Usable THEN Append(acc, ConfigOf(i)) ELSE acc]]
<1>1. n \in Nat /\ DOMAIN adapters = 1..n
  BY DEF SelectionInv, AdaptersHeld
<1>2. \A i \in Usable : i \in 1..n
  BY <1>1 DEF Usable
<1>3. \A i \in Usable : item[i] = ConfigOf(i) /\ item[i] \in ConfigEntry
  <2>. TAKE i \in Usable
  <2>1. adapters[i] \in Adapter
    BY <1>1, <1>2 DEF SelectionInv, AdaptersHeld, AsLastSaid
  <2>. QED
    BY <1>2, <2>1 DEF ConfigOf, Adapter, ConfigEntry
<1>4. IsCollector(n, ConfigEntry, Usable, item, step)
  <2>1. \A i \in 1..n : \A acc \in Seq(ConfigEntry) :
            step[i][acc] = IF i \in Usable THEN Append(acc, item[i]) ELSE acc
    OBVIOUS
  <2>. HIDE DEF n, item, step
  <2>. QED
    BY <1>2, <1>3, <2>1 DEF IsCollector
<1>5. Config = Loop(n, <<>>, step)
  BY DEF Config, ConfigOf
<1>6. {item[i] : i \in Usable} = {ConfigOf(i) : i \in Usable}
  BY <1>3
<1>. HIDE DEF n, item, step
<1>7. /\ Loop(n, <<>>, step) \in Seq(ConfigEntry)
      /\ Collected(Loop(n, <<>>, step)) = {item[i] : i \in Usable}
  BY <1>1, <1>4, LoopCollects
<1>. QED
  BY <1>5, <1>6, <1>7

(* What SetEntries keeps of it. *)
EntryOf(c) == [id |-> c.id, weight |-> AtLeastOne(c.weight)]

LEMMA EntriesCollected ==
    ASSUME NEW config \in Seq(ConfigEntry), \A k \in 1..Len(config) : config[k].ipv4,
           SetEntries(config)
    PROVE  Collected(entries') = {EntryOf(c) : c \in Collected(config)}
<1>. DEFINE n == Len(config)
            item == [k \in 1..n |-> EntryOf(config[k])]
            step == [k \in 1..n |-> [acc \in Seq(Entry) |->
                        IF config[k].ipv4 THEN Append(acc, EntryOf(config[k])) ELSE acc]]
<1>1. n \in Nat
  OBVIOUS
<1>2. \A k \in 1..n : k \in 1..n /\ item[k] \in Entry
  <2>. TAKE k \in 1..n
  <2>1. config[k] \in ConfigEntry
    BY ListElement
  <2>. QED
    BY <2>1, AtLeastOnePositive DEF ConfigEntry, Entry, EntryOf
<1>3. IsCollector(n, Entry, 1..n, item, step)
  <2>1. \A k \in 1..n : \A acc \in Seq(Entry) :
            step[k][acc] = IF k \in 1..n THEN Append(acc, item[k]) ELSE acc
    OBVIOUS
  <2>. HIDE DEF n, item, step
  <2>. QED
    BY <1>2, <2>1 DEF IsCollector
<1>4. entries' = Loop(n, <<>>, step)
  BY DEF SetEntries, EntryOf
<1>5. {item[k] : k \in 1..n} = {EntryOf(c) : c \in Collected(config)}
  BY DEF Collected
<1>. HIDE DEF n, item, step
<1>6. Collected(Loop(n, <<>>, step)) = {item[k] : k \in 1..n}
  BY <1>1, <1>3, LoopCollects
<1>. QED
  BY <1>4, <1>5, <1>6

LEMMA RebuildAppliesChoices ==
    ASSUME SelectionInv, Rebuild
    PROVE  EntriesAsChosen'
<1>1. SetEntries(Config) /\ adapters' = adapters /\ wish' = wish
  BY DEF Rebuild
<1>2. Config \in Seq(ConfigEntry) /\ Collected(Config) = {ConfigOf(i) : i \in Usable}
  BY ConfigCollects
<1>3. \A k \in 1..Len(Config) : Config[k].ipv4
  <2>. TAKE k \in 1..Len(Config)
  <2>1. Config[k] \in {ConfigOf(i) : i \in Usable}
    BY <1>2 DEF Collected
  <2>. QED
    BY <2>1 DEF ConfigOf
<1>4. Collected(entries') = {EntryOf(c) : c \in {ConfigOf(i) : i \in Usable}}
  BY <1>1, <1>2, <1>3, EntriesCollected
<1>. DEFINE WishOf(ad) == [id |-> ad.id, weight |-> AtLeastOne(wish[ad.id].weight)]
            Wanted == {j \in DOMAIN adapters : adapters[j].up /\ wish[adapters[j].id].selected}
<1>5. Usable = Wanted
  BY DEF Usable, SelectionInv, AdaptersHeld, AsLastSaid
<1>6. \A i \in Usable : EntryOf(ConfigOf(i)) = WishOf(adapters[i])
  <2>. TAKE i \in Usable
  <2>1. AsLastSaid(adapters[i])
    BY DEF Usable, SelectionInv, AdaptersHeld
  <2>2. wish[adapters[i].id].weight \in Int
    BY <2>1 DEF AsLastSaid, Adapter, Choice, SelectionInv, RequestsOk
  <2>3. AtLeastOne(adapters[i].weight) = AtLeastOne(wish[adapters[i].id].weight)
    BY <2>1, <2>2, AtLeastOnePositive DEF AsLastSaid
  <2>. QED
    BY <2>3 DEF EntryOf, ConfigOf
<1>7. Collected(entries') = {WishOf(ad) : ad \in {adapters[i] : i \in Wanted}}
  <2>. HIDE DEF WishOf, Wanted
  <2>. QED
    BY <1>4, <1>5, <1>6, SMTT(30)
<1>. QED
  BY <1>1, <1>7 DEF EntriesAsChosen, Collected, Positions

(* A dial leaves the entries alone. *)
LEMMA DialKeepsEntries == Next => entries' = entries
<1>. SUFFICES ASSUME Next PROVE entries' = entries
  OBVIOUS
<1>1. ~ \E config \in Configs : SetEntries(config)
  OBVIOUS
<1>. QED
  BY <1>1 DEF Next, StartPick, Passing, SkipEntry, WeighEntry, ScanEntry, PayEntry, Settle,
              SetMode, RecordDialFailure, RecordDialSuccess, Tick, Observe

LEMMA SelectionInvInit == SelectionInit => SelectionInv
<1>. SUFFICES ASSUME SelectionInit PROVE SelectionInv
  OBVIOUS
<1>1. adapters = <<>> /\ entries = <<>> /\ wish = [a \in Adapters |-> Unchosen]
      /\ listed = [r \in Refreshes |-> NoList]
  BY DEF SelectionInit, Init
<1>2. adapters \in Seq(Adapter) /\ DOMAIN adapters = {} /\ Positions = {}
  BY <1>1 DEF Positions
<1>3. Unchosen \in Choice
  BY DEF Unchosen, Choice
<1>. QED
  BY <1>1, <1>2, <1>3
     DEF SelectionInv, RequestsOk, AdaptersHeld, Forgotten, EntriesAsChosen

LEMMA SelectionInvNext ==
    SelectionInv /\ [SelectionNext]_<<vars, selectionVars>> => SelectionInv'
<1>. SUFFICES ASSUME SelectionInv, [SelectionNext]_<<vars, selectionVars>> PROVE SelectionInv'
  OBVIOUS
<1>1. ASSUME NEW r \in Refreshes, ListAdapters(r) PROVE SelectionInv'
  BY <1>1 DEF ListAdapters, vars, SelectionInv, RequestsOk, AdaptersHeld, AsLastSaid, Forgotten,
              EntriesAsChosen, Positions, Ids
<1>2. ASSUME NEW r \in Refreshes, Refresh(r) PROVE SelectionInv'
  BY <1>2, RefreshKeepsChoices
<1>3. ASSUME NEW update \in Updates, UpdateAdapters(update) PROVE SelectionInv'
  BY <1>3, UpdateKeepsChoices
<1>4. CASE Rebuild
  <2>1. EntriesAsChosen'
    BY <1>4, RebuildAppliesChoices
  <2>. QED
    BY <1>4, <2>1 DEF Rebuild, SelectionInv, RequestsOk, AdaptersHeld, AsLastSaid, Forgotten, Ids
<1>5. CASE Dialling \/ UNCHANGED <<vars, selectionVars>>
  <2>1. entries' = entries /\ UNCHANGED selectionVars
    BY <1>5, DialKeepsEntries DEF Dialling, vars
  <2>. QED
    BY <2>1 DEF selectionVars, SelectionInv, RequestsOk, AdaptersHeld, AsLastSaid, Forgotten,
                EntriesAsChosen, Positions, Ids
<1>. QED
  BY <1>1, <1>2, <1>3, <1>4, <1>5 DEF SelectionNext

(* However the requests overlap, the scheduler chooses among the usable    *)
(* adapters that the user wants, with the weights he gave them.            *)
THEOREM ChoicesKept == SelectionSpec => []EntriesAsChosen
<1>1. SelectionSpec => []SelectionInv
  BY SelectionInvInit, SelectionInvNext, PTL DEF SelectionSpec
<1>2. SelectionInv => EntriesAsChosen
  BY DEF SelectionInv
<1>. QED
  BY <1>1, <1>2, PTL

HIDE SelectionAssumption

-----------------------------------------------------------------------------
(***************************************************************************)
(* The statistics: the rate never runs away and no byte is counted twice or*)
(* lost, for any number of streams, pollers, bytes and Resets.             *)
(***************************************************************************)
Counters == [sent : Nat, recv : Nat, last : Nat, rate : Nat]
PollState  == [at : {"idle", "collect", "sent", "recv", "update"}, pass : {1, 2}, on : Nat, total : Nat]

StatisticsTypeOK ==
    /\ made \in Seq(Counters) /\ byID \in 0..Len(made)
    /\ adding \in [Streams -> [to : Nat, what : {"sent", "recv"}]]
    /\ \A s \in Streams : adding[s].to <= Len(made)
    /\ poll \in [Pollers -> PollState]
    /\ \A p \in Pollers : poll[p].at \in {"sent", "recv", "update"} => poll[p].on \in 1..Len(made)
    /\ moved \in Nat /\ since \in Nat

(* Status holds a.mu: there is one sampling at a time.                     *)
OnePoll == \A p, q \in Pollers : poll[p].at # "idle" /\ poll[q].at # "idle" => p = q

(* Neither the rate nor the total of the last sampling is above the bytes. *)
Covered == \A k \in 1..Len(made) : made[k].last <= Total(k) /\ made[k].rate <= Total(k)

(* What a sampling has read so far is not above the bytes, and will not be *)
(* below the last total.                                                   *)
Measured ==
    \A p \in Pollers :
        LET was == made[poll[p].on] IN
        /\ poll[p].at = "recv" => poll[p].total <= was.sent /\ was.last <= poll[p].total + was.recv
        /\ poll[p].at = "update" => poll[p].total <= was.sent + was.recv /\ was.last <= poll[p].total

RateInv == StatisticsTypeOK /\ OnePoll /\ Covered /\ Measured
-----------------------------------------------------------------------------
LEMMA DivBound ==
    ASSUME NEW x \in Nat, NEW d \in Nat \ {0}
    PROVE  (x + d - 1) \div d \in Nat /\ (x + d - 1) \div d <= x
<1> DEFINE q == (x + d - 1) \div d
<1>1. q \in Int /\ d * q <= x + d - 1 /\ x + d - 1 < d * (q + 1)
  <2>1. x + d - 1 \in Int
    OBVIOUS
  <2> QED BY <2>1
<1> HIDE DEF q
<1>2. q >= 0
  <2> SUFFICES ASSUME q <= -1 PROVE FALSE
    BY <1>1
  <2>1. d * (q + 1) <= 0
    BY <1>1
  <2> QED BY <2>1, <1>1
<1>3. q <= x
  <2> SUFFICES ASSUME q >= x + 1 PROVE FALSE
    BY <1>1
  <2>1. d * q >= d * (x + 1)
    BY <1>1
  <2>2. d * (x + 1) = d * x + d
    OBVIOUS
  <2>3. d * x >= x
    OBVIOUS
  <2>4. d * x \in Nat /\ d * q \in Int
    BY <1>1
  <2> QED BY <2>1, <2>2, <2>3, <2>4, <1>1
<1> QED BY <1>1, <1>2, <1>3 DEF q

LEMMA ModBound ==
    ASSUME NEW x \in Nat, NEW d \in Nat \ {0}
    PROVE  x % d \in Nat /\ x % d <= x
<1> DEFINE q == x \div d
           r == x % d
<1>1. q \in Int /\ r \in 0..(d - 1) /\ x = d * q + r
  OBVIOUS
<1> HIDE DEF q, r
<1>2. q >= 0
  <2> SUFFICES ASSUME q <= -1 PROVE FALSE
    BY <1>1
  <2>1. d * q <= -d
    BY <1>1
  <2>2. d * q \in Int
    BY <1>1
  <2> QED BY <2>1, <2>2, <1>1
<1>3. d * q >= 0
  BY <1>1, <1>2
<1> QED BY <1>1, <1>3 DEF r

LEMMA SmoothBound ==
    ASSUME NEW t \in Nat, NEW rate \in 0..t, NEW inst \in 0..t
    PROVE  Smooth(rate, inst) \in Nat /\ Smooth(rate, inst) <= t
BY DEF Smooth

LEMMA SamplesBounded ==
    ASSUME NEW total \in Nat, NEW last \in 0..total, NEW t \in Nat, total <= t,
           NEW rate \in 0..t, NEW dt \in 1..MaxTime
    PROVE  LET s == Smooth(rate, (((total - last) % Wrap) + dt - 1) \div dt)
           IN  s \in Nat /\ s <= t
<1>1. total - last \in Nat /\ Wrap \in Nat \ {0} /\ dt \in Nat \ {0}
  BY StatisticsAssumption
<1> DEFINE delta == (total - last) % Wrap
<1>2. delta \in Nat /\ delta <= total - last
  BY <1>1, ModBound
<1> HIDE DEF delta
<1> DEFINE inst == (delta + dt - 1) \div dt
<1>3. inst \in Nat /\ inst <= delta
  BY <1>1, <1>2, DivBound
<1> HIDE DEF inst
<1>4. inst \in 0..t
  BY <1>2, <1>3
<1>5. Smooth(rate, inst) \in Nat /\ Smooth(rate, inst) <= t
  BY <1>4, SmoothBound
<1> QED BY <1>5 DEF inst, delta
-----------------------------------------------------------------------------
(* Fresh counters are all that get may add. *)
LEMMA GetMakes ==
    ASSUME RateInv, Get
    PROVE  /\ made' \in Seq(Counters) /\ byID' \in 1..Len(made')
           /\ Len(made') >= Len(made)
           /\ \A k \in 1..Len(made) : made'[k] = made[k]
           /\ \A k \in (Len(made) + 1)..Len(made') : made'[k] = Zero
           /\ byID # 0 => byID' = byID /\ made' = made
           /\ byID = 0 => byID' = Len(made) + 1
<1>1. made \in Seq(Counters) /\ byID \in 0..Len(made) /\ Len(made) \in Nat
  BY DEF RateInv, StatisticsTypeOK
<1>2. Zero \in Counters
  BY DEF Zero, Counters
<1>3. CASE byID # 0
  BY <1>1, <1>3 DEF Get
<1>4. CASE byID = 0
  <2>1. made' = Append(made, Zero) /\ byID' = Len(made) + 1
    BY <1>4 DEF Get
  <2>2. /\ made' \in Seq(Counters) /\ Len(made') = Len(made) + 1
        /\ \A k \in 1..Len(made) : made'[k] = made[k]
        /\ made'[Len(made) + 1] = Zero
    BY <2>1, <1>1, <1>2
  <2>3. \A k \in (Len(made) + 1)..Len(made') : k = Len(made) + 1
    BY <2>2, <1>1
  <2> QED BY <2>1, <2>2, <2>3, <1>1, <1>4
<1> QED BY <1>3, <1>4

(* Bytes only grow; what was below them stays so. *)
LEMMA GrownCounters ==
    ASSUME NEW was \in Counters, NEW now \in Counters,
           now.last = was.last, now.rate = was.rate,
           now.sent >= was.sent, now.recv >= was.recv
    PROVE  /\ was.last <= was.sent + was.recv => now.last <= now.sent + now.recv
           /\ was.rate <= was.sent + was.recv => now.rate <= now.sent + now.recv
           /\ \A t \in Nat :
                  /\ t <= was.sent => t <= now.sent
                  /\ was.last <= t + was.recv => now.last <= t + now.recv
                  /\ t <= was.sent + was.recv => t <= now.sent + now.recv
                  /\ was.last <= t => now.last <= t
<1>1. /\ was.sent \in Nat /\ was.recv \in Nat /\ was.last \in Nat /\ was.rate \in Nat
      /\ now.sent \in Nat /\ now.recv \in Nat
  BY DEF Counters
<1> QED BY <1>1

(* Counters that only grow, and fresh ones, leave the rates covered.       *)
LEMMA Grown ==
    ASSUME RateInv, made' \in Seq(Counters), Len(made') >= Len(made),
           \A k \in 1..Len(made) :
               /\ made'[k].last = made[k].last /\ made'[k].rate = made[k].rate
               /\ made'[k].sent >= made[k].sent /\ made'[k].recv >= made[k].recv,
           \A k \in (Len(made) + 1)..Len(made') : made'[k] = Zero,
           poll' = poll
    PROVE  OnePoll' /\ Covered' /\ Measured'
<1>1. made \in Seq(Counters) /\ Len(made) \in Nat /\ Len(made') \in Nat
  BY DEF RateInv, StatisticsTypeOK
<1>2. ASSUME NEW k \in 1..Len(made')
      PROVE  /\ made'[k].last <= made'[k].sent + made'[k].recv
             /\ made'[k].rate <= made'[k].sent + made'[k].recv
  <2>1. CASE k <= Len(made)
    <3>1. k \in 1..Len(made) /\ made[k] \in Counters /\ made'[k] \in Counters
      BY <1>1, <2>1
    <3>2. made[k].last <= made[k].sent + made[k].recv /\ made[k].rate <= made[k].sent + made[k].recv
      BY <3>1 DEF RateInv, Covered, Total
    <3>3. /\ made'[k].last = made[k].last /\ made'[k].rate = made[k].rate
          /\ made'[k].sent >= made[k].sent /\ made'[k].recv >= made[k].recv
      BY <3>1
    <3> QED BY <3>1, <3>2, <3>3, GrownCounters
  <2>2. CASE k > Len(made)
    <3>1. k \in (Len(made) + 1)..Len(made')
      BY <1>1, <2>2
    <3>2. made'[k] = Zero
      BY <3>1
    <3> QED BY <3>2 DEF Zero
  <2> QED BY <2>1, <2>2, <1>1
<1>3. ASSUME NEW p \in Pollers
      PROVE  LET was == made'[poll[p].on] IN
             /\ poll[p].at = "recv" => poll[p].total <= was.sent /\ was.last <= poll[p].total + was.recv
             /\ poll[p].at = "update" => poll[p].total <= was.sent + was.recv /\ was.last <= poll[p].total
  <2> SUFFICES ASSUME poll[p].at \in {"recv", "update"}
               PROVE  LET was == made'[poll[p].on] IN
             /\ poll[p].at = "recv" => poll[p].total <= was.sent /\ was.last <= poll[p].total + was.recv
             /\ poll[p].at = "update" => poll[p].total <= was.sent + was.recv /\ was.last <= poll[p].total
    OBVIOUS
  <2> DEFINE k == poll[p].on
  <2>1. k \in 1..Len(made) /\ poll[p].total \in Nat
    BY DEF RateInv, StatisticsTypeOK, PollState
  <2> HIDE DEF k
  <2>2. made[k] \in Counters /\ made'[k] \in Counters
    BY <2>1, <1>1
  <2>3. /\ poll[p].at = "recv" => poll[p].total <= made[k].sent /\ made[k].last <= poll[p].total + made[k].recv
        /\ poll[p].at = "update" => poll[p].total <= made[k].sent + made[k].recv /\ made[k].last <= poll[p].total
    BY DEF RateInv, Measured, k
  <2>5. made'[k].last = made[k].last /\ made'[k].rate = made[k].rate /\ made'[k].sent >= made[k].sent /\ made'[k].recv >= made[k].recv
    BY <2>1
  <2>6. poll[p].total \in Nat
    BY <2>1
  <2>7. /\ poll[p].at = "recv" => poll[p].total <= made'[k].sent /\ made'[k].last <= poll[p].total + made'[k].recv
        /\ poll[p].at = "update" => poll[p].total <= made'[k].sent + made'[k].recv /\ made'[k].last <= poll[p].total
    BY <2>2, <2>3, <2>5, <2>6, GrownCounters
  <2> QED BY <2>7 DEF k
<1>4. OnePoll'
  BY DEF RateInv, OnePoll
<1>5. Covered'
  BY <1>2 DEF Covered, Total
<1>6. Measured'
  BY <1>3 DEF Measured
<1> QED BY <1>4, <1>5, <1>6

(* A poller that does not touch the counters. *)
LEMMA PollStep ==
    ASSUME RateInv, UNCHANGED <<byID, made, moving>>,
           NEW p \in Pollers, NEW next \in PollState, poll' = [poll EXCEPT ![p] = next],
           next.at \in {"sent", "recv", "update"} => next.on \in 1..Len(made),
           \A q \in Pollers : poll[q].at # "idle" => q = p,
           LET was == made[next.on] IN
             /\ next.at = "recv" => next.total <= was.sent /\ was.last <= next.total + was.recv
             /\ next.at = "update" => next.total <= was.sent + was.recv /\ was.last <= next.total
    PROVE  RateInv'
<1>1. poll' \in [Pollers -> PollState] /\ poll'[p] = next /\ \A q \in Pollers \ {p} : poll'[q] = poll[q]
  BY DEF RateInv, StatisticsTypeOK
<1>2. \A q \in Pollers \ {p} : poll'[q].at = "idle"
  BY <1>1
<1>3. StatisticsTypeOK'
  BY <1>1, <1>2 DEF RateInv, StatisticsTypeOK, moving
<1>4. OnePoll'
  BY <1>1, <1>2 DEF OnePoll
<1>5. Covered'
  BY DEF RateInv, Covered, Total
<1>6. Measured'
  BY <1>1, <1>2 DEF Measured
<1> QED BY <1>3, <1>4, <1>5, <1>6 DEF RateInv
-----------------------------------------------------------------------------
LEMMA RateInvInit == StatisticsInit => RateInv
<1> SUFFICES ASSUME StatisticsInit PROVE RateInv
  OBVIOUS
<1>1. NoAdd \in [to : Nat, what : {"sent", "recv"}] /\ NoAdd.to = 0
  BY DEF NoAdd
<1>2. NoPoll \in PollState /\ NoPoll.at = "idle"
  BY DEF NoPoll, PollState
<1>3. made = <<>> /\ made \in Seq(Counters) /\ Len(made) = 0
  BY DEF StatisticsInit
<1>4. StatisticsTypeOK
  BY <1>1, <1>2, <1>3 DEF StatisticsInit, StatisticsTypeOK
<1>5. OnePoll /\ Measured
  BY <1>2 DEF StatisticsInit, OnePoll, Measured
<1>6. Covered
  BY <1>3 DEF Covered
<1> QED BY <1>4, <1>5, <1>6 DEF RateInv

LEMMA ReadInv == ASSUME RateInv, Read PROVE RateInv'
<1>1. Get /\ UNCHANGED <<poll, moving>>
  BY DEF Read
<1>2. StatisticsTypeOK'
  <2>1. made' \in Seq(Counters) /\ byID' \in 1..Len(made') /\ Len(made') >= Len(made)
    BY <1>1, GetMakes
  <2>2. Len(made) \in Nat /\ Len(made') \in Nat
    BY <2>1 DEF RateInv, StatisticsTypeOK
  <2>3. \A s \in Streams : adding[s].to \in Nat /\ adding[s].to <= Len(made)
    BY DEF RateInv, StatisticsTypeOK
  <2>4. \A p \in Pollers : poll[p].at \in {"sent", "recv", "update"} => poll[p].on \in 1..Len(made')
    BY <2>1, <2>2 DEF RateInv, StatisticsTypeOK
  <2> QED BY <1>1, <2>1, <2>2, <2>3, <2>4 DEF RateInv, StatisticsTypeOK, moving
<1>3. ASSUME NEW k \in 1..Len(made) PROVE made[k].sent >= made[k].sent /\ made[k].recv >= made[k].recv
  <2>1. made[k] \in Counters
    BY DEF RateInv, StatisticsTypeOK
  <2>2. made[k].sent \in Nat /\ made[k].recv \in Nat
    BY <2>1 DEF Counters
  <2> QED BY <2>2
<1>4. /\ made' \in Seq(Counters) /\ Len(made') >= Len(made)
      /\ \A k \in 1..Len(made) : made'[k] = made[k]
      /\ \A k \in (Len(made) + 1)..Len(made') : made'[k] = Zero
  BY <1>1, GetMakes
<1>5. \A k \in 1..Len(made) :
          /\ made'[k].last = made[k].last /\ made'[k].rate = made[k].rate
          /\ made'[k].sent >= made[k].sent /\ made'[k].recv >= made[k].recv
  BY <1>3, <1>4
<1>6. OnePoll' /\ Covered' /\ Measured'
  BY <1>1, <1>4, <1>5, Grown
<1> QED BY <1>2, <1>6 DEF RateInv

LEMMA FindInv ==
    ASSUME RateInv, NEW s \in Streams, NEW what \in {"sent", "recv"}, Find(s, what)
    PROVE  RateInv'
<1>1. Get /\ adding' = [adding EXCEPT ![s] = [to |-> byID', what |-> what]]
      /\ moved' = moved + 1 /\ since' = since + 1 /\ poll' = poll
  BY DEF Find
<1>2. StatisticsTypeOK'
  <2>1. made' \in Seq(Counters) /\ byID' \in 1..Len(made') /\ Len(made') >= Len(made)
    BY <1>1, GetMakes
  <2>2. Len(made) \in Nat /\ Len(made') \in Nat
    BY <2>1 DEF RateInv, StatisticsTypeOK
  <2>3. \A t \in Streams : adding[t].to \in Nat /\ adding[t].to <= Len(made)
    BY DEF RateInv, StatisticsTypeOK
  <2>4. \A p \in Pollers : poll[p].at \in {"sent", "recv", "update"} => poll[p].on \in 1..Len(made')
    BY <2>1, <2>2 DEF RateInv, StatisticsTypeOK
  <2>5. [to |-> byID', what |-> what] \in [to : Nat, what : {"sent", "recv"}]
    BY <2>1, <2>2
  <2>6. adding' \in [Streams -> [to : Nat, what : {"sent", "recv"}]]
    BY <1>1, <2>5 DEF RateInv, StatisticsTypeOK
  <2>7. ASSUME NEW t \in Streams PROVE adding'[t].to <= Len(made')
    <3>1. CASE t = s
      <4>1. adding'[t].to = byID'
        BY <3>1, <1>1 DEF RateInv, StatisticsTypeOK
      <4> QED BY <4>1, <2>1
    <3>2. CASE t # s
      <4>1. adding'[t] = adding[t]
        BY <3>2, <1>1 DEF RateInv, StatisticsTypeOK
      <4> QED BY <4>1, <2>1, <2>2, <2>3
    <3> QED BY <3>1, <3>2
  <2>8. moved' \in Nat /\ since' \in Nat
    BY <1>1 DEF RateInv, StatisticsTypeOK
  <2>9. poll \in [Pollers -> PollState] /\ byID' \in 0..Len(made')
    BY <2>1, <2>2 DEF RateInv, StatisticsTypeOK
  <2> QED BY <1>1, <2>1, <2>4, <2>6, <2>7, <2>8, <2>9 DEF StatisticsTypeOK
<1>3. ASSUME NEW k \in 1..Len(made) PROVE made[k].sent >= made[k].sent /\ made[k].recv >= made[k].recv
  <2>1. made[k] \in Counters
    BY DEF RateInv, StatisticsTypeOK
  <2>2. made[k].sent \in Nat /\ made[k].recv \in Nat
    BY <2>1 DEF Counters
  <2> QED BY <2>2
<1>4. /\ made' \in Seq(Counters) /\ Len(made') >= Len(made)
      /\ \A k \in 1..Len(made) : made'[k] = made[k]
      /\ \A k \in (Len(made) + 1)..Len(made') : made'[k] = Zero
  BY <1>1, GetMakes
<1>5. \A k \in 1..Len(made) :
          /\ made'[k].last = made[k].last /\ made'[k].rate = made[k].rate
          /\ made'[k].sent >= made[k].sent /\ made'[k].recv >= made[k].recv
  BY <1>3, <1>4
<1>6. OnePoll' /\ Covered' /\ Measured'
  BY <1>1, <1>4, <1>5, Grown
<1> QED BY <1>2, <1>6 DEF RateInv

LEMMA AddInv == ASSUME RateInv, NEW s \in Streams, Add(s) PROVE RateInv'
<1> DEFINE k == adding[s].to
           w == adding[s].what
<1>1. /\ made \in Seq(Counters) /\ Len(made) \in Nat
      /\ w \in {"sent", "recv"} /\ k \in Nat /\ k <= Len(made)
      /\ adding \in [Streams -> [to : Nat, what : {"sent", "recv"}]]
  BY DEF RateInv, StatisticsTypeOK
<1>2. made' = [made EXCEPT ![k][w] = @ + 1] /\ adding' = [adding EXCEPT ![s] = NoAdd]
      /\ UNCHANGED <<byID, poll, moved, since>>
  BY DEF Add
<1> HIDE DEF k, w
<1>3. NoAdd \in [to : Nat, what : {"sent", "recv"}] /\ NoAdd.to = 0
  BY DEF NoAdd
<1>4. ASSUME NEW c \in Counters
      PROVE  /\ [c EXCEPT ![w] = @ + 1] \in Counters
             /\ LET d == [c EXCEPT ![w] = @ + 1]
                IN  d.last = c.last /\ d.rate = c.rate /\ d.sent >= c.sent /\ d.recv >= c.recv
  <2>1. CASE w = "sent"
    BY <2>1 DEF Counters
  <2>2. CASE w = "recv"
    BY <2>2 DEF Counters
  <2> QED BY <1>1, <2>1, <2>2
<1>5. made' = [made EXCEPT ![k] = [made[k] EXCEPT ![w] = @ + 1]]
  BY <1>2
<1>6. /\ made' \in Seq(Counters) /\ Len(made') = Len(made)
      /\ \A i \in 1..Len(made) : made'[i] = IF i = k THEN [made[k] EXCEPT ![w] = @ + 1] ELSE made[i]
  <2>1. made \in [1..Len(made) -> Counters] /\ DOMAIN made = 1..Len(made)
    BY <1>1
  <2>2. k \in 1..Len(made) => [made[k] EXCEPT ![w] = @ + 1] \in Counters
    BY <1>4, <2>1
  <2>3. made' \in [1..Len(made) -> Counters]
    BY <1>5, <2>1, <2>2
  <2>4. made' \in Seq(Counters) /\ Len(made') = Len(made)
    BY <2>3, <1>1
  <2> QED BY <1>5, <2>1, <2>4
<1>7. ASSUME NEW i \in 1..Len(made)
      PROVE  /\ made'[i].last = made[i].last /\ made'[i].rate = made[i].rate
             /\ made'[i].sent >= made[i].sent /\ made'[i].recv >= made[i].recv
  <2>1. made[i] \in Counters
    BY <1>1
  <2>2. CASE i = k
    BY <2>1, <2>2, <1>4, <1>6
  <2>3. CASE i # k
    <3>1. made'[i] = made[i]
      BY <2>3, <1>6
    <3>2. made[i].sent \in Nat /\ made[i].recv \in Nat
      BY <2>1 DEF Counters
    <3> QED BY <3>1, <3>2
  <2> QED BY <2>2, <2>3
<1>8. \A i \in (Len(made) + 1)..Len(made') : made'[i] = Zero
  BY <1>1, <1>6
<1>9. OnePoll' /\ Covered' /\ Measured'
  BY <1>2, <1>6, <1>7, <1>8, <1>1, Grown
<1>10. StatisticsTypeOK'
  <2>1. adding' \in [Streams -> [to : Nat, what : {"sent", "recv"}]]
    BY <1>1, <1>2, <1>3
  <2>2. \A t \in Streams : adding'[t].to <= Len(made)
    <3>1. \A t \in Streams : adding'[t] = IF t = s THEN NoAdd ELSE adding[t]
      BY <1>1, <1>2
    <3>2. \A t \in Streams : adding[t].to <= Len(made)
      BY DEF RateInv, StatisticsTypeOK
    <3> QED BY <3>1, <3>2, <1>1, <1>3
  <2> QED BY <2>1, <2>2, <1>2, <1>6 DEF RateInv, StatisticsTypeOK
<1> QED BY <1>9, <1>10 DEF RateInv

LEMMA ResetInv == ASSUME RateInv, Reset PROVE RateInv'
<1>1. StatisticsTypeOK'
  BY DEF RateInv, StatisticsTypeOK, Reset
<1>2. OnePoll' /\ Covered' /\ Measured'
  BY DEF RateInv, Reset, OnePoll, Covered, Measured, Total
<1> QED BY <1>1, <1>2 DEF RateInv
-----------------------------------------------------------------------------
LEMMA SampledIsPolling ==
    ASSUME RateInv, NEW p \in Pollers
    PROVE  Sampled(p) \in PollState /\ Sampled(p).at \in {"idle", "collect"}
BY DEF Sampled, NoPoll, PollState

LEMMA PollInv == ASSUME RateInv, NEW p \in Pollers, Poll(p), ~Sample(p) PROVE RateInv'
<1>1. /\ poll \in [Pollers -> PollState] /\ poll[p] \in PollState
      /\ made \in Seq(Counters) /\ byID \in 0..Len(made)
      /\ poll[p].at \in {"sent", "recv", "update"} => poll[p].on \in 1..Len(made)
  BY DEF RateInv, StatisticsTypeOK
<1>2. poll[p].at # "idle" => \A q \in Pollers : poll[q].at # "idle" => q = p
  BY DEF RateInv, OnePoll
<1>3. CASE Status(p)
  <2> DEFINE next == [poll[p] EXCEPT !.at = "collect"]
  <2>1. next \in PollState /\ next.at = "collect"
    BY <1>1 DEF PollState
  <2>2. poll' = [poll EXCEPT ![p] = next] /\ UNCHANGED <<byID, made, moving>>
    BY <1>3 DEF Status
  <2>3. \A q \in Pollers : poll[q].at # "idle" => q = p
    BY <1>3 DEF Status
  <2> HIDE DEF next
  <2> QED BY <2>1, <2>2, <2>3, PollStep
<1>4. CASE Collect(p) /\ byID # 0
  <2> DEFINE next == [poll[p] EXCEPT !.at = "sent", !.on = byID]
  <2>3. byID \in 1..Len(made) /\ byID \in Nat
    BY <1>1, <1>4
  <2>1. next \in PollState /\ next.at = "sent" /\ next.on = byID
    BY <1>1, <2>3 DEF PollState
  <2>2. poll' = [poll EXCEPT ![p] = next] /\ UNCHANGED <<byID, made, moving>> /\ poll[p].at # "idle"
    BY <1>4 DEF Collect
  <2> HIDE DEF next
  <2> QED BY <2>1, <2>2, <2>3, <1>2, PollStep
<1>5. CASE (Collect(p) /\ byID = 0) \/ TooSoon(p)
  <2>1. Sampled(p) \in PollState /\ Sampled(p).at \in {"idle", "collect"}
    BY SampledIsPolling
  <2>2. poll' = [poll EXCEPT ![p] = Sampled(p)] /\ UNCHANGED <<byID, made, moving>> /\ poll[p].at # "idle"
    BY <1>5 DEF Collect, TooSoon
  <2> QED BY <2>1, <2>2, <1>2, PollStep
<1>6. CASE LoadSent(p)
  <2> DEFINE k == poll[p].on
             next == [poll[p] EXCEPT !.at = "recv", !.total = made[k].sent]
  <2>1. poll[p].at = "sent" /\ UNCHANGED <<byID, made, moving>>
        /\ poll' = [poll EXCEPT ![p].at = "recv", ![p].total = made[k].sent]
    BY <1>6 DEF LoadSent
  <2>2. k \in 1..Len(made) /\ made[k] \in Counters
    BY <1>1, <2>1
  <2>3. made[k].sent \in Nat /\ made[k].last <= made[k].sent + made[k].recv
    BY <2>2 DEF RateInv, Covered, Total, Counters
  <2>4. next \in PollState /\ next.at = "recv" /\ next.on = k /\ next.total = made[k].sent
    BY <1>1, <2>3 DEF PollState
  <2>5. poll' = [poll EXCEPT ![p] = next]
    BY <2>1, <1>1
  <2> HIDE DEF next, k
  <2>6. made[next.on].sent \in Nat /\ next.total <= made[next.on].sent
        /\ made[next.on].last <= next.total + made[next.on].recv
    BY <2>3, <2>4
  <2>7. next.on \in 1..Len(made) /\ next.at # "update" /\ poll[p].at # "idle"
    BY <2>1, <2>2, <2>4
  <2> QED BY <2>1, <2>4, <2>5, <2>6, <2>7, <1>2, PollStep
<1>7. CASE LoadRecv(p)
  <2> DEFINE k == poll[p].on
             next == [poll[p] EXCEPT !.at = "update", !.total = @ + made[k].recv]
  <2>1. poll[p].at = "recv" /\ UNCHANGED <<byID, made, moving>>
        /\ poll' = [poll EXCEPT ![p].at = "update", ![p].total = @ + made[k].recv]
    BY <1>7 DEF LoadRecv
  <2>2. k \in 1..Len(made) /\ made[k] \in Counters /\ poll[p].total \in Nat
    BY <1>1, <2>1 DEF PollState
  <2>3. /\ made[k].sent \in Nat /\ made[k].recv \in Nat /\ poll[p].total <= made[k].sent
        /\ made[k].last <= poll[p].total + made[k].recv
    BY <2>1, <2>2 DEF RateInv, Measured, Counters
  <2>7. poll[p].total + made[k].recv \in Nat
    BY <2>2, <2>3
  <2>4. next \in PollState /\ next.at = "update" /\ next.on = k /\ next.total = poll[p].total + made[k].recv
    <3> DEFINE sum == poll[p].total + made[k].recv
    <3>1. next = [poll[p] EXCEPT !.at = "update", !.total = sum]
      OBVIOUS
    <3> HIDE DEF next, k
    <3>2. sum \in Nat
      BY <2>7
    <3> HIDE DEF sum
    <3>3. next \in PollState /\ next.at = "update" /\ next.on = poll[p].on /\ next.total = sum
      BY <1>1, <3>1, <3>2 DEF PollState
    <3> QED BY <3>3 DEF sum, k
  <2>5. poll' = [poll EXCEPT ![p] = next]
    BY <2>1, <1>1
  <2>6. next.total <= made[k].sent + made[k].recv
    BY <2>2, <2>3, <2>4
  <2> HIDE DEF next, k
  <2> QED BY <2>1, <2>2, <2>3, <2>4, <2>5, <2>6, <1>2, PollStep
<1> QED BY <1>3, <1>4, <1>5, <1>6, <1>7 DEF Poll

LEMMA SampleInv == ASSUME RateInv, NEW p \in Pollers, Sample(p) PROVE RateInv'
<1> DEFINE k == poll[p].on
<1>1. PICK dt \in 1..MaxTime :
          made' = [made EXCEPT ![k] = [made[k] EXCEPT
              !.last = poll[p].total,
              !.rate = Smooth(made[k].rate, (((poll[p].total - made[k].last) % Wrap) + dt - 1) \div dt)]]
  BY DEF Sample
<1>2. /\ poll[p].at = "update" /\ poll' = [poll EXCEPT ![p] = Sampled(p)]
      /\ UNCHANGED <<byID, moving>>
  BY DEF Sample
<1>3. /\ k \in 1..Len(made) /\ poll[p].total \in Nat /\ poll \in [Pollers -> PollState]
      /\ made \in Seq(Counters) /\ made[k] \in Counters /\ Len(made) \in Nat
  BY <1>2 DEF RateInv, StatisticsTypeOK, PollState
<1> DEFINE t == made[k].sent + made[k].recv
           r == Smooth(made[k].rate, (((poll[p].total - made[k].last) % Wrap) + dt - 1) \div dt)
           c == [made[k] EXCEPT !.last = poll[p].total, !.rate = r]
<1>4. /\ poll[p].total <= t /\ made[k].last <= poll[p].total
      /\ made[k].rate <= t
  BY <1>2, <1>3 DEF RateInv, Measured, Covered, Total
<1>5. /\ made[k].sent \in Nat /\ made[k].recv \in Nat /\ made[k].last \in Nat
      /\ made[k].rate \in Nat /\ t \in Nat
  <2>1. /\ made[k].sent \in Nat /\ made[k].recv \in Nat /\ made[k].last \in Nat
        /\ made[k].rate \in Nat
    <3> HIDE DEF k
    <3> QED BY <1>3 DEF Counters
  <2> QED BY <2>1
<1>6. r \in Nat /\ r <= t
  <2>1. made[k].last \in 0..poll[p].total /\ made[k].rate \in 0..t
    BY <1>3, <1>4, <1>5
  <2> HIDE DEF t, k
  <2> QED BY <2>1, <1>3, <1>4, <1>5, SamplesBounded
<1>7. made' = [made EXCEPT ![k] = c]
  BY <1>1
<1> HIDE DEF r
<1>8. /\ c \in Counters /\ c.last = poll[p].total /\ c.rate = r
      /\ c.sent = made[k].sent /\ c.recv = made[k].recv
  BY <1>3, <1>6 DEF Counters
<1> HIDE DEF c
<1>9. /\ made' \in Seq(Counters) /\ Len(made') = Len(made)
      /\ made'[k] = c /\ \A i \in 1..Len(made) : i # k => made'[i] = made[i]
  BY <1>3, <1>7, <1>8
<1>10. Sampled(p) \in PollState /\ Sampled(p).at \in {"idle", "collect"}
  BY SampledIsPolling
<1>11. /\ poll' \in [Pollers -> PollState] /\ poll'[p] = Sampled(p)
       /\ \A q \in Pollers \ {p} : poll'[q] = poll[q] /\ poll[q].at = "idle"
  BY <1>2, <1>3, <1>10 DEF RateInv, OnePoll
<1>12. OnePoll' /\ Measured'
  BY <1>10, <1>11 DEF OnePoll, Measured
<1>13. StatisticsTypeOK'
  BY <1>2, <1>9, <1>10, <1>11 DEF RateInv, StatisticsTypeOK, moving
<1>14. ASSUME NEW i \in 1..Len(made)
       PROVE  made'[i].last <= Total(i)' /\ made'[i].rate <= Total(i)'
  <2>1. CASE i = k
    BY <2>1, <1>4, <1>5, <1>6, <1>8, <1>9 DEF Total
  <2>2. CASE i # k
    <3>1. made'[i] = made[i]
      BY <2>2, <1>9
    <3> QED BY <3>1 DEF RateInv, Covered, Total
  <2> QED BY <2>1, <2>2
<1>15. Covered'
  BY <1>9, <1>14 DEF Covered
<1> QED BY <1>12, <1>13, <1>15 DEF RateInv
-----------------------------------------------------------------------------
LEMMA RateInvStep == RateInv /\ [StatisticsNext]_statisticsVars => RateInv'
<1> SUFFICES ASSUME RateInv, [StatisticsNext]_statisticsVars PROVE RateInv'
  OBVIOUS
<1>1. ASSUME NEW s \in Streams, NEW what \in {"sent", "recv"}, Find(s, what) PROVE RateInv'
  BY <1>1, FindInv
<1>2. ASSUME NEW s \in Streams, Add(s) PROVE RateInv'
  BY <1>2, AddInv
<1>3. CASE Read
  BY <1>3, ReadInv
<1>4. CASE Reset
  BY <1>4, ResetInv
<1>5. ASSUME NEW p \in Pollers, Poll(p) PROVE RateInv'
  BY <1>5, PollInv, SampleInv
<1>6. CASE UNCHANGED statisticsVars
  <2>1. StatisticsTypeOK'
    BY <1>6 DEF RateInv, StatisticsTypeOK, statisticsVars, moving
  <2>2. OnePoll' /\ Covered' /\ Measured'
    BY <1>6 DEF RateInv, OnePoll, Covered, Measured, Total, statisticsVars
  <2> QED BY <2>1, <2>2 DEF RateInv
<1> QED BY <1>1, <1>2, <1>3, <1>4, <1>5, <1>6 DEF StatisticsNext

LEMMA RateInvHolds == StatisticsSpec => []RateInv
BY RateInvInit, RateInvStep, PTL DEF StatisticsSpec

(* Whatever streams, pollers and Resets do in whatever order, no rate is   *)
(* above what has been moved.                                              *)
THEOREM RatesBounded == StatisticsSpec => []RateWithinTraffic
<1>1. RateInv => RateWithinTraffic
  BY DEF RateInv, Covered, RateWithinTraffic, StatisticsTypeOK
<1> QED BY <1>1, RateInvHolds, PTL
-----------------------------------------------------------------------------
(* Streams on the way to the counters k. *)
Towards(k) == {s \in Streams : adding[s].to = k}

LEMMA CountsNothing == \A k : IsFiniteSet(Towards(k)) /\ Cardinality(Towards(k)) \in Nat
<1> TAKE k
<1>1. Towards(k) \in SUBSET Streams
  BY DEF Towards
<1> QED BY <1>1, StatisticsAssumption, FS_Subset, FS_CardinalityType

LEMMA CountedInit == StatisticsInit => CountedOnce
BY DEF StatisticsInit, CountedOnce

LEMMA ReadCounts == ASSUME RateInv, CountedOnce, Read PROVE CountedOnce'
<1>1. Get /\ adding' = adding /\ since' = since
  BY DEF Read, moving
<1>2. CASE byID # 0
  <2>1. byID' = byID /\ made' = made
    BY <1>1, <1>2, GetMakes
  <2> QED BY <2>1, <1>1 DEF CountedOnce, Total
<1>3. CASE byID = 0
  <2>1. Len(made) \in Nat /\ byID' = Len(made) + 1 /\ byID' \in 1..Len(made') /\ Len(made') \in Nat
        /\ made'[byID'] = Zero
    <3>1. /\ Len(made) \in Nat /\ byID' = Len(made) + 1 /\ byID' \in 1..Len(made')
          /\ made' \in Seq(Counters) /\ \A k \in (Len(made) + 1)..Len(made') : made'[k] = Zero
      BY <1>1, <1>3, GetMakes DEF RateInv, StatisticsTypeOK
    <3>2. byID' \in (Len(made) + 1)..Len(made')
      BY <3>1
    <3> QED BY <3>1, <3>2
  <2>2. {s \in Streams : adding[s].to = byID'} = {}
    BY <2>1 DEF RateInv, StatisticsTypeOK
  <2>3. Total(byID)' = 0
    BY <2>1 DEF Total, Zero
  <2>4. Cardinality({s \in Streams : adding[s].to = byID}') = 0
    BY <2>2, <1>1, FS_EmptySet
  <2>5. since = 0 /\ byID' # 0
    BY <1>3, <2>1 DEF CountedOnce
  <2> QED BY <2>3, <2>4, <2>5, <1>1 DEF CountedOnce
<1> QED BY <1>2, <1>3

LEMMA FindCounts ==
    ASSUME RateInv, CountedOnce, NEW s \in Streams, NEW what \in {"sent", "recv"}, Find(s, what)
    PROVE  CountedOnce'
<1>1. /\ Get /\ adding' = [adding EXCEPT ![s] = [to |-> byID', what |-> what]]
      /\ since' = since + 1 /\ adding[s] = NoAdd
  BY DEF Find
<1>2. /\ adding \in [Streams -> [to : Nat, what : {"sent", "recv"}]]
      /\ Len(made) \in Nat /\ \A t \in Streams : adding[t].to <= Len(made)
  BY DEF RateInv, StatisticsTypeOK
<1>3. \A t \in Streams : adding'[t].to = IF t = s THEN byID' ELSE adding[t].to
  BY <1>1, <1>2
<1>4. Towards(byID)' = Towards(byID') \cup {s}
  BY <1>3 DEF Towards
<1>5. CASE byID # 0
  <2>1. byID' = byID /\ made' = made
    BY <1>1, <1>5, GetMakes
  <2>2. s \notin Towards(byID)
    BY <1>1, <1>5 DEF Towards, NoAdd
  <2>3. Cardinality(Towards(byID)') = Cardinality(Towards(byID)) + 1
    BY <1>4, <2>1, <2>2, CountsNothing, FS_AddElement
  <2>4. since = Total(byID) + Cardinality(Towards(byID))
    BY <1>5 DEF CountedOnce, Towards
  <2>5. Total(byID)' = Total(byID) /\ Total(byID) \in Nat
    <3>1. byID \in 1..Len(made) /\ made[byID] \in Counters
      BY <1>5 DEF RateInv, StatisticsTypeOK
    <3> QED BY <3>1, <2>1 DEF Total, Counters
  <2>6. since' = Total(byID)' + Cardinality(Towards(byID)')
    <3>1. Cardinality(Towards(byID)) \in Nat
      BY CountsNothing
    <3> QED BY <3>1, <2>3, <2>4, <2>5, <1>1
  <2> QED BY <2>1, <2>6, <1>5 DEF CountedOnce, Towards
<1>6. CASE byID = 0
  <2>1. /\ byID' = Len(made) + 1 /\ byID' # 0 /\ made'[byID'] = Zero
    <3>1. /\ byID' = Len(made) + 1 /\ byID' \in 1..Len(made')
          /\ made' \in Seq(Counters) /\ \A k \in (Len(made) + 1)..Len(made') : made'[k] = Zero
      BY <1>1, <1>6, GetMakes
    <3>2. byID' \in (Len(made) + 1)..Len(made')
      BY <3>1, <1>2
    <3> QED BY <3>1, <3>2, <1>2
  <2>2. Towards(byID') = {}
    BY <2>1, <1>2 DEF Towards
  <2>3. Cardinality(Towards(byID)') = 1
    BY <1>4, <2>2, FS_EmptySet, FS_AddElement
  <2>4. Total(byID)' = 0
    BY <2>1 DEF Total, Zero
  <2>5. since' = 1
    BY <1>1, <1>6 DEF CountedOnce
  <2> QED BY <2>1, <2>3, <2>4, <2>5 DEF CountedOnce, Towards
<1> QED BY <1>5, <1>6

LEMMA AddCounts ==
    ASSUME RateInv, CountedOnce, NEW s \in Streams, Add(s)
    PROVE  CountedOnce'
<1> DEFINE k == adding[s].to
           w == adding[s].what
<1>1. /\ made \in Seq(Counters) /\ byID \in 0..Len(made) /\ w \in {"sent", "recv"}
      /\ adding \in [Streams -> [to : Nat, what : {"sent", "recv"}]]
  BY DEF RateInv, StatisticsTypeOK
<1>2. /\ made' = [made EXCEPT ![k] = [made[k] EXCEPT ![w] = @ + 1]]
      /\ adding' = [adding EXCEPT ![s] = NoAdd]
      /\ byID' = byID /\ since' = since
  BY DEF Add
<1>3. \A t \in Streams : adding'[t].to = IF t = s THEN 0 ELSE adding[t].to
  BY <1>1, <1>2 DEF NoAdd
<1>4. CASE byID = 0
  BY <1>2, <1>4 DEF CountedOnce
<1>5. CASE byID # 0
  <2>1. byID \in DOMAIN made /\ made[byID] \in Counters
    BY <1>1, <1>5
  <2>2. since = Total(byID) + Cardinality(Towards(byID))
    BY <1>5 DEF CountedOnce, Towards
  <2>3. Total(byID) \in Nat /\ Cardinality(Towards(byID)) \in Nat
    BY <2>1, CountsNothing DEF Total, Counters
  <2>4. CASE k = byID
    <3>1. s \in Towards(byID)
      BY <2>4 DEF Towards
    <3>2. Towards(byID)' = Towards(byID) \ {s}
      BY <1>2, <1>3, <1>5 DEF Towards
    <3>3. Cardinality(Towards(byID)') = Cardinality(Towards(byID)) - 1
      BY <3>1, <3>2, CountsNothing, FS_RemoveElement
    <3>4. Total(byID)' = Total(byID) + 1
      <4>1. made'[byID] = [made[byID] EXCEPT ![w] = @ + 1]
        BY <1>2, <2>1, <2>4
      <4> HIDE DEF w, k
      <4>2. CASE w = "sent"
        BY <4>1, <4>2, <2>1, <1>2 DEF Total, Counters
      <4>3. CASE w = "recv"
        BY <4>1, <4>3, <2>1, <1>2 DEF Total, Counters
      <4> QED BY <4>2, <4>3, <1>1
    <3>5. since' = Total(byID)' + Cardinality(Towards(byID)')
      BY <1>2, <2>2, <2>3, <3>3, <3>4
    <3> QED BY <3>5, <1>2, <1>5 DEF CountedOnce, Towards
  <2>5. CASE k # byID
    <3>1. Towards(byID)' = Towards(byID)
      BY <1>2, <1>3, <1>5, <2>5 DEF Towards
    <3>2. Total(byID)' = Total(byID)
      <4>1. made'[byID] = made[byID]
        BY <1>2, <2>1, <2>5
      <4> QED BY <4>1, <1>2 DEF Total
    <3>3. since' = Total(byID)' + Cardinality(Towards(byID)')
      BY <3>1, <3>2, <1>2, <2>2, SMTT(30)
    <3> QED BY <3>3, <1>2, <1>5 DEF CountedOnce, Towards
  <2> QED BY <2>4, <2>5
<1> QED BY <1>4, <1>5

LEMMA PollCounts == ASSUME RateInv, CountedOnce, NEW p \in Pollers, Poll(p) PROVE CountedOnce'
<1>1. byID' = byID /\ adding' = adding /\ since' = since
  BY DEF Poll, Status, Collect, LoadSent, LoadRecv, TooSoon, Sample, moving
<1>2. CASE byID = 0
  BY <1>1, <1>2 DEF CountedOnce
<1>3. CASE byID # 0
  <2>1. byID \in DOMAIN made /\ made[byID] \in Counters
    BY <1>3 DEF RateInv, StatisticsTypeOK
  <2>2. made'[byID].sent = made[byID].sent /\ made'[byID].recv = made[byID].recv
    <3>1. CASE Sample(p)
      <4>1. PICK total, rate : made' = [made EXCEPT ![poll[p].on] =
                                  [made[poll[p].on] EXCEPT !.last = total, !.rate = rate]]
        BY <3>1 DEF Sample
      <4> QED BY <4>1, <2>1 DEF Counters
    <3>2. CASE ~Sample(p)
      <4>1. made' = made
        BY <3>2 DEF Poll, Status, Collect, LoadSent, LoadRecv, TooSoon
      <4> QED BY <4>1
    <3> QED BY <3>1, <3>2
  <2>3. Total(byID)' = Total(byID)
    BY <2>2, <1>1 DEF Total
  <2> QED BY <2>3, <1>1 DEF CountedOnce
<1> QED BY <1>2, <1>3

(* However streams, pollers and Resets interleave, each byte looked up for *)
(* since the last Reset is in the counters in use once or on its way.      *)
THEOREM BytesCountedOnce == StatisticsSpec => []CountedOnce
<1>1. RateInv /\ CountedOnce /\ [StatisticsNext]_statisticsVars => CountedOnce'
  <2> SUFFICES ASSUME RateInv, CountedOnce, [StatisticsNext]_statisticsVars PROVE CountedOnce'
    OBVIOUS
  <2>1. ASSUME NEW s \in Streams, NEW what \in {"sent", "recv"}, Find(s, what) PROVE CountedOnce'
    BY <2>1, FindCounts
  <2>2. ASSUME NEW s \in Streams, Add(s) PROVE CountedOnce'
    BY <2>2, AddCounts
  <2>3. CASE Read
    BY <2>3, ReadCounts
  <2>4. CASE Reset
    BY <2>4 DEF Reset, CountedOnce
  <2>5. ASSUME NEW p \in Pollers, Poll(p) PROVE CountedOnce'
    BY <2>5, PollCounts
  <2>6. CASE UNCHANGED statisticsVars
    BY <2>6 DEF statisticsVars, moving, CountedOnce, Total
  <2> QED BY <2>1, <2>2, <2>3, <2>4, <2>5, <2>6 DEF StatisticsNext
<1> QED BY <1>1, CountedInit, RateInvHolds, PTL DEF StatisticsSpec

-----------------------------------------------------------------------------
(***************************************************************************)
(* The mutexes: nobody waits in a circle, whatever the number of requests  *)
(* and goroutines, for each takes the mutexes in the order of their ranks. *)
(***************************************************************************)
Rank == [m \in Mutexes |-> IF m = "app" THEN 1
                           ELSE IF m \in {"system", "server", "scheduler"} THEN 2
                           ELSE IF m = "registry" THEN 3 ELSE 4]

Steps == {Lock(m) : m \in Mutexes} \cup {Unlock(m) : m \in Mutexes} \cup {Wait}

(* The mutexes that are held when the steps of p from the k-th on are left: *)
(* those given back before they are taken again.                            *)
HeldAt(p, k) ==
    {m \in Mutexes : \E i \in k..Len(p) : p[i] = Unlock(m) /\ \A j \in k..(i - 1) : p[j] # Lock(m)}

(* What is taken is not held, ranks above all that is, and will be given   *)
(* back; what is given back is not given back again; and nothing is held   *)
(* while it waits.                                                         *)
Ordered(p) ==
    /\ \A k \in 1..Len(p), m \in Mutexes :
          /\ p[k] = Lock(m) => m \in HeldAt(p, k + 1) /\ \A n \in HeldAt(p, k) : Rank[n] < Rank[m]
          /\ p[k] = Unlock(m) => m \notin HeldAt(p, k + 1)
    /\ \A k \in 1..Len(p) : p[k] = Wait => HeldAt(p, k) = {}

(* Programs that begin with nothing held and take mutexes above a rank;    *)
(* those that go on under a mutex do not wait.                             *)
Disciplined(r) ==
    {p \in Seq(Steps) :
        /\ HeldAt(p, 1) = {} /\ Ordered(p)
        /\ \A k \in 1..Len(p), m \in Mutexes : p[k] = Lock(m) => r < Rank[m]
        /\ \A k \in 1..Len(p) : p[k] = Wait => r = 0}

(* Each actor holds what its program has still to give back.               *)
LocksInv ==
    /\ holder \in [Mutexes -> Actors \cup {None}]
    /\ rest \in [Actors -> Seq(Steps)]
    /\ \A a \in Actors : Ordered(rest[a])
    /\ \A a \in Actors, m \in Mutexes : holder[m] = a <=> m \in HeldAt(rest[a], 1)
-----------------------------------------------------------------------------
LEMMA RankRange == \A m \in Mutexes : Rank[m] \in 1..4
BY DEF Rank, Mutexes

LEMMA StepsApart == \A m, n : Lock(m) # Unlock(n) /\ (Lock(m) = Lock(n) => m = n)
                              /\ (Unlock(m) = Unlock(n) => m = n)
                              /\ Lock(m) # Wait /\ Unlock(m) # Wait
<1> TAKE m, n
<1>1. /\ Lock(m).op = "lock" /\ Unlock(n).op = "unlock" /\ "lock" # "unlock"
      /\ Unlock(m).op = "unlock" /\ Wait.op = "wait"
  BY DEF Lock, Unlock, Wait
<1>2. Lock(m).on = m /\ Lock(n).on = n /\ Unlock(m).on = m /\ Unlock(n).on = n
  BY DEF Lock, Unlock
<1> QED BY <1>1, <1>2

LEMMA Nothing == \A r \in Nat : <<>> \in Disciplined(r)
BY DEF Disciplined, HeldAt, Ordered

(* One disciplined program after another. *)
LEMMA Then ==
    ASSUME NEW r \in Nat, NEW p \in Disciplined(r), NEW q \in Disciplined(r)
    PROVE  p \o q \in Disciplined(r)
<1> DEFINE s == p \o q
<1>1. p \in Seq(Steps) /\ q \in Seq(Steps) /\ s \in Seq(Steps) /\ Len(s) = Len(p) + Len(q)
  BY DEF Disciplined
<1>2. /\ \A i \in 1..Len(p) : s[i] = p[i]
      /\ \A i \in 1..Len(q) : s[Len(p) + i] = q[i]
      /\ \A i \in (Len(p) + 1)..Len(s) : i - Len(p) \in 1..Len(q) /\ s[i] = q[i - Len(p)]
  BY <1>1
<1>3. Len(p) \in Nat /\ Len(q) \in Nat
  BY <1>1
<1> HIDE DEF s
<1>4. ASSUME NEW k \in 1..(Len(p) + 1)
      PROVE  HeldAt(s, k) = HeldAt(p, k)
  <2>1. ASSUME NEW m \in HeldAt(p, k) PROVE m \in HeldAt(s, k)
    <3>1. PICK i \in k..Len(p) : p[i] = Unlock(m) /\ \A j \in k..(i - 1) : p[j] # Lock(m)
      BY DEF HeldAt
    <3>2. i \in 1..Len(p) /\ i \in k..Len(s) /\ s[i] = Unlock(m)
      BY <3>1, <1>1, <1>2, <1>3
    <3>3. ASSUME NEW j \in k..(i - 1) PROVE s[j] # Lock(m)
      <4>1. j \in 1..Len(p)
        BY <3>2, <1>3
      <4> QED BY <4>1, <3>1, <1>2
    <3> QED BY <3>2, <3>3, <2>1 DEF HeldAt
  <2>2. ASSUME NEW m \in HeldAt(s, k) PROVE m \in HeldAt(p, k)
    <3>1. PICK i \in k..Len(s) : s[i] = Unlock(m) /\ \A j \in k..(i - 1) : s[j] # Lock(m)
      BY DEF HeldAt
    <3>2. CASE i <= Len(p)
      <4>1. i \in 1..Len(p) /\ i \in k..Len(p) /\ p[i] = Unlock(m)
        BY <3>1, <3>2, <1>2, <1>3
      <4>2. ASSUME NEW j \in k..(i - 1) PROVE p[j] # Lock(m)
        <5>1. j \in 1..Len(p)
          BY <4>1, <1>3
        <5> QED BY <5>1, <3>1, <1>2
      <4> QED BY <4>1, <4>2, <2>2 DEF HeldAt
    <3>3. CASE i > Len(p)
      <4>0. i \in (Len(p) + 1)..Len(s)
        BY <3>1, <3>3, <1>1, <1>3
      <4>1. i - Len(p) \in 1..Len(q) /\ q[i - Len(p)] = Unlock(m)
        BY <4>0, <3>1, <1>2
      <4>2. ASSUME NEW j \in 1..(i - Len(p) - 1) PROVE q[j] # Lock(m)
        <5>1. j \in 1..Len(q) /\ Len(p) + j \in k..(i - 1)
          BY <4>1, <3>1, <1>1, <1>3
        <5> QED BY <5>1, <3>1, <1>2
      <4>3. m \in HeldAt(q, 1)
        BY <4>1, <4>2, <2>2 DEF HeldAt
      <4> QED BY <4>3 DEF Disciplined
    <3> QED BY <3>1, <3>2, <3>3, <1>1, <1>3
  <2> QED BY <2>1, <2>2
<1>5. ASSUME NEW k \in 1..(Len(q) + 1)
      PROVE  HeldAt(s, Len(p) + k) = HeldAt(q, k)
  <2>1. ASSUME NEW m \in HeldAt(q, k) PROVE m \in HeldAt(s, Len(p) + k)
    <3>1. PICK i \in k..Len(q) : q[i] = Unlock(m) /\ \A j \in k..(i - 1) : q[j] # Lock(m)
      BY DEF HeldAt
    <3>2. Len(p) + i \in (Len(p) + k)..Len(s) /\ s[Len(p) + i] = Unlock(m)
      BY <3>1, <1>1, <1>2, <1>3
    <3>3. ASSUME NEW j \in (Len(p) + k)..(Len(p) + i - 1) PROVE s[j] # Lock(m)
      <4>1. j \in (Len(p) + 1)..Len(s) /\ j - Len(p) \in k..(i - 1)
        BY <3>1, <1>1, <1>3
      <4> QED BY <4>1, <3>1, <1>2
    <3> QED BY <3>2, <3>3, <2>1 DEF HeldAt
  <2>2. ASSUME NEW m \in HeldAt(s, Len(p) + k) PROVE m \in HeldAt(q, k)
    <3>1. PICK i \in (Len(p) + k)..Len(s) :
              s[i] = Unlock(m) /\ \A j \in (Len(p) + k)..(i - 1) : s[j] # Lock(m)
      BY DEF HeldAt
    <3>0. i \in (Len(p) + 1)..Len(s) /\ i - Len(p) \in k..Len(q)
      BY <3>1, <1>1, <1>3
    <3>2. i - Len(p) \in k..Len(q) /\ q[i - Len(p)] = Unlock(m)
      BY <3>0, <3>1, <1>2
    <3>3. ASSUME NEW j \in k..(i - Len(p) - 1) PROVE q[j] # Lock(m)
      <4>1. j \in 1..Len(q) /\ Len(p) + j \in (Len(p) + k)..(i - 1)
        BY <3>2, <1>3
      <4> QED BY <4>1, <3>1, <1>2
    <3> QED BY <3>2, <3>3, <2>2 DEF HeldAt
  <2> QED BY <2>1, <2>2
<1>6. HeldAt(s, 1) = {}
  BY <1>4, <1>3 DEF Disciplined
<1>7. ASSUME NEW k \in 1..Len(s), NEW m \in Mutexes
      PROVE  /\ s[k] = Lock(m) => m \in HeldAt(s, k + 1) /\ \A n \in HeldAt(s, k) : Rank[n] < Rank[m]
             /\ s[k] = Unlock(m) => m \notin HeldAt(s, k + 1)
             /\ s[k] = Lock(m) => r < Rank[m]
  <2>1. CASE k <= Len(p)
    <3>1. k \in 1..Len(p) /\ k + 1 \in 1..(Len(p) + 1) /\ k \in 1..(Len(p) + 1)
      BY <2>1, <1>3
    <3>2. s[k] = p[k] /\ HeldAt(s, k) = HeldAt(p, k) /\ HeldAt(s, k + 1) = HeldAt(p, k + 1)
      BY <3>1, <1>2, <1>4
    <3> QED BY <3>1, <3>2 DEF Disciplined, Ordered
  <2>2. CASE k > Len(p)
    <3> DEFINE l == k - Len(p)
    <3>1. l \in 1..Len(q) /\ l + 1 \in 1..(Len(q) + 1) /\ l \in 1..(Len(q) + 1) /\ k = Len(p) + l
      BY <2>2, <1>1, <1>3
    <3>2. k + 1 = Len(p) + (l + 1)
      BY <3>1, <1>3
    <3> HIDE DEF l
    <3>3. s[k] = q[l] /\ HeldAt(s, k) = HeldAt(q, l) /\ HeldAt(s, k + 1) = HeldAt(q, l + 1)
      BY <3>1, <3>2, <1>2, <1>5
    <3> QED BY <3>1, <3>3 DEF Disciplined, Ordered
  <2> QED BY <2>1, <2>2, <1>1, <1>3
<1>8. ASSUME NEW k \in 1..Len(s), s[k] = Wait PROVE HeldAt(s, k) = {} /\ r = 0
  <2>1. CASE k <= Len(p)
    <3>1. k \in 1..Len(p) /\ k \in 1..(Len(p) + 1)
      BY <2>1, <1>3
    <3> QED BY <3>1, <1>2, <1>4, <1>8 DEF Disciplined, Ordered
  <2>2. CASE k > Len(p)
    <3>1. PICK l \in 1..Len(q) : k = Len(p) + l /\ l \in 1..(Len(q) + 1)
      <4>1. k - Len(p) \in 1..Len(q) /\ k = Len(p) + (k - Len(p)) /\ k - Len(p) \in 1..(Len(q) + 1)
        BY <2>2, <1>1, <1>3
      <4> QED BY <4>1
    <3> QED BY <3>1, <1>2, <1>5, <1>8 DEF Disciplined, Ordered
  <2> QED BY <2>1, <2>2, <1>1, <1>3
<1>9. Ordered(s) /\ \A k \in 1..Len(s), m \in Mutexes : s[k] = Lock(m) => r < Rank[m]
  BY <1>7, <1>8 DEF Ordered
<1> QED BY <1>1, <1>6, <1>8, <1>9 DEF Disciplined, s

(* A disciplined program with a lower mutex held around it. *)
LEMMA Within ==
    ASSUME NEW r \in Nat, NEW m \in Mutexes, r < Rank[m], NEW p \in Disciplined(Rank[m])
    PROVE  With(m, p) \in Disciplined(r)
<1> DEFINE s == With(m, p)
           l == Len(p)
<1>1. p \in Seq(Steps) /\ l \in Nat /\ Rank[m] \in Nat
  BY RankRange DEF Disciplined
<1>2. Lock(m) \in Steps /\ Unlock(m) \in Steps
  BY DEF Steps
<1>3. /\ s \in Seq(Steps) /\ Len(s) = l + 2
      /\ s[1] = Lock(m) /\ s[l + 2] = Unlock(m)
      /\ \A i \in 1..l : s[i + 1] = p[i]
      /\ \A i \in 2..(l + 1) : i - 1 \in 1..l /\ s[i] = p[i - 1]
  <2> DEFINE t == <<Lock(m)>> \o p
  <2>1. t \in Seq(Steps) /\ Len(t) = l + 1 /\ t[1] = Lock(m) /\ \A i \in 1..l : t[i + 1] = p[i]
    BY <1>1, <1>2
  <2>2. s = t \o <<Unlock(m)>>
    BY DEF With
  <2> HIDE DEF s, t
  <2>3. s \in Seq(Steps) /\ Len(s) = l + 2 /\ s[l + 2] = Unlock(m) /\ \A i \in 1..(l + 1) : s[i] = t[i]
    BY <2>1, <2>2, <1>1, <1>2
  <2>4. \A i \in 2..(l + 1) : i - 1 \in 1..l /\ (i - 1) + 1 = i
    BY <1>1
  <2>5. \A i \in 1..l : i + 1 \in 1..(l + 1)
    BY <1>1
  <2>6. \A i \in 1..l : s[i + 1] = p[i]
    BY <2>1, <2>3, <2>5
  <2> QED BY <2>1, <2>3, <2>4, <2>6, <1>1
<1> HIDE DEF s, l
<1>4. \A i \in 1..l : p[i] # Lock(m)
  BY <1>1 DEF Disciplined, l
<1>5. \A i \in 1..l : p[i] # Unlock(m)
  <2> SUFFICES ASSUME NEW i \in 1..l, p[i] = Unlock(m) PROVE FALSE
    OBVIOUS
  <2>1. i \in 1..Len(p) /\ \A j \in 1..(i - 1) : p[j] # Lock(m)
    BY <1>1, <1>4 DEF l
  <2>2. m \in HeldAt(p, 1)
    BY <2>1 DEF HeldAt
  <2> QED BY <2>2 DEF Disciplined
<1>6. ASSUME NEW k \in 1..(l + 1)
      PROVE  HeldAt(s, k + 1) = HeldAt(p, k) \cup {m}
  <2>1. m \in HeldAt(s, k + 1)
    <3>1. PICK e \in Int : e = l + 2
      BY <1>1
    <3>2. e \in (k + 1)..Len(s) /\ s[e] = Unlock(m)
      BY <3>1, <1>1, <1>3
    <3>3. ASSUME NEW j \in (k + 1)..(e - 1) PROVE s[j] # Lock(m)
      <4>1. j \in 2..(l + 1)
        BY <3>1, <1>1
      <4> QED BY <4>1, <1>3, <1>4
    <3> QED BY <3>2, <3>3 DEF HeldAt
  <2>2. ASSUME NEW n \in HeldAt(p, k) PROVE n \in HeldAt(s, k + 1)
    <3>1. PICK i \in k..Len(p) : p[i] = Unlock(n) /\ \A j \in k..(i - 1) : p[j] # Lock(n)
      BY DEF HeldAt
    <3>2. i \in 1..l /\ i + 1 \in (k + 1)..Len(s) /\ s[i + 1] = Unlock(n)
      BY <3>1, <1>1, <1>3 DEF l
    <3>3. ASSUME NEW j \in (k + 1)..(i + 1 - 1) PROVE s[j] # Lock(n)
      <4>1. j \in 2..(l + 1) /\ j - 1 \in k..(i - 1)
        BY <3>2, <1>1
      <4> QED BY <4>1, <3>1, <1>3
    <3> QED BY <3>2, <3>3, <2>2 DEF HeldAt
  <2>3. ASSUME NEW n \in HeldAt(s, k + 1), n # m PROVE n \in HeldAt(p, k)
    <3>1. PICK i \in (k + 1)..Len(s) :
              s[i] = Unlock(n) /\ \A j \in (k + 1)..(i - 1) : s[j] # Lock(n)
      BY DEF HeldAt
    <3>2. i # l + 2
      BY <3>1, <2>3, <1>3, StepsApart
    <3>3. i \in 2..(l + 1) /\ i - 1 \in k..Len(p) /\ p[i - 1] = Unlock(n)
      BY <3>1, <3>2, <1>1, <1>3 DEF l
    <3>4. ASSUME NEW j \in k..(i - 1 - 1) PROVE p[j] # Lock(n)
      <4>1. j \in 1..l /\ j + 1 \in (k + 1)..(i - 1)
        BY <3>3, <1>1
      <4> QED BY <4>1, <3>1, <1>3
    <3> QED BY <3>3, <3>4, <2>3 DEF HeldAt
  <2> QED BY <2>1, <2>2, <2>3
<1>7. HeldAt(s, 1) = {}
  <2> SUFFICES ASSUME NEW n \in HeldAt(s, 1) PROVE FALSE
    OBVIOUS
  <2>1. PICK i \in 1..Len(s) : s[i] = Unlock(n) /\ \A j \in 1..(i - 1) : s[j] # Lock(n)
    BY DEF HeldAt
  <2>2. i # 1
    BY <2>1, <1>3, StepsApart
  <2>3. 1 \in 1..(i - 1) /\ i \in 2..Len(s)
    BY <2>1, <2>2, <1>1, <1>3
  <2>4. n # m
    BY <2>1, <2>3, <1>3
  <2>5. ASSUME NEW j \in 2..(i - 1) PROVE s[j] # Lock(n)
    <3>1. j \in 1..(i - 1)
      BY <2>3
    <3> QED BY <3>1, <2>1
  <2>6. n \in HeldAt(s, 2)
    BY <2>1, <2>3, <2>5 DEF HeldAt
  <2>7. HeldAt(s, 2) = HeldAt(p, 1) \cup {m}
    <3>1. 1 \in 1..(l + 1) /\ 1 + 1 = 2
      BY <1>1
    <3> QED BY <3>1, <1>6
  <2> QED BY <2>4, <2>6, <2>7 DEF Disciplined
<1>8. HeldAt(s, l + 3) = {}
  BY <1>1, <1>3 DEF HeldAt
<1>9. ASSUME NEW k \in 1..Len(s), NEW n \in Mutexes
      PROVE  /\ s[k] = Lock(n) => n \in HeldAt(s, k + 1) /\ \A o \in HeldAt(s, k) : Rank[o] < Rank[n]
             /\ s[k] = Unlock(n) => n \notin HeldAt(s, k + 1)
             /\ s[k] = Lock(n) => r < Rank[n]
  <2>1. CASE k = 1
    <3>1. HeldAt(s, k + 1) = HeldAt(p, 1) \cup {m}
      <4>1. 1 \in 1..(l + 1)
        BY <1>1
      <4> QED BY <4>1, <1>6, <2>1
    <3> QED BY <3>1, <2>1, <1>3, <1>7, StepsApart
  <2>2. CASE k = l + 2
    <3>1. k + 1 = l + 3
      BY <2>2, <1>1
    <3> QED BY <3>1, <2>2, <1>3, <1>8, StepsApart
  <2>3. CASE k \in 2..(l + 1)
    <3> DEFINE i == k - 1
    <3>1. i \in 1..Len(p) /\ i \in 1..l /\ i \in 1..(l + 1) /\ i + 1 \in 1..(l + 1) /\ k = i + 1
      BY <2>3, <1>1 DEF l
    <3> HIDE DEF i
    <3>2. s[k] = p[i] /\ HeldAt(s, k) = HeldAt(p, i) \cup {m} /\ HeldAt(s, k + 1) = HeldAt(p, i + 1) \cup {m}
      BY <3>1, <1>3, <1>6
    <3>3. /\ p[i] = Lock(n) => n \in HeldAt(p, i + 1) /\ \A o \in HeldAt(p, i) : Rank[o] < Rank[n]
          /\ p[i] = Unlock(n) => n \notin HeldAt(p, i + 1)
          /\ p[i] = Lock(n) => Rank[m] < Rank[n]
      BY <3>1 DEF Disciplined, Ordered
    <3>4. Rank[n] \in Nat
      BY RankRange
    <3> QED BY <3>1, <3>2, <3>3, <3>4, <1>1, <1>5
  <2> QED BY <2>1, <2>2, <2>3, <1>1, <1>3
<1>10. ASSUME NEW k \in 1..Len(s) PROVE s[k] # Wait
  <2>1. CASE k = 1 \/ k = l + 2
    BY <2>1, <1>3, StepsApart
  <2>2. CASE k \in 2..(l + 1)
    <3>1. k - 1 \in 1..Len(p) /\ s[k] = p[k - 1]
      BY <2>2, <1>3 DEF l
    <3>2. Rank[m] # 0
      BY RankRange
    <3> QED BY <3>1, <3>2 DEF Disciplined
  <2> QED BY <2>1, <2>2, <1>1, <1>3
<1>11. Ordered(s) /\ \A k \in 1..Len(s), n \in Mutexes : s[k] = Lock(n) => r < Rank[n]
  BY <1>9, <1>10 DEF Ordered
<1> QED BY <1>3, <1>7, <1>10, <1>11 DEF Disciplined, s

(* A wait with nothing held. *)
LEMMA Waits == <<Wait>> \in Disciplined(0)
<1> DEFINE s == <<Wait>>
<1>1. s \in Seq(Steps) /\ Len(s) = 1 /\ s[1] = Wait /\ \A k \in 1..Len(s) : k = 1
  BY DEF Steps
<1> HIDE DEF s
<1>2. HeldAt(s, 1) = {}
  <2> SUFFICES ASSUME NEW m \in HeldAt(s, 1) PROVE FALSE
    OBVIOUS
  <2>1. PICK i \in 1..Len(s) : s[i] = Unlock(m)
    BY DEF HeldAt
  <2> QED BY <2>1, <1>1, StepsApart
<1>3. Ordered(s)
  BY <1>1, <1>2, StepsApart DEF Ordered
<1>4. \A k \in 1..Len(s), m \in Mutexes : s[k] # Lock(m)
  BY <1>1, StepsApart
<1> QED BY <1>1, <1>2, <1>3, <1>4 DEF Disciplined, s

(* Every program of the code is disciplined. *)
LEMMA ProgramsDisciplined == \A a \in Actors : Programs(a) \subseteq Disciplined(0)
<1> USE DEF Briefly
<1>1. /\ {"app", "system", "server", "scheduler", "registry", "counters"} \subseteq Mutexes
      /\ Rank["app"] = 1 /\ Rank["system"] = 2 /\ Rank["server"] = 2 /\ Rank["scheduler"] = 2
      /\ Rank["registry"] = 3 /\ Rank["counters"] = 4
  BY DEF Rank, Mutexes
<1>2. \A r \in 0..3 : r \in Nat /\ Briefly("counters") \in Disciplined(r)
  BY <1>1, Nothing, Within
<1>3. \A r \in 0..2 : LookUp \in Disciplined(r)
  BY <1>1, Nothing, Within DEF LookUp
<1>4. \A r \in 0..2 : Sampling \in Disciplined(r)
  BY <1>2, <1>3, Then DEF Sampling
<1>5. \A r \in 0..2 : All \in Disciplined(r)
  <2>1. \A r \in 0..2 : With("registry", Briefly("counters")) \in Disciplined(r)
    BY <1>1, <1>2, Within
  <2> QED BY <2>1, <1>4, Then DEF All
<1>6. Weigh \in Disciplined(2)
  <2>1. LookUp \o Briefly("counters") \in Disciplined(2)
    BY <1>2, <1>3, Then
  <2>2. LookUp \o Briefly("counters") \o LookUp \in Disciplined(2)
    BY <2>1, <1>3, Then
  <2> QED BY <2>2, <1>3, Then DEF Weigh
<1>7. \A r \in 0..1 : Weighing \in Disciplined(r) /\ Scheduling \in Disciplined(r)
                     /\ Briefly("system") \in Disciplined(r) /\ Briefly("server") \in Disciplined(r)
  BY <1>1, <1>6, Nothing, Within DEF Weighing, Scheduling
<1> DEFINE p1 == Sampling \o Briefly("system")
           p2 == p1 \o Scheduling
           p3 == p2 \o Scheduling
           p4 == p3 \o Weighing
           p5 == p4 \o All
<1>8. ShowStatus \in Disciplined(0)
  <2>1. p1 \in Disciplined(1)
    BY <1>4, <1>7, Then
  <2>2. p2 \in Disciplined(1)
    BY <2>1, <1>7, Then
  <2>3. p3 \in Disciplined(1)
    BY <2>2, <1>7, Then
  <2>4. p4 \in Disciplined(1)
    BY <2>3, <1>7, Then
  <2>5. p5 \in Disciplined(1)
    BY <2>4, <1>5, Then
  <2>6. With("app", p5) \in Disciplined(0)
    BY <2>5, <1>1, Within
  <2> QED BY <2>6, <1>7, Then DEF ShowStatus
<1>9. /\ ChangeSelection \in Disciplined(0) /\ SetListenAddrs \in Disciplined(0)
      /\ Refused \in Disciplined(0)
  BY <1>1, <1>7, Within DEF ChangeSelection, SetListenAddrs, Refused
<1>10. StartProxy \in Disciplined(0) /\ StopProxy \in Disciplined(0) /\ StopIdle \in Disciplined(0)
  <2>1. Refused \o Briefly("server") \in Disciplined(0)
    BY <1>7, <1>9, Then
  <2>2. Refused \o Briefly("server") \o Briefly("server") \in Disciplined(0)
    BY <2>1, <1>7, Then
  <2>3. Briefly("system") \o Briefly("server") \in Disciplined(0)
    BY <1>7, Then
  <2>4. Briefly("system") \o Briefly("server") \o <<Wait>> \in Disciplined(0)
    BY <2>3, Waits, Then
  <2> QED BY <2>2, <2>3, <2>4, <1>7, Then DEF StartProxy, StopProxy, StopIdle
<1>11. /\ Starting \subseteq Disciplined(0) /\ Stopping \subseteq Disciplined(0)
       /\ Polling \subseteq Disciplined(0) /\ Listening \subseteq Disciplined(0)
       /\ Clearing \subseteq Disciplined(0)
  <2>1. LookUp \in Disciplined(0)
    BY <1>3
  <2> QED BY <2>1, <1>8, <1>9, <1>10, Then DEF Starting, Stopping, Polling, Listening, Clearing
<1>12. LookUp \in Disciplined(0) /\ Weighing \in Disciplined(0) /\ Scheduling \in Disciplined(0)
  BY <1>3, <1>7
<1> QED BY <1>9, <1>11, <1>12 DEF Programs
-----------------------------------------------------------------------------
(* What the first step leaves. *)
LEMMA Left ==
    ASSUME NEW p \in Seq(Steps), p # <<>>, Ordered(p)
    PROVE  /\ Tail(p) \in Seq(Steps) /\ Ordered(Tail(p))
           /\ HeldAt(Tail(p), 1) = HeldAt(p, 2)
           /\ Head(p) = p[1] /\ 1 \in 1..Len(p)
<1> DEFINE t == Tail(p)
<1>1. /\ t \in Seq(Steps) /\ Len(t) = Len(p) - 1 /\ Len(p) \in Nat /\ Len(p) > 0
      /\ \A i \in 1..Len(t) : t[i] = p[i + 1]
      /\ Head(p) = p[1]
  OBVIOUS
<1> HIDE DEF t
<1>2. ASSUME NEW k \in 1..Len(p) PROVE HeldAt(t, k) = HeldAt(p, k + 1)
  <2>1. ASSUME NEW m \in HeldAt(t, k) PROVE m \in HeldAt(p, k + 1)
    <3>1. PICK i \in k..Len(t) : t[i] = Unlock(m) /\ \A j \in k..(i - 1) : t[j] # Lock(m)
      BY DEF HeldAt
    <3>2. i + 1 \in (k + 1)..Len(p) /\ p[i + 1] = Unlock(m)
      BY <3>1, <1>1
    <3>3. ASSUME NEW j \in (k + 1)..(i + 1 - 1) PROVE p[j] # Lock(m)
      <4>1. j - 1 \in 1..Len(t) /\ j - 1 \in k..(i - 1) /\ (j - 1) + 1 = j
        BY <1>1, <3>1
      <4> QED BY <4>1, <3>1, <1>1
    <3> QED BY <3>2, <3>3, <2>1 DEF HeldAt
  <2>2. ASSUME NEW m \in HeldAt(p, k + 1) PROVE m \in HeldAt(t, k)
    <3>1. PICK i \in (k + 1)..Len(p) :
              p[i] = Unlock(m) /\ \A j \in (k + 1)..(i - 1) : p[j] # Lock(m)
      BY DEF HeldAt
    <3>2. i - 1 \in k..Len(t) /\ i - 1 \in 1..Len(t) /\ t[i - 1] = Unlock(m)
      BY <3>1, <1>1
    <3>3. ASSUME NEW j \in k..(i - 1 - 1) PROVE t[j] # Lock(m)
      <4>1. j \in 1..Len(t) /\ j + 1 \in (k + 1)..(i - 1)
        BY <1>1, <3>2
      <4> QED BY <4>1, <3>1, <1>1
    <3> QED BY <3>2, <3>3, <2>2 DEF HeldAt
  <2> QED BY <2>1, <2>2
<1>3. Ordered(t)
  <2> SUFFICES ASSUME NEW k \in 1..Len(t)
               PROVE  /\ \A m \in Mutexes :
                             /\ t[k] = Lock(m) => m \in HeldAt(t, k + 1)
                                                  /\ \A n \in HeldAt(t, k) : Rank[n] < Rank[m]
                             /\ t[k] = Unlock(m) => m \notin HeldAt(t, k + 1)
                      /\ t[k] = Wait => HeldAt(t, k) = {}
    BY DEF Ordered
  <2>1. k \in 1..Len(p) /\ k + 1 \in 1..Len(p) /\ t[k] = p[k + 1]
    BY <1>1
  <2>2. HeldAt(t, k) = HeldAt(p, k + 1) /\ HeldAt(t, k + 1) = HeldAt(p, k + 1 + 1)
    BY <2>1, <1>2
  <2> QED BY <2>1, <2>2 DEF Ordered
<1>4. HeldAt(t, 1) = HeldAt(p, 2)
  <2>1. 1 \in 1..Len(p) /\ 1 + 1 = 2
    BY <1>1
  <2> QED BY <2>1, <1>2
<1> QED BY <1>1, <1>3, <1>4 DEF t

(* A step of the program changes what is held by that step alone. *)
LEMMA FirstStep ==
    ASSUME NEW p \in Seq(Steps), p # <<>>, Ordered(p), NEW m \in Mutexes
    PROVE  /\ p[1] = Lock(m) => HeldAt(p, 2) = HeldAt(p, 1) \cup {m}
           /\ p[1] = Unlock(m) => m \in HeldAt(p, 1) /\ HeldAt(p, 2) = HeldAt(p, 1) \ {m}
<1>1. Len(p) \in Nat /\ Len(p) > 0 /\ 1 \in 1..Len(p)
  OBVIOUS
<1>2. ASSUME NEW n \in HeldAt(p, 2), p[1] # Lock(n) PROVE n \in HeldAt(p, 1)
  <2>1. PICK i \in 2..Len(p) : p[i] = Unlock(n) /\ \A j \in 2..(i - 1) : p[j] # Lock(n)
    BY DEF HeldAt
  <2>2. ASSUME NEW j \in 1..(i - 1) PROVE p[j] # Lock(n)
    <3>1. j = 1 \/ j \in 2..(i - 1)
      BY <2>1
    <3> QED BY <3>1, <2>1, <1>2
  <2>3. i \in 1..Len(p)
    BY <2>1, <1>1
  <2> QED BY <2>1, <2>2, <2>3, <1>2 DEF HeldAt
<1>3. ASSUME NEW n \in HeldAt(p, 1), p[1] # Unlock(n) PROVE n \in HeldAt(p, 2) /\ p[1] # Lock(n)
  <2>1. PICK i \in 1..Len(p) : p[i] = Unlock(n) /\ \A j \in 1..(i - 1) : p[j] # Lock(n)
    BY DEF HeldAt
  <2>2. i \in 2..Len(p) /\ 1 \in 1..(i - 1)
    BY <2>1, <1>1, <1>3
  <2>3. \A j \in 2..(i - 1) : j \in 1..(i - 1)
    BY <2>2
  <2> QED BY <2>1, <2>2, <2>3, <1>3 DEF HeldAt
<1>4. ASSUME p[1] = Lock(m) PROVE HeldAt(p, 2) = HeldAt(p, 1) \cup {m}
  <2>1. m \in HeldAt(p, 2)
    <3>1. m \in HeldAt(p, 1 + 1)
      BY <1>1, <1>4 DEF Ordered
    <3> QED BY <3>1
  <2>2. \A n \in HeldAt(p, 2) : n # m => n \in HeldAt(p, 1)
    BY <1>2, <1>4, StepsApart
  <2>3. \A n \in HeldAt(p, 1) : n \in HeldAt(p, 2)
    BY <1>3, <1>4, StepsApart
  <2> QED BY <2>1, <2>2, <2>3
<1>5. ASSUME p[1] = Unlock(m) PROVE m \in HeldAt(p, 1) /\ HeldAt(p, 2) = HeldAt(p, 1) \ {m}
  <2>1. m \notin HeldAt(p, 2)
    <3>1. m \notin HeldAt(p, 1 + 1)
      BY <1>1, <1>5 DEF Ordered
    <3> QED BY <3>1
  <2>2. m \in HeldAt(p, 1)
    BY <1>1, <1>5 DEF HeldAt
  <2>3. \A n \in HeldAt(p, 2) : n \in HeldAt(p, 1)
    BY <1>2, <1>5, StepsApart
  <2>4. \A n \in HeldAt(p, 1) : n # m => n \in HeldAt(p, 2)
    BY <1>3, <1>5, StepsApart
  <2> QED BY <2>1, <2>2, <2>3, <2>4
<1> QED BY <1>4, <1>5

LEMMA Head1 ==
    ASSUME NEW p \in Seq(Steps), p # <<>>
    PROVE  \/ Head(p) = Wait /\ Head(p).op = "wait"
           \/ \E m \in Mutexes :
                 \/ Head(p) = Lock(m) /\ Head(p).op = "lock" /\ Head(p).on = m
                 \/ Head(p) = Unlock(m) /\ Head(p).op = "unlock" /\ Head(p).on = m
<1>1. Head(p) \in Steps
  OBVIOUS
<1> QED BY <1>1 DEF Steps, Lock, Unlock, Wait
-----------------------------------------------------------------------------
LEMMA LocksInvInit == LocksInit => LocksInv
<1> SUFFICES ASSUME LocksInit PROVE LocksInv
  OBVIOUS
<1>1. HeldAt(<<>>, 1) = {} /\ Ordered(<<>>) /\ <<>> \in Seq(Steps)
  BY DEF HeldAt, Ordered
<1> QED BY <1>1, LocksAssumption DEF LocksInit, LocksInv, Actors

LEMMA BeginInv ==
    ASSUME LocksInv, NEW a \in Actors, Begin(a)
    PROVE  LocksInv'
<1>1. PICK program \in Programs(a) : rest' = [rest EXCEPT ![a] = program]
  BY DEF Begin
<1>2. program \in Seq(Steps) /\ Ordered(program) /\ HeldAt(program, 1) = {}
  BY ProgramsDisciplined DEF Disciplined
<1>3. rest[a] = <<>> /\ holder' = holder
  BY DEF Begin, Busy
<1>4. HeldAt(<<>>, 1) = {}
  BY DEF HeldAt
<1>5. rest' \in [Actors -> Seq(Steps)] /\ rest'[a] = program /\ \A b \in Actors \ {a} : rest'[b] = rest[b]
  BY <1>1, <1>2 DEF LocksInv
<1>6. \A b \in Actors : Ordered(rest'[b])
  BY <1>2, <1>5 DEF LocksInv
<1>7. \A b \in Actors : HeldAt(rest'[b], 1) = HeldAt(rest[b], 1)
  BY <1>2, <1>3, <1>4, <1>5
<1> QED BY <1>3, <1>5, <1>6, <1>7 DEF LocksInv

LEMMA GoOnInv ==
    ASSUME LocksInv, NEW a \in Actors, GoOn(a)
    PROVE  LocksInv'
<1> DEFINE p == rest[a]
<1>1. p \in Seq(Steps) /\ p # <<>> /\ Ordered(p)
  BY DEF LocksInv, GoOn, Acquire, Release, Busy
<1> HIDE DEF p
<1>2. PICK m \in Mutexes :
        \/ Head(p) = Lock(m) /\ Head(p).op = "lock" /\ Head(p).on = m
        \/ Head(p) = Unlock(m) /\ Head(p).op = "unlock" /\ Head(p).on = m
  <2>1. Head(p).op \in {"lock", "unlock"}
    BY DEF GoOn, Acquire, Release, p
  <2> QED BY <1>1, <2>1, Head1
<1>3. /\ Tail(p) \in Seq(Steps) /\ Ordered(Tail(p))
      /\ HeldAt(Tail(p), 1) = HeldAt(p, 2) /\ Head(p) = p[1]
  BY <1>1, Left
<1>4. /\ p[1] = Lock(m) => HeldAt(p, 2) = HeldAt(p, 1) \cup {m}
      /\ p[1] = Unlock(m) => m \in HeldAt(p, 1) /\ HeldAt(p, 2) = HeldAt(p, 1) \ {m}
  BY <1>1, FirstStep
<1>5. /\ rest' \in [Actors -> Seq(Steps)] /\ rest'[a] = Tail(p)
      /\ \A b \in Actors \ {a} : rest'[b] = rest[b]
  <2>1. rest' = [rest EXCEPT ![a] = Tail(p)]
    BY DEF GoOn, Acquire, Release, p
  <2>2. rest \in [Actors -> Seq(Steps)]
    BY DEF LocksInv
  <2> QED BY <2>1, <2>2, <1>3
<1>6. ASSUME NEW b \in Actors PROVE Ordered(rest'[b])
  <2>1. CASE b = a
    BY <2>1, <1>3, <1>5
  <2>2. CASE b # a
    BY <2>2, <1>5 DEF LocksInv
  <2> QED BY <2>1, <2>2
<1>7. a # None /\ holder \in [Mutexes -> Actors \cup {None}]
  BY LocksAssumption DEF Actors, LocksInv
<1>8. \A b \in Actors \ {a}, n \in Mutexes : holder[n] = b <=> n \in HeldAt(rest'[b], 1)
  BY <1>5 DEF LocksInv
<1>9. \A n \in Mutexes : holder[n] = a <=> n \in HeldAt(p, 1)
  BY DEF LocksInv, p
<1>10. CASE Head(p).op = "lock"
  <2>1. Head(p) = Lock(m) /\ holder[m] = None /\ holder' = [holder EXCEPT ![m] = a]
    BY <1>10, <1>2 DEF GoOn, Acquire, Release, p
  <2>2. holder' \in [Mutexes -> Actors \cup {None}] /\ holder'[m] = a /\ \A n \in Mutexes \ {m} : holder'[n] = holder[n]
    BY <2>1, <1>7
  <2>3. HeldAt(rest'[a], 1) = HeldAt(p, 1) \cup {m}
    BY <2>1, <1>3, <1>4, <1>5
  <2>4. \A n \in Mutexes : holder'[n] = a <=> n \in HeldAt(rest'[a], 1)
    BY <2>2, <2>3, <1>9
  <2>5. \A b \in Actors \ {a}, n \in Mutexes : holder'[n] = b <=> n \in HeldAt(rest'[b], 1)
    <3>1. \A b \in Actors \ {a} : b # None
      BY LocksAssumption DEF Actors
    <3>2. \A b \in Actors \ {a} : m \notin HeldAt(rest'[b], 1)
      BY <3>1, <2>1, <1>8
    <3> QED BY <3>2, <2>2, <1>8
  <2> QED BY <2>2, <2>4, <2>5, <1>5, <1>6 DEF LocksInv
<1>11. CASE Head(p).op = "unlock"
  <2>1. Head(p) = Unlock(m) /\ holder' = [holder EXCEPT ![m] = None]
    BY <1>11, <1>2 DEF GoOn, Acquire, Release, p
  <2>2. holder' \in [Mutexes -> Actors \cup {None}] /\ holder'[m] = None /\ \A n \in Mutexes \ {m} : holder'[n] = holder[n]
    BY <2>1, <1>7
  <2>3. HeldAt(rest'[a], 1) = HeldAt(p, 1) \ {m} /\ holder[m] = a
    BY <2>1, <1>3, <1>4, <1>5, <1>9
  <2>4. \A n \in Mutexes : holder'[n] = a <=> n \in HeldAt(rest'[a], 1)
    BY <2>2, <2>3, <1>7, <1>9
  <2>5. \A b \in Actors \ {a}, n \in Mutexes : holder'[n] = b <=> n \in HeldAt(rest'[b], 1)
    <3>1. \A b \in Actors \ {a} : b # None
      BY LocksAssumption DEF Actors
    <3>2. \A b \in Actors \ {a} : m \notin HeldAt(rest'[b], 1)
      BY <2>3, <1>8
    <3> QED BY <3>1, <3>2, <2>2, <1>8
  <2> QED BY <2>2, <2>4, <2>5, <1>5, <1>6 DEF LocksInv
<1> QED BY <1>2, <1>10, <1>11

(* What goes on after a wait, or is given up, held nothing. *)
LEMMA WakeInv ==
    ASSUME LocksInv, NEW a \in Actors, Wake(a)
    PROVE  LocksInv'
<1>1. PICK program \in {Tail(rest[a]), <<>>} : rest' = [rest EXCEPT ![a] = program]
  BY DEF Wake
<1>2. rest[a] \in Seq(Steps) /\ rest[a] # <<>> /\ Ordered(rest[a]) /\ holder' = holder
  BY DEF LocksInv, Wake, Waiting, Busy
<1>3. Head(rest[a]) = Wait /\ rest[a][1] = Wait /\ 1 \in 1..Len(rest[a])
  <2>1. Head(rest[a]) = Wait
    BY <1>2, Head1 DEF Wake, Waiting
  <2> QED BY <2>1, <1>2, Left
<1>4. HeldAt(rest[a], 1) = {}
  BY <1>2, <1>3 DEF Ordered
<1>5. HeldAt(rest[a], 2) = {}
  <2> SUFFICES ASSUME NEW m \in HeldAt(rest[a], 2) PROVE FALSE
    OBVIOUS
  <2>1. PICK i \in 2..Len(rest[a]) :
            rest[a][i] = Unlock(m) /\ \A j \in 2..(i - 1) : rest[a][j] # Lock(m)
    BY DEF HeldAt
  <2>2. i \in 1..Len(rest[a]) /\ \A j \in 1..(i - 1) : j = 1 \/ j \in 2..(i - 1)
    BY <2>1, <1>2
  <2>3. \A j \in 1..(i - 1) : rest[a][j] # Lock(m)
    BY <2>1, <2>2, <1>3, StepsApart
  <2>4. m \in HeldAt(rest[a], 1)
    BY <2>1, <2>2, <2>3 DEF HeldAt
  <2> QED BY <2>4, <1>4
<1>6. program \in Seq(Steps) /\ Ordered(program) /\ HeldAt(program, 1) = {}
  <2>1. <<>> \in Seq(Steps) /\ Ordered(<<>>) /\ HeldAt(<<>>, 1) = {}
    BY DEF Ordered, HeldAt
  <2> QED BY <2>1, <1>1, <1>2, <1>5, Left
<1>7. rest' \in [Actors -> Seq(Steps)] /\ rest'[a] = program /\ \A b \in Actors \ {a} : rest'[b] = rest[b]
  BY <1>1, <1>6 DEF LocksInv
<1>8. \A b \in Actors : Ordered(rest'[b])
  BY <1>6, <1>7 DEF LocksInv
<1>9. \A b \in Actors : HeldAt(rest'[b], 1) = HeldAt(rest[b], 1)
  BY <1>4, <1>6, <1>7
<1> QED BY <1>2, <1>7, <1>8, <1>9 DEF LocksInv

LEMMA LocksInvHolds == LocksSpec => []LocksInv
<1>1. LocksInv /\ [LocksNext]_lockVars => LocksInv'
  <2> SUFFICES ASSUME LocksInv, [LocksNext]_lockVars PROVE LocksInv'
    OBVIOUS
  <2>1. CASE LocksNext
    BY <2>1, BeginInv, GoOnInv, WakeInv DEF LocksNext
  <2>2. CASE UNCHANGED lockVars
    BY <2>2 DEF LocksInv, lockVars
  <2> QED BY <2>1, <2>2
<1> QED BY LocksInvInit, <1>1, PTL DEF LocksSpec
-----------------------------------------------------------------------------
(* Of the mutexes that are held, the one of the highest rank is held by an *)
(* actor who waits for nobody: what it asks for ranks higher and is free.  *)
LEMMA SomebodyGoesOn == LocksInv => NoDeadlock
<1> SUFFICES ASSUME LocksInv PROVE NoDeadlock
  OBVIOUS
<1>4. ASSUME NEW a \in Actors, NEW m \in Mutexes, Waiting(a) PROVE holder[m] # a
  <2>1. rest[a] \in Seq(Steps) /\ rest[a] # <<>> /\ Ordered(rest[a])
    BY <1>4 DEF LocksInv, Waiting, Busy
  <2>2. Head(rest[a]) = Wait
    BY <1>4, <2>1, Head1 DEF Waiting
  <2>3. HeldAt(rest[a], 1) = {}
    BY <2>1, <2>2, Left DEF Ordered
  <2> QED BY <2>3 DEF LocksInv
<1> SUFFICES ASSUME NEW a \in Actors, Going(a)
             PROVE  \E b \in Actors : Going(b) /\ (Head(rest[b]).op = "unlock"
                                                   \/ holder[Head(rest[b]).on] = None)
  BY <1>4 DEF NoDeadlock
<1>1. ASSUME NEW b \in Actors, Going(b)
      PROVE  \/ Head(rest[b]).op = "unlock"
             \/ \E m \in Mutexes : /\ Head(rest[b]).on = m
                                    /\ \A n \in Mutexes : holder[n] = b => Rank[n] < Rank[m]
  <2>1. rest[b] \in Seq(Steps) /\ rest[b] # <<>> /\ Ordered(rest[b])
    BY <1>1 DEF LocksInv, Going, Busy
  <2>2. PICK m \in Mutexes :
          \/ Head(rest[b]) = Lock(m) /\ Head(rest[b]).op = "lock" /\ Head(rest[b]).on = m
          \/ Head(rest[b]) = Unlock(m) /\ Head(rest[b]).op = "unlock" /\ Head(rest[b]).on = m
    BY <1>1, <2>1, Head1 DEF Going, Waiting
  <2>3. Head(rest[b]) = rest[b][1] /\ 1 \in 1..Len(rest[b])
    BY <2>1, Left
  <2>4. Head(rest[b]) = Lock(m) => \A n \in HeldAt(rest[b], 1) : Rank[n] < Rank[m]
    BY <2>1, <2>3 DEF Ordered
  <2> QED BY <2>2, <2>4 DEF LocksInv
<1>2. CASE \A m \in Mutexes : holder[m] = None
  BY <1>1, <1>2
<1>3. CASE \E m \in Mutexes : holder[m] # None
  <2> DEFINE Taken == {m \in Mutexes : holder[m] # None}
  <2>1. PICK m \in Taken : \A n \in Taken : Rank[n] <= Rank[m]
    BY <1>3, RankRange
  <2>2. holder[m] \in Actors /\ m \in HeldAt(rest[holder[m]], 1)
    BY <2>1 DEF LocksInv
  <2>3. Going(holder[m])
    <3>1. HeldAt(<<>>, 1) = {}
      BY DEF HeldAt
    <3> QED BY <3>1, <2>1, <2>2, <1>4 DEF Going, Busy
  <2>4. CASE Head(rest[holder[m]]).op = "unlock"
    BY <2>2, <2>3, <2>4
  <2>5. CASE \E n \in Mutexes : Head(rest[holder[m]]).on = n /\ Rank[m] < Rank[n]
    BY <2>1, <2>2, <2>3, <2>5, RankRange
  <2> QED BY <2>2, <2>3, <2>4, <2>5, <1>1
<1> QED BY <1>2, <1>3

(* No set of requests and goroutines, of any size, comes to wait in a      *)
(* circle for the mutexes of the program, and nobody waits for the accept  *)
(* loops with a mutex in his hands.                                        *)
THEOREM NeverDeadlocked == LocksSpec => []NoDeadlock
BY LocksInvHolds, SomebodyGoesOn, PTL

-----------------------------------------------------------------------------
(* The bypass rules                                                        *)

(* What the matcher holds is what the lines given last say.                *)
RulesInv ==
    /\ written \subseteq Line
    /\ exact = ExactOf(written) /\ suffix = SuffixOf(written)

LEMMA LineLength ==
    ASSUME NEW line \in Line
    PROVE  Len(line) \in Nat \ {0} /\ line \in Seq(Labels) /\ DOMAIN line = 1..Len(line)
  BY EmptySeq, LenProperties DEF Line

LEMMA Label == ASSUME NEW S, NEW x \in S PROVE <<x>> \in Seq(S) /\ Len(<<x>>) = 1 /\ <<x>>[1] = x
  OBVIOUS

LEMMA TailLine ==
    ASSUME NEW line \in Line, Len(line) > 1
    PROVE  Tail(line) \in Line
<1>1. line \in Seq(Labels) /\ line # <<>> /\ Len(line) \in Nat
  BY LineLength DEF Line
<1>2. Tail(line) \in Seq(Labels) /\ Len(Tail(line)) = Len(line) - 1
  BY <1>1, HeadTailProperties
<1>3. Tail(line) # <<>>
  <2>1. Len(Tail(line)) # 0
    BY <1>1, <1>2
  <2>2. Len(<<>>) = 0
    BY EmptySeq
  <2>. QED
    BY <2>1, <2>2
<1>. QED
  BY <1>2, <1>3 DEF Line

LEMMA RulesInvInit == RulesInit => RulesInv
  BY RulesAssumption DEF RulesInit, RulesInv

LEMMA RulesInvNext == RulesInv /\ [RulesNext]_rulesVars => RulesInv'
  BY RulesAssumption DEF RulesNext, SetRules, RulesInv, rulesVars, ExactOf, SuffixOf

LEMMA RulesInvHolds == RulesSpec => []RulesInv
  BY RulesInvInit, RulesInvNext, PTL DEF RulesSpec

(* A suffix as List shows it is read back as that suffix.                  *)
LEMMA Dotted ==
    ASSUME NEW s \in Line
    PROVE  LET line == <<Empty>> \o s
           IN  IsSuffixRule(line) /\ Tail(line) = s /\ line # Blank /\ line # Comment
<1>. DEFINE dot == <<Empty>>
            line == dot \o s
<1>0. dot \in Seq(Labels) /\ Len(dot) = 1 /\ dot[1] = Empty /\ Blank = dot
  <2>1. Empty \in Labels
    BY RulesAssumption
  <2>. QED
    BY <2>1, Label DEF Blank
<1>. HIDE DEF dot
<1>1. s \in Seq(Labels) /\ Len(s) \in Nat \ {0} /\ dot \in Seq(Labels) /\ Len(dot) = 1 /\ dot[1] = Empty
  BY <1>0, LineLength
<1>2. /\ line \in Seq(Labels) /\ Len(line) = 1 + Len(s)
      /\ \A i \in 1..(1 + Len(s)) : line[i] = IF i <= 1 THEN dot[i] ELSE s[i - 1]
  <2>1. /\ dot \o s \in Seq(Labels) /\ Len(dot \o s) = Len(dot) + Len(s)
        /\ \A i \in 1..(Len(dot) + Len(s)) :
               (dot \o s)[i] = IF i <= Len(dot) THEN dot[i] ELSE s[i - Len(dot)]
    BY <1>1, ConcatProperties
  <2>. QED
    BY <1>1, <2>1
<1>. HIDE DEF line
<1>3. line # <<>> /\ Len(line) > 1 /\ line[1] = Empty
  <2>1. Len(line) > 1 /\ line[1] = Empty
    <3>1. 1 \in 1..(1 + Len(s))
      BY <1>1
    <3>. QED
      BY <1>1, <1>2, <3>1
  <2>2. Len(<<>>) = 0
    BY EmptySeq
  <2>. QED
    BY <2>1, <2>2
<1>4. IsSuffixRule(line) /\ line # Blank /\ line # Comment
  <2>1. IsSuffixRule(line)
    BY <1>3 DEF IsSuffixRule
  <2>2. Len(Blank) = 1
    BY <1>0
  <2>3. line # Comment
    BY <2>1, RulesAssumption
  <2>4. line # Blank
    <3>1. Len(line) # 1
      <4>1. Len(line) = 1 + Len(s)
        BY <1>2
      <4>2. Len(s) \in Nat /\ Len(s) # 0
        BY <1>1
      <4>. QED
        BY <4>1, <4>2
    <3>. HIDE DEF Blank
    <3>2. SUFFICES ASSUME line = Blank PROVE FALSE
      OBVIOUS
    <3>3. Len(line) = Len(Blank)
      BY <3>2, Zenon
    <3>. QED
      BY <2>2, <3>1, <3>3, Zenon
  <2>. QED
    BY <2>1, <2>3, <2>4
<1>5. Tail(line) = s
  <2>1. /\ Tail(line) \in Seq(Labels) /\ Len(Tail(line)) = Len(line) - 1
        /\ \A i \in 1..Len(Tail(line)) : Tail(line)[i] = line[i + 1]
    BY <1>2, <1>3, HeadTailProperties
  <2>2. Len(Tail(line)) = Len(s)
    BY <1>1, <1>2, <2>1
  <2>3. ASSUME NEW i \in 1..Len(s) PROVE Tail(line)[i] = s[i]
    <3>1. i + 1 \in 1..(1 + Len(s)) /\ ~(i + 1 <= 1) /\ (i + 1) - 1 = i
      BY <1>1
    <3>. QED
      BY <1>2, <2>1, <2>2, <3>1
  <2>. QED
    BY <1>1, <2>1, <2>2, <2>3, SeqEqual
<1>. QED
  BY <1>4, <1>5 DEF line, dot

(* A console that sends back the rules it was shown changes nothing.       *)
THEOREM RulesRoundTrip == RulesSpec => []RoundTrip
<1>1. RulesInv => RoundTrip
  <2>. SUFFICES ASSUME RulesInv PROVE ExactOf(List) = exact /\ SuffixOf(List) = suffix
    BY DEF RoundTrip
  <2>1. \A s \in suffix : s \in Line
    BY TailLine DEF RulesInv, SuffixOf, IsSuffixRule
  <2>2. \A x \in exact : x \notin {Blank, Comment} /\ ~IsSuffixRule(x)
    BY DEF RulesInv, ExactOf
  <2>3. \A s \in suffix : LET line == <<Empty>> \o s
                          IN  IsSuffixRule(line) /\ Tail(line) = s /\ line \notin {Blank, Comment}
    BY <2>1, Dotted
  <2>4. ExactOf(List) = exact
    BY <2>2, <2>3 DEF ExactOf, List
  <2>5. SuffixOf(List) = suffix
    <3>1. {l \in List \ {Blank, Comment} : IsSuffixRule(l)} = {<<Empty>> \o s : s \in suffix}
      BY <2>2, <2>3 DEF List
    <3>2. ASSUME NEW s \in suffix PROVE s \in SuffixOf(List)
      BY <2>3, <3>1, <3>2 DEF SuffixOf
    <3>3. ASSUME NEW s \in SuffixOf(List) PROVE s \in suffix
      BY <2>3, <3>1, <3>3 DEF SuffixOf
    <3>. QED
      BY <3>2, <3>3
  <2>. QED
    BY <2>4, <2>5
<1>. QED
  BY <1>1, RulesInvHolds, PTL

LEMMA SuffixOfItself == ASSUME NEW name \in Line PROVE IsSuffix(name, name)
<1>. DEFINE n == Len(name)
            back == [i \in 1..n |-> name[(n - i) + 1]]
<1>1. n \in Nat /\ Reverse(name) = back
  BY LineLength DEF Reverse
<1>2. back \in Seq(Labels)
  <2>1. \A i \in 1..n : name[(n - i) + 1] \in Labels
    BY LineLength, ElementOfSeq
  <2>. QED
    BY <1>1, <2>1, SeqDef
<1>. HIDE DEF back
<1>3. Len(back) \in Nat
  BY <1>2, LenProperties
<1>. QED
  BY <1>1, <1>3 DEF IsSuffix, IsPrefix

(* The port is cut off, and nothing else.                                  *)
LEMMA NameOf ==
    ASSUME NEW h \in Hosts, h.means[1] \notin DOMAIN Colons
    PROVE  BeforeColon(h.asked) = h.means /\ h.means \in Line
<1>. DEFINE asked == h.asked
            name == h.means
            n == Len(name)
            colons == {i \in DOMAIN asked : asked[i] \in DOMAIN Colons}
<1>1. /\ asked \in Line /\ name \in Line /\ ~HasColon(name)
      /\ asked = name \/ WithPort(asked, name)
  BY RulesAssumption
<1>2. CASE asked = name
  BY <1>1, <1>2 DEF HasColon, BeforeColon
<1>3. CASE WithPort(asked, name)
  <2>1. /\ Len(asked) = n /\ n \in Nat \ {0} /\ DOMAIN asked = 1..n /\ DOMAIN name = 1..n
        /\ asked \in Seq(Labels) /\ name \in Seq(Labels)
        /\ asked[n] \in DOMAIN Colons /\ name[n] = Colons[asked[n]]
        /\ \A i \in 1..n : i # n => name[i] = asked[i]
    BY <1>1, <1>3, LineLength DEF WithPort
  <2>2. colons = {n}
    BY <1>1, <2>1 DEF HasColon
  <2>3. (CHOOSE k \in colons : \A j \in colons : k <= j) = n
    BY <2>1, <2>2
  <2>4. BeforeColon(asked) = SubSeq(asked, 1, n - 1) \o <<Colons[asked[n]]>>
    BY <2>2, <2>3 DEF BeforeColon
  <2>. DEFINE front == SubSeq(asked, 1, n - 1)
              last == <<name[n]>>
  <2>5. /\ front \in Seq(Labels) /\ Len(front) = n - 1
        /\ \A i \in 1..(n - 1) : front[i] = asked[i]
    <3>1. n - 1 \in Int /\ \A i \in 1..(n - 1) : asked[i] \in Labels
      BY <2>1, ElementOfSeq
    <3>2. /\ front \in Seq(Labels) /\ Len(front) = IF 1 <= n - 1 THEN n - 1 - 1 + 1 ELSE 0
          /\ \A i \in 1..(n - 1 - 1 + 1) : front[i] = asked[1 + i - 1]
      BY <3>1, SubSeqProperties
    <3>. HIDE DEF front, n
    <3>3. Len(front) = n - 1
      BY <2>1, <3>2
    <3>. QED
      BY <2>1, <3>2, <3>3
  <2>6. last \in Seq(Labels) /\ Len(last) = 1 /\ last[1] = name[n]
    <3>1. name[n] \in Labels
      BY <2>1, ElementOfSeq
    <3>. QED
      BY <3>1, Label
  <2>. HIDE DEF front, last
  <2>7. /\ front \o last \in Seq(Labels) /\ Len(front \o last) = (n - 1) + 1
        /\ \A i \in 1..((n - 1) + 1) : (front \o last)[i] =
               IF i <= n - 1 THEN front[i] ELSE last[i - (n - 1)]
    <3>. HIDE DEF n
    <3>1. front \in Seq(Labels) /\ last \in Seq(Labels) /\ Len(front) = n - 1 /\ Len(last) = 1
      BY <2>5, <2>6
    <3>2. /\ front \o last \in Seq(Labels) /\ Len(front \o last) = Len(front) + Len(last)
          /\ \A i \in 1..(Len(front) + Len(last)) :
                 (front \o last)[i] = IF i <= Len(front) THEN front[i] ELSE last[i - Len(front)]
      BY <3>1, ConcatProperties
    <3>. QED
      BY <3>1, <3>2
  <2>8. front \o last = name
    <3>1. Len(front \o last) = Len(name) /\ \A i \in 1..Len(front \o last) : (front \o last)[i] = name[i]
      <4>. HIDE DEF n
      <4>1. Len(name) = n
        BY DEF n
      <4>2. ASSUME NEW i \in 1..n PROVE (front \o last)[i] = name[i]
        <5>1. CASE i = n
          <6>1. (front \o last)[n] = last[1]
            <7>1. n \in 1..((n - 1) + 1) /\ ~(n <= n - 1) /\ n - (n - 1) = 1
              BY <2>1
            <7>. QED
              BY <2>7, <7>1
          <6>. QED
            BY <2>6, <5>1, <6>1
        <5>2. CASE i # n
          <6>1. i \in 1..((n - 1) + 1) /\ i <= n - 1 /\ i \in 1..(n - 1)
            BY <2>1, <5>2
          <6>. QED
            BY <2>1, <2>5, <2>7, <5>2, <6>1
        <5>. QED
          BY <5>1, <5>2
      <4>. QED
        BY <2>1, <2>7, <4>1, <4>2
    <3>. QED
      BY <2>1, <2>7, <3>1, SeqEqual
  <2>. QED
    BY <1>1, <2>1, <2>4, <2>8 DEF front, last
<1>. QED
  BY <1>1, <1>2, <1>3

(* A name or an address is bypassed exactly if one of the lines given last *)
(* covers it.                                                              *)
THEOREM NamesBypassed == RulesSpec => []BypassOfNames
<1>1. RulesInv => BypassOfNames
  <2>. SUFFICES ASSUME RulesInv, NEW h \in Hosts, h.means[1] \notin DOMAIN Colons
                PROVE  Match(h.asked) <=> \E line \in written : Covers(line, h.means)
    BY DEF BypassOfNames
  <2>. DEFINE name == h.means
  <2>1. BeforeColon(h.asked) = name /\ name \in Line
    BY NameOf
  <2>2. IsSuffix(name, name)
    BY <2>1, SuffixOfItself
  <2>3. Match(h.asked) <=> name \in exact \/ \E s \in suffix : IsSuffix(s, name)
    BY <2>1, <2>2 DEF Match, IsStrictSuffix
  <2>. HIDE DEF name
  <2>4. name \in exact <=> \E line \in written : line \notin {Blank, Comment} /\ ~IsSuffixRule(line) /\ line = name
    BY DEF RulesInv, ExactOf
  <2>5. (\E s \in suffix : IsSuffix(s, name)) <=>
            \E line \in written : line \notin {Blank, Comment} /\ IsSuffixRule(line) /\ IsSuffix(Tail(line), name)
    BY DEF RulesInv, SuffixOf
  <2>6. (\E line \in written : Covers(line, name)) <=>
            \/ \E line \in written : line \notin {Blank, Comment} /\ ~IsSuffixRule(line) /\ line = name
            \/ \E line \in written : line \notin {Blank, Comment} /\ IsSuffixRule(line) /\ IsSuffix(Tail(line), name)
    BY DEF Covers
  <2>. QED
    BY <2>3, <2>4, <2>5, <2>6 DEF name
<1>. QED
  BY <1>1, RulesInvHolds, PTL

=============================================================================
