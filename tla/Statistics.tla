----------------------------- MODULE Statistics -----------------------------
(***************************************************************************)
(* The registry of statistics (internal/stats/stats.go) for one adapter:   *)
(* goroutines count the bytes they move, the web console polls the status, *)
(* which samples the rate twice, and the user clears the counters.         *)
(*                                                                         *)
(* r.mu covers only the look-up of the counters: a goroutine adds to those *)
(* it has found, whether or not Reset has replaced them since.  A sampling *)
(* reads the two byte counters one after the other before it takes c.mu;   *)
(* Status holds a.mu around it.                                            *)
(*                                                                         *)
(* Abstractions.  Bytes move one at a time; the rate is per 0.2 s, the     *)
(* shortest time between two samplings that count, and is rounded up.      *)
(***************************************************************************)
EXTENDS Integers, Sequences, FiniteSets

CONSTANTS
    Streams,      \* goroutines that move bytes
    Pollers,      \* requests for the status
    MaxBytes,     \* bound: bytes moved
    MaxMade,      \* bound: counters ever made
    MaxTime,      \* bound: a sampling this long after the last one, or longer, is alike
    Wrap          \* the counters' range, 2^64

ASSUME StatisticsAssumption ==
    /\ IsFiniteSet(Streams)
    /\ MaxBytes \in Nat /\ MaxMade \in Nat /\ MaxTime \in Nat \ {0}
    /\ Wrap \in Nat /\ Wrap > MaxBytes

VARIABLES
    byID,         \* the place in `made' of the counters in use, 0 if there are none
    made,         \* all counters made so far
    adding,       \* the counters a stream has found and what it will add to
    poll,         \* the locals of each request for the status
    moved,        \* history: bytes looked up for, in all
    since         \* history: bytes looked up for since the last Reset

moving         == <<adding, moved, since>>
statisticsVars == <<byID, made, poll, moving>>

Zero    == [sent |-> 0, recv |-> 0, last |-> 0, rate |-> 0]
NoAdd   == [to |-> 0, what |-> "sent"]
NoPoll  == [at |-> "idle", pass |-> 1, on |-> 0, total |-> 0]
Total(k) == made[k].sent + made[k].recv
-----------------------------------------------------------------------------
(* get: the counters in use, made if there are none.                       *)
GetAnew ==
    /\ Len(made) < MaxMade
    /\ made' = Append(made, Zero) /\ byID' = Len(made) + 1
Get ==
    IF byID # 0 THEN UNCHANGED <<made, byID>>
    ELSE /\ Len(made) < MaxMade
         /\ made' = Append(made, Zero) /\ byID' = Len(made) + 1

(* The scheduler reads the registry. *)
Read == Get /\ UNCHANGED <<poll, moving>>

(* AddSent and AddRecv *)
Find(s, what) ==
    /\ adding[s] = NoAdd /\ moved < MaxBytes
    /\ Get
    /\ adding' = [adding EXCEPT ![s] = [to |-> byID', what |-> what]]
    /\ moved' = moved + 1 /\ since' = since + 1
    /\ UNCHANGED poll

Add(s) ==
    /\ adding[s] # NoAdd
    /\ made' = [made EXCEPT ![adding[s].to][adding[s].what] = @ + 1]
    /\ adding' = [adding EXCEPT ![s] = NoAdd]
    /\ UNCHANGED <<byID, poll, moved, since>>

Reset ==
    /\ byID' = 0 /\ since' = 0
    /\ UNCHANGED <<made, adding, poll, moved>>
-----------------------------------------------------------------------------
(* Status: Sample, and All, which samples again                            *)

StatusUnlocked(p) ==
    /\ poll[p].at = "idle"
    /\ poll' = [poll EXCEPT ![p].at = "collect"]
    /\ UNCHANGED <<byID, made, moving>>
Status(p) ==
    /\ \A q \in Pollers : poll[q].at = "idle"
    /\ poll' = [poll EXCEPT ![p].at = "collect"]
    /\ UNCHANGED <<byID, made, moving>>

(* Where a poll is when a sampling is through. *)
Sampled(p) == IF poll[p].pass = 1 THEN [NoPoll EXCEPT !.at = "collect", !.pass = 2] ELSE NoPoll

Collect(p) ==
    /\ poll[p].at = "collect"
    /\ poll' = [poll EXCEPT ![p] = IF byID = 0 THEN Sampled(p)
                                   ELSE [@ EXCEPT !.at = "sent", !.on = byID]]
    /\ UNCHANGED <<byID, made, moving>>

LoadSent(p) ==
    /\ poll[p].at = "sent"
    /\ poll' = [poll EXCEPT ![p].at = "recv", ![p].total = made[poll[p].on].sent]
    /\ UNCHANGED <<byID, made, moving>>

LoadRecv(p) ==
    /\ poll[p].at = "recv"
    /\ poll' = [poll EXCEPT ![p].at = "update", ![p].total = @ + made[poll[p].on].recv]
    /\ UNCHANGED <<byID, made, moving>>

(* 0.45 of what has been measured and 0.55 of what the rate was. *)
Smooth(rate, inst) == IF rate = 0 THEN inst ELSE (9 * inst + 11 * rate + 19) \div 20

TooSoon(p) ==
    /\ poll[p].at = "update"
    /\ poll' = [poll EXCEPT ![p] = Sampled(p)]
    /\ UNCHANGED <<byID, made, moving>>

(* `dt' since the last sampling; the difference of the totals is unsigned. *)
Sample(p) ==
    /\ poll[p].at = "update"
    /\ \E dt \in 1..MaxTime :
          LET was   == made[poll[p].on]
              delta == (poll[p].total - was.last) % Wrap
              inst  == (delta + dt - 1) \div dt
          IN  made' = [made EXCEPT ![poll[p].on] =
                          [was EXCEPT !.last = poll[p].total, !.rate = Smooth(was.rate, inst)]]
    /\ poll' = [poll EXCEPT ![p] = Sampled(p)]
    /\ UNCHANGED <<byID, moving>>
-----------------------------------------------------------------------------
StatisticsInit ==
    /\ byID = 0 /\ made = <<>>
    /\ adding = [s \in Streams |-> NoAdd]
    /\ poll = [p \in Pollers |-> NoPoll]
    /\ moved = 0 /\ since = 0

Poll(p) == Status(p) \/ Collect(p) \/ LoadSent(p) \/ LoadRecv(p) \/ TooSoon(p) \/ Sample(p)

StatisticsNext ==
    \/ \E s \in Streams : (\E what \in {"sent", "recv"} : Find(s, what)) \/ Add(s)
    \/ Read
    \/ Reset
    \/ \E p \in Pollers : Poll(p)

StatisticsSpec == StatisticsInit /\ [][StatisticsNext]_statisticsVars
-----------------------------------------------------------------------------
(* Properties                                                              *)

(* The rate that the weights follow is never more than what the adapter    *)
(* has moved: the unsigned difference of two totals does not go below      *)
(* zero, although each total is read in two steps, outside c.mu, while     *)
(* streams add and the counters are replaced, and Status samples twice.    *)
RateWithinTraffic == \A k \in DOMAIN made : made[k].rate <= Total(k)

(* The counters Status shows have each byte moved since the last Reset     *)
(* once, but for those on the way: no byte is added to counters that two   *)
(* goroutines have made at once, and what was on the way when the user     *)
(* cleared the statistics does not show up afterwards.                     *)
CountedOnce ==
    since = IF byID = 0 THEN 0
            ELSE Total(byID) + Cardinality({s \in Streams : adding[s].to = byID})
=============================================================================
