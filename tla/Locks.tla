------------------------------- MODULE Locks -------------------------------
(***************************************************************************)
(* Which mutexes the requests of the web console and the goroutines of the *)
(* proxy hold while they ask for further ones (internal/app/app.go,        *)
(* internal/api/api.go, internal/scheduler/scheduler.go,                   *)
(* internal/stats/stats.go, internal/proxy/server.go).                     *)
(*                                                                         *)
(* Status, which every request ends with, holds the application's mutex    *)
(* over those of the registry, the system proxy and the scheduler; and the *)
(* system proxy holds its own while its commands run.  A Stop also waits   *)
(* for the accept loops of the server, without a mutex.  What the critical *)
(* sections do and when the loops end is the matter of the other modules.  *)
(* The mutexes of the rules and of the downloads are never held over       *)
(* another one and are left out.                                           *)
(***************************************************************************)
EXTENDS Integers, Sequences

CONSTANTS
    Requests,     \* requests of the web console
    Goroutines,   \* the goroutines of connections and downloads
    None          \* nobody

ASSUME LocksAssumption == None \notin Requests \cup Goroutines

(* App.mu, sysproxy.Manager.mu, Server.mu, Scheduler.mu, Registry.mu and   *)
(* counters.mu.                                                            *)
Mutexes == {"app", "system", "server", "scheduler", "registry", "counters"}

Lock(m)   == [op |-> "lock", on |-> m]
Unlock(m) == [op |-> "unlock", on |-> m]
Wait      == [op |-> "wait", on |-> "loops"]

(* What is done with a mutex held. *)
With(m, inside) == <<Lock(m)>> \o inside \o <<Unlock(m)>>
Briefly(m)      == With(m, <<>>)
-----------------------------------------------------------------------------
(* What each function locks                                                *)

LookUp    == Briefly("registry")
Sampling == LookUp \o Briefly("counters")
All    == Sampling \o With("registry", Briefly("counters"))

(* RateBps, Active and Errors; a demoted adapter or the static mode does without. *)
Weigh == LookUp \o Briefly("counters") \o LookUp \o LookUp

(* The scheduler's methods that weigh adapters, and the others. *)
Weighing   == With("scheduler", Weigh)
Scheduling == Briefly("scheduler")

(* Proxy.Status, then Sample, Enabled, Len, Mode, EffectiveWeights and All *)
ShowStatus ==
    Briefly("server") \o With("app",
        Sampling \o Briefly("system") \o Scheduling \o Scheduling \o Weighing \o All)

ChangeSelection == With("app", Weighing)
SetListenAddrs  == With("app", Briefly("server"))

Refused    == With("app", Scheduling)
StartProxy == Refused \o Briefly("server") \o Briefly("server") \o Briefly("system")
(* A server that runs is closed, waited for and marked as stopped. *)
StopTellingApp == With("system", Briefly("app")) \o Briefly("server") \o <<Wait>> \o Briefly("server")
StopWaitingLocked == Briefly("system") \o With("server", <<Wait>>)
StopProxy   == Briefly("system") \o Briefly("server") \o <<Wait>> \o Briefly("server")
StopIdle    == Briefly("system") \o Briefly("server")

(* The requests of the console, which answer with the status. *)
Starting  == {Refused \o ShowStatus, StartProxy \o ShowStatus}
Stopping  == {StopIdle \o ShowStatus, StopProxy \o ShowStatus}
Polling   == {ShowStatus}
Listening == {SetListenAddrs \o ShowStatus}
Clearing  == {LookUp \o ShowStatus}

Actors == Requests \cup Goroutines
Programs(a) ==
    IF a \in Goroutines THEN {Weighing, Scheduling, LookUp}
    ELSE {ChangeSelection, Weighing} \cup Starting \cup Stopping \cup Polling
         \cup Listening \cup Clearing
-----------------------------------------------------------------------------
VARIABLES
    holder,       \* who holds each mutex
    rest          \* what each actor has still to do

lockVars == <<holder, rest>>

LocksInit ==
    /\ holder = [m \in Mutexes |-> None]
    /\ rest = [a \in Actors |-> <<>>]

Busy(a)    == rest[a] # <<>>
Waiting(a) == Busy(a) /\ Head(rest[a]).op = "wait"

Begin(a) ==
    /\ ~Busy(a)
    /\ \E program \in Programs(a) : rest' = [rest EXCEPT ![a] = program]
    /\ UNCHANGED holder

Acquire(a) ==
    /\ Busy(a) /\ Head(rest[a]).op = "lock" /\ holder[Head(rest[a]).on] = None
    /\ holder' = [holder EXCEPT ![Head(rest[a]).on] = a]
    /\ rest' = [rest EXCEPT ![a] = Tail(@)]

Release(a) ==
    /\ Busy(a) /\ Head(rest[a]).op = "unlock"
    /\ holder' = [holder EXCEPT ![Head(rest[a]).on] = None]
    /\ rest' = [rest EXCEPT ![a] = Tail(@)]

GoOn(a) == Acquire(a) \/ Release(a)

(* The accept loops are gone, and the Stop that waited for them goes on;   *)
(* or others were started meanwhile, and it panics: net/http recovers, and *)
(* the request is over.                                                    *)
Wake(a) ==
    /\ Waiting(a)
    /\ \E program \in {Tail(rest[a]), <<>>} : rest' = [rest EXCEPT ![a] = program]
    /\ UNCHANGED holder

LocksNext == \E a \in Actors : Begin(a) \/ GoOn(a) \/ Wake(a)

(* A mutex hands itself to the longest waiter when that one has waited for *)
(* a millisecond; what is done with a mutex held, the commands of the      *)
(* system proxy included, ends.  Nothing says that a wait for the accept   *)
(* loops ends: a Start that overlaps the Stop adds its own loops to the    *)
(* same wait group, and they run as long as the new server does.           *)
LocksFair == \A a \in Actors : SF_lockVars(GoOn(a))

LocksSpec == LocksInit /\ [][LocksNext]_lockVars /\ LocksFair
-----------------------------------------------------------------------------
(* Properties                                                              *)

(* Never does everyone wait for everyone: while anybody is busy who is not *)
(* a Stop waiting for the accept loops, one such has a mutex to give back  *)
(* or can have the one he asks for; and a Stop holds none while it waits.  *)
Going(a) == Busy(a) /\ ~Waiting(a)
NoDeadlock ==
    /\ (\E a \in Actors : Going(a)) =>
           \E a \in Actors : Going(a) /\ (Head(rest[a]).op = "unlock"
                                          \/ holder[Head(rest[a]).on] = None)
    /\ \A a \in Actors, m \in Mutexes : Waiting(a) => holder[m] # a

(* Every request ends or is a Stop that waits for the accept loops,        *)
(* although Status waits with the application's mutex for the commands of  *)
(* the system proxy, and other requests for it; a Stop that waits for ever *)
(* keeps no other request from ending.                                     *)
RequestsEnd == \A a \in Actors : Busy(a) ~> (~Busy(a) \/ Waiting(a))
=============================================================================
