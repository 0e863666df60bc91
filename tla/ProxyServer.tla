---------------------------- MODULE ProxyServer ----------------------------
(***************************************************************************)
(* The lifecycle of the local HTTP and SOCKS5 proxy                        *)
(* (internal/proxy/server.go): Start and Stop as the API's request         *)
(* goroutines run them, each of them several critical sections of s.mu     *)
(* with the system calls outside.  App.StartProxy and App.StopProxy call   *)
(* them without holding a lock, so any number may overlap.                 *)
(*                                                                         *)
(* A listener is an identity that is free again once it is closed, its     *)
(* accept loop has returned and nobody refers to it.  The connections an   *)
(* accept loop hands to their handlers are left out.                       *)
(***************************************************************************)
EXTENDS Integers, FiniteSets

CONSTANTS
    Callers,      \* goroutines that call Start and Stop
    Configs,      \* the pairs of addresses the user may configure
    MayRefuse,    \* whether the system may refuse an address that is free
    Listeners,    \* bound: identities of listeners
    None,         \* no listener, no address
    MaxDeserted   \* bound: open listeners at a time whose accept loop has failed

Addrs == UNION {{cfg.http, cfg.socks} : cfg \in Configs}

ASSUME ProxyServerAssumption ==
    /\ MayRefuse \in BOOLEAN
    /\ None \notin Listeners /\ None \notin Addrs
    /\ IsFiniteSet(Listeners)
    /\ MaxDeserted \in Nat

VARIABLES
    status,       \* s.status
    config,       \* s.Config
    fields,       \* s.httpLn and s.socksLn
    addr,         \* the address each open listener is bound to, None if not open
    loops,        \* listeners with an accept loop that has not returned
    deserted,     \* open listeners whose accept loop has returned
    wg,           \* the counter of s.wg
    pc,           \* where each caller is
    mine          \* its local httpLn and socksLn

vars == <<status, config, fields, addr, loops, deserted, wg, pc, mine>>

NoPair == [http |-> None, socks |-> None]
Pair   == [http : Listeners \cup {None}, socks : Listeners \cup {None}]

IsOpen(l)  == addr[l] # None
InUse(x)   == \E l \in Listeners : addr[l] = x
Of(pair)   == {pair.http, pair.socks} \ {None}
Fresh(l)   == ~IsOpen(l) /\ l \notin loops \cup Of(fields) \cup UNION {Of(mine[c]) : c \in Callers}

Goto(c, from, to) == pc[c] = from /\ pc' = [pc EXCEPT ![c] = to]
Hold(c, pair)     == mine' = [mine EXCEPT ![c] = pair]
Close(l)          == /\ addr' = IF l = None THEN addr ELSE [addr EXCEPT ![l] = None]
                     /\ deserted' = deserted \ {l}
-----------------------------------------------------------------------------
(* Start                                                                   *)

StartBegins(c) ==
    /\ status \notin {"running", "starting"}
    /\ Goto(c, "idle", "listenHTTP")
    /\ status' = "starting"
    /\ UNCHANGED <<config, fields, addr, loops, deserted, wg, mine>>

(* net.Listen; the kernel refuses an address somebody is listening on. *)
ListenHTTP(c) ==
    /\ ~InUse(config.http)
    /\ Goto(c, "listenHTTP", "listenSOCKS")
    /\ \E l \in Listeners :
          /\ Fresh(l)
          /\ addr' = [addr EXCEPT ![l] = config.http]
          /\ Hold(c, [NoPair EXCEPT !.http = l])
    /\ UNCHANGED <<status, config, fields, loops, deserted, wg>>

HTTPRefused(c) ==
    /\ MayRefuse \/ InUse(config.http)
    /\ Goto(c, "listenHTTP", "failed")
    /\ UNCHANGED <<status, config, fields, addr, loops, deserted, wg, mine>>

ListenSOCKS(c) ==
    /\ ~InUse(config.socks)
    /\ Goto(c, "listenSOCKS", "publish")
    /\ \E l \in Listeners :
          /\ Fresh(l)
          /\ addr' = [addr EXCEPT ![l] = config.socks]
          /\ Hold(c, [mine[c] EXCEPT !.socks = l])
    /\ UNCHANGED <<status, config, fields, loops, deserted, wg>>

SOCKSRefusedKeepsHTTP(c) ==
    /\ MayRefuse \/ InUse(config.socks)
    /\ Goto(c, "listenSOCKS", "failed")
    /\ Hold(c, NoPair)
    /\ UNCHANGED <<status, config, fields, addr, loops, deserted, wg>>

(* The HTTP listener is closed again. *)
SOCKSRefused(c) ==
    /\ MayRefuse \/ InUse(config.socks)
    /\ Goto(c, "listenSOCKS", "failed")
    /\ Close(mine[c].http)
    /\ Hold(c, NoPair)
    /\ UNCHANGED <<status, config, fields, loops, wg>>

Fail(c) ==
    /\ Goto(c, "failed", "idle")
    /\ status' = "error"
    /\ UNCHANGED <<config, fields, addr, loops, deserted, wg, mine>>

Publish(c) ==
    /\ Goto(c, "publish", "serve")
    /\ fields' = mine[c]
    /\ status' = "running"
    /\ UNCHANGED <<config, addr, loops, deserted, wg, mine>>

(* wg.Add(2), and the accept loops are started. *)
ServeAddsOne(c) ==
    /\ Goto(c, "serve", "idle")
    /\ wg' = wg + 1
    /\ loops' = loops \cup Of(mine[c])
    /\ Hold(c, NoPair)
    /\ UNCHANGED <<status, config, fields, addr, deserted>>

Serve(c) ==
    /\ Goto(c, "serve", "idle")
    /\ wg' = wg + 2
    /\ loops' = loops \cup Of(mine[c])
    /\ Hold(c, NoPair)
    /\ UNCHANGED <<status, config, fields, addr, deserted>>
-----------------------------------------------------------------------------
(* acceptLoop returns at the first error of Accept and calls wg.Done; the  *)
(* last one releases the callers that wait.                                *)
Return(l) ==
    /\ l \in loops
    /\ loops' = loops \ {l}
    /\ wg' = wg - 1
    /\ pc' = [c \in Callers |-> IF pc[c] = "waiting" /\ wg' = 0 THEN "woken" ELSE pc[c]]
    /\ UNCHANGED <<status, config, fields, addr, mine>>

(* Accept fails because the listener has been closed ... *)
AcceptLoopEnds(l) ==
    /\ ~IsOpen(l)
    /\ Return(l)
    /\ UNCHANGED deserted

(* ... or because the process has run out of file descriptors, say.        *)
AcceptFails(l) ==
    /\ IsOpen(l)
    /\ Cardinality(deserted) < MaxDeserted
    /\ Return(l)
    /\ deserted' = deserted \cup {l}
-----------------------------------------------------------------------------
(* Stop                                                                    *)

StopBeginsUnmarked(c) ==
    /\ status \in {"running", "starting", "error"}
    /\ Goto(c, "idle", "closeHTTP")
    /\ Hold(c, fields)
    /\ fields' = NoPair
    /\ UNCHANGED <<status, config, addr, loops, deserted, wg>>

StopBegins(c) ==
    /\ status \in {"running", "starting", "error"}
    /\ Goto(c, "idle", "closeHTTP")
    /\ status' = "stopping"
    /\ Hold(c, fields)
    /\ fields' = NoPair
    /\ UNCHANGED <<config, addr, loops, deserted, wg>>

CloseHTTP(c) ==
    /\ Goto(c, "closeHTTP", "closeSOCKS")
    /\ Close(mine[c].http)
    /\ UNCHANGED <<status, config, fields, loops, wg, mine>>

CloseSOCKS(c) ==
    /\ Goto(c, "closeSOCKS", "wait")
    /\ Close(mine[c].socks)
    /\ UNCHANGED <<status, config, fields, loops, wg, mine>>

WaitNever(c) ==
    /\ Goto(c, "wait", "stopped")
    /\ UNCHANGED <<status, config, fields, addr, loops, deserted, wg, mine>>

Wait(c) ==
    /\ Goto(c, "wait", IF wg = 0 THEN "stopped" ELSE "waiting")
    /\ UNCHANGED <<status, config, fields, addr, loops, deserted, wg, mine>>

(* sync.WaitGroup panics in a waiter that wakes up to find the counter in  *)
(* use again.  net/http recovers the panic of a request, so the call just  *)
(* ends; the status stays what it is.                                      *)
Wake(c) ==
    /\ Goto(c, "woken", IF wg = 0 THEN "stopped" ELSE "idle")
    /\ Hold(c, IF wg = 0 THEN mine[c] ELSE NoPair)
    /\ UNCHANGED <<status, config, fields, addr, loops, deserted, wg>>

SetStopped(c) ==
    /\ Goto(c, "stopped", "idle")
    /\ status' = "stopped"
    /\ Hold(c, NoPair)
    /\ UNCHANGED <<config, fields, addr, loops, deserted, wg>>
-----------------------------------------------------------------------------
(* App.StartProxy writes the addresses before it calls Start, without s.mu. *)
Configure ==
    /\ config' \in Configs
    /\ UNCHANGED <<status, fields, addr, loops, deserted, wg, pc, mine>>

(* The process ends, whatever its calls are doing, and is started again;   *)
(* the kernel has closed its listeners.                                    *)
Restart ==
    /\ status' = "stopped" /\ config' \in Configs /\ fields' = NoPair
    /\ addr' = [l \in Listeners |-> None] /\ loops' = {} /\ deserted' = {} /\ wg' = 0
    /\ pc' = [c \in Callers |-> "idle"] /\ mine' = [c \in Callers |-> NoPair]

Init ==
    /\ status = "stopped"
    /\ config \in Configs
    /\ fields = NoPair
    /\ addr   = [l \in Listeners |-> None]
    /\ loops  = {} /\ deserted = {}
    /\ wg     = 0
    /\ pc     = [c \in Callers |-> "idle"]
    /\ mine   = [c \in Callers |-> NoPair]

StartStep(c) == \/ ListenHTTP(c) \/ HTTPRefused(c) \/ ListenSOCKS(c) \/ SOCKSRefused(c)
                \/ Fail(c) \/ Publish(c) \/ Serve(c)
StopStep(c)  == CloseHTTP(c) \/ CloseSOCKS(c) \/ Wait(c) \/ Wake(c) \/ SetStopped(c)

(* What happens while the process runs. *)
Life ==
    \/ \E c \in Callers : StartBegins(c) \/ StopBegins(c) \/ StartStep(c) \/ StopStep(c)
    \/ \E l \in Listeners : AcceptLoopEnds(l) \/ AcceptFails(l)
    \/ Configure

Next == Life \/ Restart

Spec == Init /\ [][Next]_vars

(* One process, since another one begins like the first: a call in         *)
(* progress goes on, and Accept on a closed listener returns.              *)
FairSpec ==
    /\ Init /\ [][Life]_vars
    /\ \A c \in Callers : WF_vars(StartStep(c) \/ StopStep(c))
    /\ \A l \in Listeners : WF_vars(AcceptLoopEnds(l))
-----------------------------------------------------------------------------
(* Properties                                                              *)

TypeOK ==
    /\ status \in {"stopped", "starting", "running", "stopping", "error"}
    /\ config \in Configs
    /\ fields \in Pair
    /\ addr \in [Listeners -> Addrs \cup {None}]
    /\ loops \in SUBSET Listeners /\ deserted \in SUBSET Listeners
    /\ wg \in Nat
    /\ pc \in [Callers -> {"idle", "listenHTTP", "listenSOCKS", "publish", "serve", "failed",
                           "closeHTTP", "closeSOCKS", "wait", "waiting", "woken", "stopped"}]
    /\ mine \in [Callers -> Pair]

AtRest == \A c \in Callers : pc[c] = "idle"

(* However calls overlap, a status of "running" is true: both listeners    *)
(* are known to the server and open.                                       *)
RunningIsListening ==
    status = "running" =>
        /\ fields.http # None /\ IsOpen(fields.http)
        /\ fields.socks # None /\ IsOpen(fields.socks)
        /\ fields.http # fields.socks

(* No listener is left open with nobody to accept: at rest an open         *)
(* listener has its accept loop, unless Accept itself has failed on it.    *)
OpenIsServed == AtRest => \A l \in Listeners : IsOpen(l) => l \in loops \cup deserted

(* s.wg counts the accept loops: it never goes below zero and never stays  *)
(* up when they are gone.                                                  *)
WaitGroupCounts == wg = Cardinality(loops)

(* "Stop closes listeners": a server at rest that says it is stopped has   *)
(* no open listener.                                                       *)
StoppedIsClosed == AtRest /\ status = "stopped" => \A l \in Listeners : ~IsOpen(l)

(* "... and waits for accept loops": when Stop reports, the loops of the   *)
(* listeners it closed are neither running nor about to be started.        *)
StopWaits ==
    \A c \in Callers : pc[c] = "stopped" =>
        /\ Of(mine[c]) \cap loops = {}
        /\ \A d \in Callers : pc[d] = "serve" => Of(mine[d]) \cap Of(mine[c]) = {}

(* While calls do not overlap, Stop does what its comment says: it closes   *)
(* the listeners, waits for their accept loops, and returns.               *)
OneCallAtATime == Cardinality({c \in Callers : pc[c] # "idle"}) <= 1
Stopping(c)    == pc[c] \in {"closeHTTP", "closeSOCKS", "wait", "waiting", "woken", "stopped"}
SerialStop ==
    []OneCallAtATime =>
        /\ [](StoppedIsClosed /\ StopWaits)
        /\ \A c \in Callers : Stopping(c) ~> status = "stopped"
=============================================================================
