-------------------------------- MODULE App --------------------------------
(***************************************************************************)
(* The application controller (internal/app/app.go) over the proxy server  *)
(* and the system proxy of macOS (internal/sysproxy/sysproxy_darwin.go):   *)
(* StartProxy, StopProxy and SetListenAddrs as the requests of the web     *)
(* console run them; the shutdown on a signal, one more StopProxy, which   *)
(* does not wait for the requests; and the end of the process, by its exit *)
(* or a crash, after which it is started again with nothing in memory.     *)
(*                                                                         *)
(* a.mu covers only the first lines of StartProxy and SetListenAddrs; the  *)
(* system proxy has a mutex of its own, which Enable and Disable hold for  *)
(* as long as their `networksetup' commands run.  A network service has    *)
(* three proxies, each a server and whether it is on.  The code treats the *)
(* three alike and apart from each other, and one of them stands for all:  *)
(* its server is the user's, LinkPool at a pair of addresses, or none; and *)
(* the setting is `Partly' when a command has failed on the way.           *)
(***************************************************************************)
EXTENDS ProxyServer

CONSTANTS
    Services,     \* the network services Enable considers
    Flaky,        \* those on which a `networksetup' command may fail
    User,         \* a server that is not LinkPool
    Usual,        \* the settings a service may have before LinkPool is first used
    SetTurnsOn,   \* whether `networksetup -setwebproxy' also switches the proxy on
    Partly        \* a setting that is partly changed

Settings == [on : BOOLEAN, server : Configs \cup {User, None}]

ASSUME AppAssumption ==
    /\ Configs \subseteq [http : Addrs, socks : Addrs]
    /\ Flaky \subseteq Services
    /\ {User, None} \cap Configs = {} /\ User # None
    /\ Usual \subseteq [on : BOOLEAN, server : {User, None}] /\ SetTurnsOn \in BOOLEAN
    /\ {Partly, None} \cap Settings = {} /\ Partly # None

VARIABLES
    addrs,        \* a.HTTPAddr and a.SOCKSAddr
    call,         \* what each caller is doing
    asked,        \* its locals: the addresses, whether to set the system proxy, to quit
    setting,      \* what the system uses for each service
    enabled,      \* m.enabled
    services,     \* m.services
    backup,       \* m.backup
    left          \* history: services that were left with what is LinkPool's

sysVars == <<setting, enabled, services, backup, left>>
appVars == <<vars, addrs, call, asked, sysVars>>

Nothing       == [addrs |-> NoPair, sys |-> FALSE, quit |-> FALSE]
NoBackup      == [s \in Services |-> None]

(* What applyService leaves of a service that it sends to LinkPool.        *)
Sent(pair) == [on |-> TRUE, server |-> pair]

(* What restoreService makes of setting v from backup b.  It switches the  *)
(* proxy off, sets the server that was saved unless there was none, and    *)
(* switches the proxy on again if it was on.                               *)
Restored(b, v) ==
    IF b = Partly THEN Partly
    ELSE [on     |-> b.on \/ (b.server # None /\ SetTurnsOn),
          server |-> IF b.server = None THEN v.server ELSE b.server]

(* What a service has or, if it is sent to LinkPool, would get back.       *)
Own == [s \in Services |-> IF s \in services THEN Restored(backup[s], setting[s]) ELSE setting[s]]

(* A service with this setting goes through LinkPool, or would once Enable *)
(* took it for the user's and Disable put it back.                         *)
Ours(v) == v # Partly /\ v.server \in Configs /\ (v.on \/ SetTurnsOn)

(* A caller goes on; when its request is over its locals are gone.         *)
Turn(c, from, to) ==
    /\ call[c] = from
    /\ call'  = [call EXCEPT ![c] = to]
    /\ asked' = [asked EXCEPT ![c] = IF to = "none" THEN Nothing ELSE @]
ServerIdle    == UNCHANGED <<status, fields, addr, loops, deserted, wg, pc, mine>>
-----------------------------------------------------------------------------
(* StartProxy                                                              *)

StartProxy(c, sys) ==
    /\ call[c] = "none" /\ call' = [call EXCEPT ![c] = "start"]
    /\ config' = addrs
    /\ asked' = [asked EXCEPT ![c] = [addrs |-> addrs, sys |-> sys, quit |-> FALSE]]
    /\ ServerIdle /\ UNCHANGED <<addrs, sysVars>>

(* The rest of StartProxy once the server has started. *)
Started(c) == IF asked[c].sys THEN "enable" ELSE "none"

(* Proxy.Start begins, or finds that the server runs and returns. *)
CallStart(c) ==
    /\ \/ StartBegins(c) /\ Turn(c, "start", "starting")
       \/ /\ status \in {"running", "starting"}
          /\ Turn(c, "start", Started(c))
          /\ UNCHANGED vars
    /\ UNCHANGED <<addrs, sysVars>>

(* Proxy.Start goes on and returns. *)
StartingServer(c) ==
    /\ call[c] = "starting"
    /\ StartStep(c)
    /\ Turn(c, "starting", IF pc'[c] # "idle" THEN "starting"
                           ELSE IF pc[c] = "serve" THEN Started(c) ELSE "none")
    /\ UNCHANGED <<addrs, sysVars>>

EnableAgain(c) ==
    /\ Turn(c, "enable", "none")
    /\ services' = Services /\ enabled' = TRUE /\ backup' = setting
    /\ setting' = [s \in Services |-> Sent(asked[c].addrs)]
    /\ UNCHANGED <<vars, addrs, left>>

(* Enable: what each service has when its commands are through.  A service *)
(* that cannot be read is left alone; one whose commands fail on the way   *)
(* is not among those to restore.  The list of services may not be had.    *)
Enable(c) ==
    /\ Turn(c, "enable", "none")
    /\ \/ (enabled \/ Flaky # {}) /\ UNCHANGED sysVars
       \/ /\ ~enabled
          /\ \E unread \in SUBSET Flaky, partly \in SUBSET Flaky :
               /\ unread \cap partly = {}
               /\ services' = Services \ (unread \cup partly)
               /\ enabled'  = (services' # {})
               /\ backup'   = [s \in Services |-> IF s \in unread THEN None ELSE setting[s]]
               /\ setting'  = [s \in Services |->
                      IF s \in unread THEN setting[s]
                      ELSE IF s \in partly THEN Partly ELSE Sent(asked[c].addrs)]
               /\ UNCHANGED left
    /\ UNCHANGED <<vars, addrs>>
-----------------------------------------------------------------------------
(* StopProxy                                                               *)

(* Disable restores every service on its list.  A command that fails is    *)
(* not noticed, nor that LinkPool's server stays where none was saved.     *)
Disable(c, quit) ==
    /\ call[c] = "none" /\ call' = [call EXCEPT ![c] = "stop"]
    /\ asked' = [asked EXCEPT ![c].quit = quit]
    /\ IF ~enabled THEN UNCHANGED sysVars
       ELSE \E partly \in SUBSET (Flaky \cap services) :
               /\ setting' = [s \in Services |-> IF s \in partly THEN Partly ELSE Own[s]]
               /\ enabled' = FALSE /\ services' = {} /\ backup' = NoBackup
               /\ left' = left \cup {s \in services : Ours(setting'[s])}
    /\ UNCHANGED <<vars, addrs>>

(* The signal handler calls StopProxy and exits. *)
Quitting == \E c \in Callers : asked[c].quit
After(c) == IF asked[c].quit THEN "exit" ELSE "none"

Shutdown(c) == ~Quitting /\ Disable(c, TRUE)

CallStopInBackground(c) ==
    /\ \/ StopBegins(c)
       \/ status \in {"stopped", "stopping"} /\ UNCHANGED vars
    /\ Turn(c, "stop", After(c))
    /\ UNCHANGED <<addrs, sysVars>>

(* Proxy.Stop begins, or finds nothing to stop and returns. *)
CallStop(c) ==
    /\ \/ StopBegins(c) /\ Turn(c, "stop", "stopping")
       \/ /\ status \in {"stopped", "stopping"}
          /\ Turn(c, "stop", After(c))
          /\ UNCHANGED vars
    /\ UNCHANGED <<addrs, sysVars>>

(* Proxy.Stop goes on and returns, or net/http recovers its panic. *)
StoppingServer(c) ==
    /\ StopStep(c)
    /\ Turn(c, "stopping", IF pc'[c] = "idle" THEN After(c) ELSE "stopping")
    /\ UNCHANGED <<addrs, sysVars>>
-----------------------------------------------------------------------------
SetListenAddrsAnyTime(pair) ==
    /\ addrs' = pair
    /\ UNCHANGED <<vars, call, asked, sysVars>>

(* Refused while the proxy runs; an empty field keeps an address. *)
SetListenAddrs(pair) ==
    /\ status \notin {"running", "starting"}
    /\ addrs' = pair
    /\ UNCHANGED <<vars, call, asked, sysVars>>

(* The accept loops, which belong to no caller. *)
Accepting ==
    /\ \E l \in Listeners : AcceptLoopEnds(l) \/ AcceptFails(l)
    /\ UNCHANGED <<addrs, call, asked, sysVars>>

-----------------------------------------------------------------------------
(* The end of the process                                                  *)

(* What Enable or Disable, if it is under way, would leave in the end.     *)
Targets ==
    {setting, Own} \cup {[s \in Services |-> Sent(asked[c].addrs)] :
                            c \in {d \in Callers : call[d] = "enable" /\ ~enabled}}

(* Its commands have been through for some services, and for one they are  *)
(* on the way; nothing of the program's own state survives.                *)
ProcessEnds ==
    /\ Restart
    /\ addrs' = config'
    /\ call'  = [c \in Callers |-> "none"]
    /\ asked' = [c \in Callers |-> Nothing]
    /\ \E target \in Targets, through, half \in SUBSET Services :
          /\ Cardinality(half \ Flaky) <= 1
          /\ half # {} => target # setting
          /\ setting' = [s \in Services |-> IF s \in half THEN Partly
                                            ELSE IF s \in through THEN target[s] ELSE setting[s]]
    /\ left' = {s \in Services : setting'[s] = Partly \/ Ours(setting'[s])}
    /\ enabled' = FALSE /\ services' = {} /\ backup' = NoBackup

AppInit ==
    /\ Init
    /\ addrs    = config
    /\ call     = [c \in Callers |-> "none"]
    /\ asked    = [c \in Callers |-> Nothing]
    /\ setting  \in [Services -> Usual]
    /\ enabled  = FALSE
    /\ services = {}
    /\ backup   = NoBackup
    /\ left     = {}

Request(c) == (\E sys \in BOOLEAN : StartProxy(c, sys)) \/ Disable(c, FALSE) \/ Shutdown(c)
Proceed(c) == \/ CallStart(c) \/ StartingServer(c) \/ Enable(c)
              \/ CallStop(c) \/ StoppingServer(c)

AppNext ==
    \/ \E c \in Callers : Request(c) \/ Proceed(c)
    \/ \E pair \in Configs : SetListenAddrs(pair)
    \/ Accepting
    \/ ProcessEnds

AppSpec == AppInit /\ [][AppNext]_appVars
-----------------------------------------------------------------------------
(* Properties                                                              *)

AppTypeOK ==
    /\ TypeOK
    /\ addrs \in Configs
    /\ call \in [Callers -> {"none", "start", "starting", "enable", "stop", "stopping", "exit"}]
    /\ asked \in [Callers -> [addrs : Configs \cup {NoPair}, sys : BOOLEAN, quit : BOOLEAN]]
    /\ setting \in [Services -> Settings \cup {Partly}]
    /\ enabled \in BOOLEAN
    /\ services \in SUBSET Services
    /\ backup \in [Services -> Settings \cup {Partly, None}]
    /\ left \in SUBSET Services
    /\ \A c \in Callers : pc[c] # "idle" => call[c] \in {"starting", "stopping"}

NoRequest    == \A c \in Callers : call[c] = "none"
Exiting      == \E c \in Callers : call[c] = "exit"
OneRequest   == Cardinality({c \in Callers : call[c] # "none"}) <= 1
ListeningOn  == [http |-> addr[fields.http], socks |-> addr[fields.socks]]

(* However requests overlap, a service that is sent to LinkPool can be set *)
(* back: it is on the list of Disable with something that was not LinkPool *)
(* itself.  Two things leave services behind that none can set back: a     *)
(* process that ended while the system proxy was on, or half-way through   *)
(* its commands, as the backup is in memory; and a Disable that left       *)
(* LinkPool's server where another Enable and Disable would switch it on   *)
(* (where SetTurnsOn, or in a proxy that was on without a server).         *)
CanBeUndone ==
    \A s \in Services \ left :
        /\ Ours(setting[s]) => enabled /\ s \in services
        /\ s \in services => ~Ours(backup[s])

(* While requests do not overlap, and no SetListenAddrs comes between the  *)
(* steps of a StartProxy, the system proxy is on only while the server     *)
(* listens, services are sent to the addresses it listens on, and those    *)
(* are the addresses Status shows; and the program exits only when it has  *)
(* closed its listeners and sends no service to itself.                    *)
Serial ==
    /\ OneRequest
    /\ \A c \in Callers : call[c] \in {"start", "starting", "enable"} => asked[c].addrs = addrs
SerialSysProxy ==
    []Serial => []
        /\ NoRequest =>
              /\ enabled => status = "running"
              /\ status = "running" =>
                    /\ addrs = ListeningOn
                    /\ \A s \in services : setting[s] = Sent(ListeningOn)
        /\ Exiting =>
              /\ \A l \in Listeners : ~IsOpen(l)
              /\ \A s \in Services \ left : ~Ours(setting[s])

(* While requests do not overlap, whatever refusals, failing commands and  *)
(* ends of the process, the application is the switch its user sees.       *)
Shows     == IF status = "error" THEN "stopped" ELSE status
OpenPorts == {addr[l] : l \in {k \in Listeners : IsOpen(k)}}

Promise == INSTANCE Switch WITH
    shown <- addrs,
    phase <- Shows,
    ports <- OpenPorts,
    sent  <- services,
    own   <- Own,
    ended <- Exiting

SerialActsAsSwitch == []Serial => Promise!Safety

(* What Disable would give back, or a service has that is not sent to      *)
(* LinkPool, changes by a failing command, when a process ends, or when    *)
(* Enable takes over a setting that restoreService does not give back      *)
(* exactly: one without a server, or with a proxy that is off where        *)
(* setting the server switches it on.                                      *)
Exact(v) == v = Partly \/ (v.server # None /\ (SetTurnsOn => v.on))
GivesBack ==
    [][\A s \in Services : Own'[s] # Own[s] =>
           \/ s \in Flaky /\ Own'[s] = Partly
           \/ ~Exact(Own[s]) /\ \E pair \in Configs : Own'[s] = Restored(Own[s], Sent(pair))
           \/ ProcessEnds]_appVars

(* "Disable restores previous proxy settings." (sysproxy_darwin.go:77)     *)
DisableRestores ==
    [][\A c \in Callers, quit \in BOOLEAN : Disable(c, quit) /\ enabled =>
           \A s \in services : setting'[s] = backup[s]]_appVars
=============================================================================
