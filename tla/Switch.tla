------------------------------- MODULE Switch -------------------------------
(***************************************************************************)
(* What a user of LinkPool's switches (internal/app/app.go) may count on   *)
(* who makes one request at a time: the proxy opens both its ports before  *)
(* it runs, services are sent to it only while it does and only to the     *)
(* addresses on show, and it closes no port before they have got back what *)
(* they had, as far as that is given back: a service without a server of   *)
(* its own keeps the proxy's, and a server may come back switched on that  *)
(* was not.  What a service would get back changes further only when a     *)
(* command fails on it, or the process ends at the wrong moment.           *)
(***************************************************************************)
EXTENDS Integers

CONSTANTS
    Configs,      \* the pairs of addresses the proxy may have
    Services,     \* the network services
    Flaky,        \* those on which a command may fail
    None,         \* no server
    Usual,        \* the settings a service may have before the first use
    SetTurnsOn,   \* whether setting a server switches it on
    Partly        \* a setting that is partly changed

VARIABLES
    shown,        \* the addresses on show
    phase,        \* of the proxy
    ports,        \* the addresses it has open
    setting,      \* what the system uses for each service
    sent,         \* the services that are sent to the proxy
    own,          \* what each service has, or would get back
    ended         \* whether the program is done

proxyVars == <<shown, phase, ports>>
sysVars   == <<setting, sent, own>>
vars      == <<proxyVars, sysVars, ended>>

Both(pair) == {pair.http, pair.socks}

Init ==
    /\ shown \in Configs
    /\ phase = "stopped" /\ ports = {}
    /\ setting \in [Services -> Usual] /\ sent = {} /\ own = setting
    /\ ended = FALSE
-----------------------------------------------------------------------------
(* The proxy                                                               *)

Move(from, to) == phase \in from /\ phase' = to

Start ==
    /\ Move({"stopped"}, "starting")
    /\ ports = {} /\ ~ended
    /\ UNCHANGED <<shown, ports, sysVars, ended>>

Listen ==
    /\ phase = "starting"
    /\ \E x \in Both(shown) \ ports : ports' = ports \cup {x}
    /\ UNCHANGED <<shown, phase, sysVars, ended>>

Refuse ==
    /\ phase = "starting"
    /\ ports' = {}
    /\ UNCHANGED <<shown, phase, sysVars, ended>>

Fail ==
    /\ Move({"starting"}, "stopped")
    /\ ports = {}
    /\ UNCHANGED <<shown, ports, sysVars, ended>>

Run ==
    /\ Move({"starting"}, "running")
    /\ ports = Both(shown)
    /\ UNCHANGED <<shown, ports, sysVars, ended>>

(* Also after a Start that failed. *)
Stop ==
    /\ Move({"running", "stopped"}, "stopping")
    /\ sent = {}
    /\ UNCHANGED <<shown, ports, sysVars, ended>>

Close ==
    /\ phase = "stopping"
    /\ \E x \in ports : ports' = ports \ {x}
    /\ UNCHANGED <<shown, phase, sysVars, ended>>

(* The program may end with the Stop that was its last request. *)
Closed ==
    /\ Move({"stopping"}, "stopped")
    /\ ports = {}
    /\ ended' \in {ended, TRUE}
    /\ UNCHANGED <<shown, ports, sysVars>>

SetAddrs ==
    /\ phase \in {"stopped", "stopping"} /\ sent = {}
    /\ shown' \in Configs
    /\ UNCHANGED <<phase, ports, sysVars, ended>>

Quit ==
    /\ phase = "stopped" /\ ports = {} /\ sent = {}
    /\ ended' = TRUE
    /\ UNCHANGED <<proxyVars, sysVars>>
-----------------------------------------------------------------------------
(* The system proxy                                                        *)

(* Commands fail on the way on some of these services, and nowhere else:   *)
(* the rest have, or would get back, what `has' says.                      *)
Spoil(some, has) ==
    \E partly \in SUBSET (some \cap Flaky) :
        own' = [s \in Services |-> IF s \in partly THEN Partly ELSE has[s]]

Proxied == [on |-> TRUE, server |-> shown]
Used    == [s \in Services |-> IF s \in sent THEN Proxied ELSE own[s]]

(* What is given back of a setting when it has been sent to the proxy.     *)
Back(v) ==
    IF v = Partly THEN Partly
    ELSE [on     |-> v.on \/ (v.server # None /\ SetTurnsOn),
          server |-> IF v.server = None THEN shown ELSE v.server]

Send ==
    /\ phase = "running" /\ sent = {} /\ ~ended
    /\ sent' \in SUBSET Services
    /\ Services \ sent' \subseteq Flaky
    /\ Spoil(Services \ sent', [s \in Services |-> IF s \in sent' THEN Back(own[s]) ELSE own[s]])
    /\ setting' = Used'
    /\ UNCHANGED <<proxyVars, ended>>

Restore ==
    /\ Spoil(sent, own)
    /\ sent' = {}
    /\ setting' = Used'
    /\ UNCHANGED <<proxyVars, ended>>
-----------------------------------------------------------------------------
(* The process ends, maybe in the middle of Send or Restore, and is        *)
(* started again: what it had changed stays.                               *)
Crash ==
    /\ phase' = "stopped" /\ ports' = {} /\ shown' \in Configs
    /\ \A s \in Services : setting'[s] \in {setting[s], own[s], Proxied, Partly}
    /\ sent' = {} /\ own' = setting' /\ ended' = FALSE

Next ==
    \/ Start \/ Listen \/ Refuse \/ Fail \/ Run \/ Stop \/ Close \/ Closed
    \/ SetAddrs \/ Quit \/ Send \/ Restore \/ Crash

Safety == Init /\ [][Next]_vars
=============================================================================
