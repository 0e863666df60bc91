----------------------------- MODULE AppProofs -----------------------------
(***************************************************************************)
(* Proofs about App for any number of callers, addresses and services: the *)
(* requests act on the proxy server only as its own specification allows,  *)
(* so what holds of the server holds under the application; a service that *)
(* is sent to LinkPool can always be set back; and requests that do not    *)
(* overlap leave server, system proxy and addresses in agreement.          *)
(***************************************************************************)
EXTENDS App, ProxyServerProofs

USE AppAssumption
-----------------------------------------------------------------------------
(* The server under the application                                        *)

AddrsKnown == addrs \in Configs

LEMMA AddrsInit == AppInit => AddrsKnown
  BY DEF AppInit, Init, AddrsKnown

LEMMA AddrsStep == AddrsKnown /\ [AppNext]_appVars => AddrsKnown'
<1>. SUFFICES ASSUME addrs \in Configs, [AppNext]_appVars PROVE addrs' \in Configs
  BY DEF AddrsKnown
<1>1. ASSUME NEW c \in Callers, Request(c) \/ Proceed(c) PROVE addrs' = addrs
  BY <1>1 DEF Request, Proceed, StartProxy, Disable, Shutdown, CallStart, StartingServer, Enable,
              CallStop, StoppingServer
<1>2. ASSUME NEW pair \in Configs, SetListenAddrs(pair) PROVE addrs' \in Configs
  BY <1>2 DEF SetListenAddrs
<1>3. CASE Accepting
  BY <1>3 DEF Accepting
<1>4. CASE ProcessEnds
  BY <1>4 DEF ProcessEnds, Restart
<1>5. CASE UNCHANGED appVars
  BY <1>5 DEF appVars
<1>. QED
  BY <1>1, <1>2, <1>3, <1>4, <1>5 DEF AppNext

(* Every step of a request is a step of the server, a change of its        *)
(* addresses, or nothing to the server; the end of the process is its.     *)
LEMMA ServerStep == AddrsKnown /\ [AppNext]_appVars => [Next]_vars
<1>. SUFFICES ASSUME addrs \in Configs, [AppNext]_appVars PROVE [Next]_vars
  BY DEF AddrsKnown
<1>1. ASSUME NEW c \in Callers, Request(c) PROVE [Next]_vars
  <2>1. ASSUME NEW sys \in BOOLEAN, StartProxy(c, sys) PROVE Configure
    BY <2>1 DEF StartProxy, Configure, ServerIdle
  <2>2. ASSUME NEW quit \in BOOLEAN, Disable(c, quit) PROVE UNCHANGED vars
    BY <2>2 DEF Disable
  <2>. QED
    BY <1>1, <2>1, <2>2 DEF Request, Shutdown, Next, Life
<1>2. ASSUME NEW c \in Callers, Proceed(c) PROVE [Next]_vars
  <2>1. CallStart(c) => StartBegins(c) \/ UNCHANGED vars
    BY DEF CallStart
  <2>2. StartingServer(c) => StartStep(c)
    BY DEF StartingServer
  <2>3. Enable(c) => UNCHANGED vars
    BY DEF Enable
  <2>4. CallStop(c) => StopBegins(c) \/ UNCHANGED vars
    BY DEF CallStop
  <2>5. StoppingServer(c) => StopStep(c)
    BY DEF StoppingServer
  <2>. QED
    BY <1>2, <2>1, <2>2, <2>3, <2>4, <2>5 DEF Proceed, Next, Life
<1>3. ASSUME NEW pair \in Configs, SetListenAddrs(pair) PROVE UNCHANGED vars
  BY <1>3 DEF SetListenAddrs
<1>4. CASE Accepting
  BY <1>4 DEF Accepting, Next, Life
<1>5. CASE ProcessEnds
  BY <1>5 DEF ProcessEnds, Next, Life
<1>6. CASE UNCHANGED appVars
  BY <1>6 DEF appVars
<1>. QED
  BY <1>1, <1>2, <1>3, <1>4, <1>5, <1>6 DEF AppNext

(* The application implements the server's specification: it calls Start   *)
(* and Stop, from any number of requests at once, only as that module      *)
(* allows.                                                                 *)
THEOREM ActsOnServer == AppSpec => Spec
<1>1. AppInit => Init
  BY DEF AppInit
<1>. QED
  BY <1>1, AddrsInit, AddrsStep, ServerStep, PTL DEF AppSpec, Spec

(* Whatever requests overlap, a status of "running" that the web console   *)
(* shows is true.                                                          *)
THEOREM RunningTrueOfApp == AppSpec => []RunningIsListening
  BY ActsOnServer, RunningTrue, PTL
-----------------------------------------------------------------------------
(* The system proxy                                                        *)

(* A request in its first phases knows addresses; the services on the list *)
(* of Disable are there only while the system proxy is enabled, and each   *)
(* has a backup and is sent to LinkPool.                                   *)
Asking == \A c \in Callers : call[c] \in {"start", "starting", "enable"} =>
                                 asked[c].addrs \in Configs
Listed ==
    /\ ~enabled => services = {}
    /\ \A s \in services : backup[s] # None /\ \E pair \in Configs : setting[s] = Sent(pair)
AppInv == AppTypeOK /\ Asking /\ Listed /\ CanBeUndone

LEMMA SentIsSetting == \A pair \in Configs : Sent(pair) \in Settings
  BY DEF Sent, Settings

LEMMA RestoredIsSetting ==
    ASSUME NEW b \in Settings \cup {Partly}, NEW v \in Settings
    PROVE  Restored(b, v) \in Settings \cup {Partly}
  BY DEF Restored, Settings

(* What services have, or would get back, is always a setting.             *)
LEMMA OwnIsSetting == AppTypeOK /\ Listed => Own \in [Services -> Settings \cup {Partly}]
<1>. SUFFICES ASSUME AppTypeOK, Listed, NEW s \in Services
              PROVE  (IF s \in services THEN Restored(backup[s], setting[s]) ELSE setting[s])
                         \in Settings \cup {Partly}
  BY DEF Own
<1>1. CASE s \in services
  <2>1. backup[s] \in Settings \cup {Partly} /\ setting[s] \in Settings
    BY <1>1, SentIsSetting DEF AppTypeOK, Listed
  <2>. QED
    BY <1>1, <2>1, RestoredIsSetting
<1>2. CASE s \notin services
  BY <1>2 DEF AppTypeOK
<1>. QED
  BY <1>1, <1>2

LEMMA UsualIsUsers == \A v \in Usual : v \in Settings /\ ~Ours(v)
  BY DEF Settings, Ours

LEMMA AppInitInv == AppInit /\ TypeOK => AppInv
<1>. SUFFICES ASSUME AppInit, TypeOK PROVE AppInv
  OBVIOUS
<1>1. AppTypeOK
  BY UsualIsUsers DEF AppInit, Init, AppTypeOK, Nothing, NoBackup
<1>2. Asking /\ Listed /\ CanBeUndone
  BY UsualIsUsers DEF AppInit, Asking, Listed, CanBeUndone
<1>. QED
  BY <1>1, <1>2 DEF AppInv

(* A caller that goes on without touching the system proxy.                *)
LEMMA TurnInv ==
    ASSUME AppInv, TypeOK', UNCHANGED <<addrs, sysVars>>, NEW c \in Callers,
           \A d \in Callers \ {c} : pc'[d] # "idle" => pc[d] # "idle",
           NEW from, NEW to \in {"none", "starting", "enable", "stop", "stopping", "exit"}, Turn(c, from, to),
           pc'[c] # "idle" => to \in {"starting", "stopping"},
           to \in {"starting", "enable"} => from \in {"start", "starting"}
    PROVE  AppInv'
<1>. USE DEF AppInv, Turn, sysVars
<1>1. AppTypeOK'
  BY DEF AppTypeOK, Nothing
<1>2. Asking'
  BY DEF AppTypeOK, Asking
<1>3. Listed' /\ CanBeUndone'
  BY DEF Listed, CanBeUndone
<1>. QED
  BY <1>1, <1>2, <1>3

(* A step of the server leaves the other callers where they are.           *)
LEMMA OthersStay ==
    ASSUME TypeOK, NEW c \in Callers, StartBegins(c) \/ StopBegins(c) \/ StartStep(c) \/ StopStep(c)
    PROVE  \A d \in Callers \ {c} : pc'[d] = pc[d]
  BY DEF TypeOK, StartBegins, StopBegins, StartStep, StopStep, ListenHTTP, HTTPRefused, ListenSOCKS,
         SOCKSRefused, Fail, Publish, Serve, CloseHTTP, CloseSOCKS, Wait, Wake, SetStopped, Goto

LEMMA StartProxyInv == ASSUME AppInv, TypeOK', NEW c \in Callers, NEW sys \in BOOLEAN, StartProxy(c, sys)
                       PROVE  AppInv'
<1>. USE DEF AppInv, StartProxy, ServerIdle, sysVars
<1>1. AppTypeOK'
  BY DEF AppTypeOK
<1>2. Asking'
  BY DEF AppTypeOK, Asking
<1>3. Listed' /\ CanBeUndone'
  BY DEF Listed, CanBeUndone
<1>. QED
  BY <1>1, <1>2, <1>3

(* What is restored is not LinkPool's, or is left behind.                  *)
LEMMA DisableInv == ASSUME AppInv, TypeOK', NEW c \in Callers, NEW quit \in BOOLEAN, Disable(c, quit)
                    PROVE  AppInv'
<1>. USE DEF AppInv, Disable, sysVars, vars
<1>1. AppTypeOK'
  <2>1. CASE ~enabled
    BY <2>1 DEF AppTypeOK
  <2>2. CASE enabled
    <3>1. Own \in [Services -> Settings \cup {Partly}]
      BY OwnIsSetting
    <3>2. /\ setting' \in [Services -> Settings \cup {Partly}]
          /\ backup' \in [Services -> Settings \cup {Partly, None}]
          /\ enabled' \in BOOLEAN /\ services' \in SUBSET Services /\ left' \in SUBSET Services
      BY <2>2, <3>1, ZenonT(60) DEF AppTypeOK, NoBackup
    <3>3. asked' \in [Callers -> [addrs : Configs \cup {NoPair}, sys : BOOLEAN, quit : BOOLEAN]]
      BY DEF AppTypeOK
    <3>. QED
      BY <3>2, <3>3 DEF AppTypeOK
  <2>. QED
    BY <2>1, <2>2
<1>2. Asking'
  BY DEF AppTypeOK, Asking
<1>3. Listed' /\ CanBeUndone'
  <2>1. CASE ~enabled
    BY <2>1 DEF Listed, CanBeUndone
  <2>2. CASE enabled
    <3>1. PICK partly \in SUBSET (Flaky \cap services) :
             /\ setting' = [s \in Services |-> IF s \in partly THEN Partly ELSE Own[s]]
             /\ left' = left \cup {s \in services : Ours(setting'[s])}
      BY <2>2
    <3>2. ~enabled' /\ services' = {}
      BY <2>2
    <3>3. ASSUME NEW s \in Services \ left', Ours(setting'[s]) PROVE FALSE
      <4>1. s \notin left /\ s \notin services
        BY <3>1, <3>3
      <4>2. setting'[s] = setting[s]
        BY <3>1, <4>1 DEF Own
      <4>. QED
        BY <3>3, <4>1, <4>2 DEF CanBeUndone
    <3>. QED
      BY <3>2, <3>3 DEF Listed, CanBeUndone
  <2>. QED
    BY <2>1, <2>2
<1>. QED
  BY <1>1, <1>2, <1>3

(* Enable acts only when it is off, and then no service is sent to         *)
(* LinkPool: what it backs up is the user's.                               *)
LEMMA EnableInv == ASSUME AppInv, TypeOK', NEW c \in Callers, Enable(c) PROVE AppInv'
<1>. USE DEF AppInv, Enable, Turn, sysVars, vars
<1>1. asked[c].addrs \in Configs
  BY DEF Asking
<1>2. CASE UNCHANGED sysVars
  <2>1. AppTypeOK'
    BY <1>2 DEF AppTypeOK, Nothing
  <2>2. Asking' /\ Listed' /\ CanBeUndone'
    BY <1>2 DEF AppTypeOK, Asking, Listed, CanBeUndone
  <2>. QED
    BY <2>1, <2>2
<1>3. CASE ~UNCHANGED sysVars
  <2>1. PICK unread \in SUBSET Flaky, partly \in SUBSET Flaky :
           /\ unread \cap partly = {}
           /\ services' = Services \ (unread \cup partly)
           /\ enabled'  = (services' # {})
           /\ backup'   = [s \in Services |-> IF s \in unread THEN None ELSE setting[s]]
           /\ setting'  = [s \in Services |->
                  IF s \in unread THEN setting[s]
                  ELSE IF s \in partly THEN Partly ELSE Sent(asked[c].addrs)]
    BY <1>3
  <2>2. /\ services' \in SUBSET Services /\ enabled' \in BOOLEAN
        /\ backup' \in [Services -> Settings \cup {Partly, None}]
        /\ setting' \in [Services -> Settings \cup {Partly}]
    BY <1>1, <2>1, SentIsSetting DEF AppTypeOK
  <2>3. AppTypeOK'
    BY <2>2 DEF AppTypeOK, Nothing
  <2>4. Asking'
    BY DEF AppTypeOK, Asking
  <2>5. ~enabled
    BY <1>3
  <2>6. \A s \in Services : ~Ours(setting[s]) \/ s \in left
    BY <2>5 DEF Listed, CanBeUndone
  <2>7. \A s \in services' : /\ s \in Services \ (unread \cup partly) /\ backup'[s] = setting[s]
                            /\ setting'[s] = Sent(asked[c].addrs)
    BY <2>1
  <2>8. \A s \in Services : setting[s] # None
    BY DEF AppTypeOK
  <2>9. Listed'
    BY <1>1, <2>1, <2>7, <2>8 DEF Listed
  <2>10. left' = left
    BY <1>3
  <2>11. CanBeUndone'
    <3>1. ASSUME NEW s \in Services \ left', Ours(setting'[s]) PROVE enabled' /\ s \in services'
      <4>1. CASE s \in unread
        BY <2>1, <2>6, <2>10, <3>1, <4>1
      <4>2. CASE s \in partly
        BY <2>1, <3>1, <4>2 DEF Ours
      <4>3. CASE s \notin unread \cup partly
        BY <2>1, <4>3
      <4>. QED
        BY <4>1, <4>2, <4>3
    <3>. QED
      BY <2>6, <2>7, <2>10, <3>1 DEF CanBeUndone
  <2>. QED
    BY <2>3, <2>4, <2>9, <2>11
<1>. QED
  BY <1>2, <1>3

LEMMA ProceedInv == ASSUME AppInv, TypeOK', NEW c \in Callers, Proceed(c) PROVE AppInv'
<1>. TypeOK
  BY DEF AppInv, AppTypeOK
<1>1. CASE CallStart(c)
  <2>1. CASE StartBegins(c) /\ Turn(c, "start", "starting")
    BY <1>1, <2>1, TurnInv, OthersStay DEF CallStart
  <2>2. CASE UNCHANGED vars /\ Turn(c, "start", Started(c)) /\ pc[c] = "idle"
    BY <1>1, <2>2, TurnInv DEF CallStart, Started, vars
  <2>. QED
    BY <1>1, <2>1, <2>2 DEF CallStart, Turn, AppInv, AppTypeOK
<1>2. CASE StartingServer(c)
  BY <1>2, TurnInv, OthersStay DEF StartingServer, Started
<1>3. CASE Enable(c)
  BY <1>3, EnableInv
<1>4. CASE CallStop(c)
  <2>1. CASE StopBegins(c) /\ Turn(c, "stop", "stopping")
    BY <1>4, <2>1, TurnInv, OthersStay DEF CallStop
  <2>2. CASE UNCHANGED vars /\ Turn(c, "stop", After(c)) /\ pc[c] = "idle"
    BY <1>4, <2>2, TurnInv DEF CallStop, After, vars
  <2>. QED
    BY <1>4, <2>1, <2>2 DEF CallStop, Turn, AppInv, AppTypeOK
<1>5. CASE StoppingServer(c)
  <2>. DEFINE to == IF pc'[c] = "idle" THEN After(c) ELSE "stopping"
  <2>1. \A d \in Callers \ {c} : pc'[d] # "idle" => pc[d] # "idle"
    BY <1>5, OthersStay DEF StoppingServer
  <2>2. /\ to \in {"none", "exit", "stopping"} /\ (pc'[c] # "idle" => to = "stopping")
        /\ Turn(c, "stopping", to) /\ UNCHANGED <<addrs, sysVars>>
    BY <1>5 DEF StoppingServer, After
  <2>. HIDE DEF to
  <2>. QED
    BY <2>1, <2>2, TurnInv
<1>. QED
  BY <1>1, <1>2, <1>3, <1>4, <1>5 DEF Proceed

(* What an ended process leaves changed is left; the rest is the user's.   *)
LEMMA ProcessEndsInv == ASSUME AppInv, TypeOK', ProcessEnds PROVE AppInv'
<1>. USE DEF AppInv
<1>1. \A target \in Targets : target \in [Services -> Settings \cup {Partly}]
  BY OwnIsSetting, SentIsSetting DEF Targets, AppTypeOK, Asking
<1>2. PICK target \in Targets, through, half \in SUBSET Services :
         setting' = [s \in Services |-> IF s \in half THEN Partly
                                       ELSE IF s \in through THEN target[s] ELSE setting[s]]
  BY DEF ProcessEnds
<1>3. setting' \in [Services -> Settings \cup {Partly}]
  BY <1>1, <1>2 DEF AppTypeOK
<1>4. AppTypeOK'
  BY <1>3 DEF ProcessEnds, Restart, AppTypeOK, Nothing, NoBackup
<1>5. Asking' /\ Listed' /\ CanBeUndone'
  BY DEF ProcessEnds, Asking, Listed, CanBeUndone, Ours
<1>. QED
  BY <1>4, <1>5

LEMMA AppStepInv == AppInv /\ TypeOK' /\ [AppNext]_appVars => AppInv'
<1>. SUFFICES ASSUME AppInv, TypeOK', [AppNext]_appVars PROVE AppInv'
  OBVIOUS
<1>1. ASSUME NEW c \in Callers, Request(c) \/ Proceed(c) PROVE AppInv'
  BY <1>1, StartProxyInv, DisableInv, ProceedInv DEF Request, Shutdown
<1>2. ASSUME NEW pair \in Configs, SetListenAddrs(pair) PROVE AppInv'
  BY <1>2 DEF SetListenAddrs, AppInv, AppTypeOK, Asking, Listed, CanBeUndone, vars, sysVars
<1>3. CASE Accepting
  BY <1>3 DEF Accepting, AcceptLoopEnds, AcceptFails, Return, AppInv, AppTypeOK, Asking, Listed,
              CanBeUndone, sysVars, TypeOK
<1>4. CASE ProcessEnds
  BY <1>4, ProcessEndsInv
<1>5. CASE UNCHANGED appVars
  BY <1>5 DEF appVars, vars, sysVars, AppInv, AppTypeOK, Asking, Listed, CanBeUndone
<1>. QED
  BY <1>1, <1>2, <1>3, <1>4, <1>5 DEF AppNext

LEMMA AppInvariance == AppSpec => []AppInv
<1>1. AppSpec => []TypeOK
  BY ActsOnServer, TypeCorrect, PTL
<1>. QED
  BY <1>1, AppInitInv, AppStepInv, PTL DEF AppSpec

(* Every reachable state is of the expected shape; in particular a caller  *)
(* is inside Start or Stop only while its request says so.                 *)
THEOREM AppTypeCorrect == AppSpec => []AppTypeOK
<1>1. AppInv => AppTypeOK
  BY DEF AppInv
<1>. QED
  BY <1>1, AppInvariance, PTL

(* However requests overlap, whatever commands fail and whenever processes *)
(* end, Disable knows of every service that this process sends to          *)
(* LinkPool, and what it will set it back to is not LinkPool.              *)
THEOREM AlwaysUndoable == AppSpec => []CanBeUndone
<1>1. AppInv => CanBeUndone
  BY DEF AppInv
<1>. QED
  BY <1>1, AppInvariance, PTL
-----------------------------------------------------------------------------
(* One request at a time                                                   *)

(* No two requests are in progress, and what one has read of the addresses *)
(* is what they are.                                                       *)
Sole     == \A c, d \in Callers : call[c] # "none" /\ call[d] # "none" => c = d
AskedNow == \A c \in Callers : call[c] \in {"start", "starting", "enable"} => asked[c].addrs = addrs

(* Server, system proxy and addresses agree: each step of the request      *)
(* finds what the one before it has left.                                  *)
Bound(pair) == addr[pair.http] = addrs.http /\ addr[pair.socks] = addrs.socks
Agreement(c) ==
    /\ call[c] \in {"start", "starting"} => config = addrs
    /\ pc[c] = "listenSOCKS" => addr[mine[c].http] = addrs.http
    /\ pc[c] = "publish" => Bound(mine[c])
    /\ call[c] = "enable" => status = "running"
    /\ call[c] \in {"stop", "stopping", "exit"} => ~enabled
    /\ call[c] = "exit" => status = "stopped"
Agree == /\ status = "running" => Bound(fields)
         /\ enabled => status = "running"
         /\ \A s \in services : setting[s] = Sent(addrs)
         /\ \A c \in Callers : Agreement(c)

(* All that holds of a state while requests do not overlap.                *)
Orderly == AppInv /\ Inv /\ SerialInv /\ Sole /\ AskedNow /\ Agree

LEMMA AgreeInit == AppInit => Agree
  BY DEF AppInit, Init, Agree, Agreement

LEMMA SoleAlone == AppTypeOK /\ Sole => Alone
  BY DEF AppTypeOK, Sole, Alone

(* While one request is between two calls of the server, this is at rest.  *)
LEMMA RestBetween ==
    ASSUME Orderly, NEW c \in Callers, call[c] \in {"start", "enable", "stop", "exit"}
    PROVE  AtRest /\ status \in {"stopped", "running", "error"}
<1>1. AtRest
  BY DEF Orderly, AppInv, AppTypeOK, Sole, AtRest
<1>. QED
  BY <1>1 DEF Orderly, SerialInv, Resting

LEMMA StartProxyAgrees ==
    ASSUME Orderly, NEW c \in Callers, NEW sys \in BOOLEAN, StartProxy(c, sys) PROVE Agree'
  BY DEF Orderly, AppInv, AppTypeOK, Agree, Agreement, Bound, StartProxy, ServerIdle, sysVars

LEMMA DisableAgrees ==
    ASSUME Orderly, NEW c \in Callers, NEW quit \in BOOLEAN, Disable(c, quit) PROVE Agree'
<1>1. ~enabled' /\ services' = {}
  BY DEF Disable, Orderly, AppInv, Listed, sysVars
<1>2. \A d \in Callers : Agreement(d)'
  BY <1>1 DEF Disable, Orderly, AppInv, AppTypeOK, Agree, Agreement, Bound, vars
<1>. QED
  BY <1>1, <1>2 DEF Disable, Orderly, Agree, Bound, vars

LEMMA EnableAgrees == ASSUME Orderly, NEW c \in Callers, Enable(c) PROVE Agree'
<1>. USE DEF Orderly, Enable, Turn
<1>1. status = "running" /\ asked[c].addrs = addrs
  BY DEF Agree, Agreement, AskedNow
<1>2. \A d \in Callers : Agreement(d)'
  <2>1. \A d \in Callers \ {c} : call'[d] = "none"
    BY DEF Sole, AppInv, AppTypeOK
  <2>2. call'[c] = "none"
    BY DEF AppInv, AppTypeOK
  <2>. QED
    BY <2>1, <2>2 DEF Agree, Agreement, Bound, vars
<1>3. \A s \in services' : setting'[s] = Sent(addrs)
  BY <1>1 DEF Agree, AppInv, AppTypeOK, sysVars
<1>. QED
  BY <1>1, <1>2, <1>3 DEF Agree, Bound, vars

(* What a step of the server within a request leaves to be shown.          *)
LEMMA ServerAgrees ==
    ASSUME Orderly, NEW c \in Callers, call[c] # "none", NEW to, call' = [call EXCEPT ![c] = to],
           UNCHANGED <<addrs, config, sysVars>>, \A d \in Callers \ {c} : pc'[d] = pc[d],
           Agreement(c)', status' = "running" => Bound(fields)', enabled => status' = "running"
    PROVE  Agree'
<1>1. \A d \in Callers \ {c} : call'[d] = "none" /\ pc'[d] = "idle"
  BY DEF Orderly, Sole, AppInv, AppTypeOK
<1>2. \A d \in Callers : Agreement(d)'
  BY <1>1 DEF Agreement
<1>. QED
  BY <1>2 DEF Orderly, Agree, sysVars

LEMMA CallStartAgrees == ASSUME Orderly, NEW c \in Callers, CallStart(c) PROVE Agree'
<1>. USE DEF Orderly, Turn
<1>0. TypeOK /\ config = addrs /\ call \in [Callers -> {"none", "start", "starting", "enable", "stop", "stopping", "exit"}]
  BY DEF AppInv, AppTypeOK, CallStart, Agree, Agreement
<1>1. CASE StartBegins(c) /\ Turn(c, "start", "starting") /\ UNCHANGED <<addrs, sysVars>>
  <2>1. ~enabled /\ status' = "starting" /\ pc'[c] = "listenHTTP" /\ call'[c] = "starting" /\ config' = config
    BY <1>0, <1>1 DEF Agree, StartBegins, Goto, TypeOK
  <2>2. \A d \in Callers \ {c} : pc'[d] = pc[d]
    BY <1>0, <1>1, OthersStay
  <2>. QED
    BY <1>0, <1>1, <2>1, <2>2, ServerAgrees DEF Agreement
<1>2. CASE status \in {"running", "starting"} /\ Turn(c, "start", Started(c)) /\ UNCHANGED vars /\ UNCHANGED <<addrs, sysVars>>
  <2>1. status = "running" /\ pc[c] = "idle"
    BY <1>2, RestBetween DEF AtRest
  <2>2. call'[c] \in {"enable", "none"}
    BY <1>0, <1>2 DEF Started
  <2>3. Agreement(c)'
    BY <1>2, <2>1, <2>2 DEF Agreement, vars
  <2>4. Bound(fields)'
    BY <1>2, <2>1 DEF Agree, Bound, vars
  <2>. QED
    BY <1>2, <2>1, <2>3, <2>4, ServerAgrees DEF vars
<1>. QED
  BY <1>1, <1>2 DEF CallStart

LEMMA StartingAgrees == ASSUME Orderly, NEW c \in Callers, StartingServer(c) PROVE Agree'
<1>. DEFINE to == IF pc'[c] # "idle" THEN "starting" ELSE IF pc[c] = "serve" THEN Started(c) ELSE "none"
<1>0. /\ TypeOK /\ Phase(c) /\ Agreement(c) /\ HalfOpen /\ (enabled => status = "running")
      /\ (status = "running" => Bound(fields))
      /\ call \in [Callers -> {"none", "start", "starting", "enable", "stop", "stopping", "exit"}]
  BY DEF Orderly, AppInv, AppTypeOK, SerialInv, Agree, Inv
<1>1. /\ call[c] = "starting" /\ config = addrs /\ UNCHANGED <<addrs, sysVars>>
      /\ call' = [call EXCEPT ![c] = to] /\ StartStep(c)
  BY <1>0 DEF StartingServer, Turn, Agreement
<1>2. \A d \in Callers \ {c} : pc'[d] = pc[d]
  BY <1>0, <1>1, OthersStay
<1>3. config' = config
  BY <1>1 DEF StartStep, ListenHTTP, HTTPRefused, ListenSOCKS, SOCKSRefused, Fail, Publish, Serve
<1>4. call'[c] = to /\ (pc'[c] # "idle" => call'[c] = "starting")
      /\ call'[c] \in {"starting", "enable", "none"} /\ (call'[c] = "enable" => pc[c] = "serve")
  BY <1>0, <1>1 DEF Started
<1>. HIDE DEF to
<1>5. SUFFICES /\ pc'[c] = "listenSOCKS" => addr'[mine'[c].http] = addrs.http
               /\ pc'[c] = "publish" => addr'[mine'[c].http] = addrs.http /\ addr'[mine'[c].socks] = addrs.socks
               /\ pc[c] = "serve" => status' = "running"
               /\ status' = "running" => addr'[fields'.http] = addrs.http /\ addr'[fields'.socks] = addrs.socks
               /\ enabled => status' = "running"
  <2>1. Agreement(c)'
    BY <1>1, <1>3, <1>4, <1>5 DEF Agreement, Bound, sysVars
  <2>. QED
    BY <1>1, <1>2, <1>3, <1>5, <2>1, ServerAgrees DEF Bound
<1>. USE DEF Goto, Hold, Close
<1>6. CASE ListenHTTP(c)
  BY <1>0, <1>1, <1>6 DEF ListenHTTP, Phase, Starting, TypeOK, NoPair
<1>7. CASE HTTPRefused(c) \/ SOCKSRefused(c) \/ Fail(c)
  BY <1>0, <1>7 DEF HTTPRefused, SOCKSRefused, Fail, Phase, Starting, TypeOK
<1>8. CASE ListenSOCKS(c)
  <2>1. PICK l \in Listeners : /\ Fresh(l) /\ addr' = [addr EXCEPT ![l] = config.socks]
                               /\ mine' = [mine EXCEPT ![c] = [mine[c] EXCEPT !.socks = l]]
    BY <1>8 DEF ListenSOCKS
  <2>2. pc[c] = "listenSOCKS" /\ pc'[c] = "publish" /\ status = "starting" /\ status' = status
    BY <1>0, <1>8 DEF ListenSOCKS, Phase, Starting, TypeOK
  <2>3. mine[c] \in Pair /\ mine[c].http \in Listeners /\ mine[c].http # l
    BY <1>0, <2>1, <2>2 DEF HalfOpen, Fresh, TypeOK
  <2>4. mine'[c].http = mine[c].http /\ mine'[c].socks = l
    BY <1>0, <2>1, <2>3 DEF TypeOK, Pair
  <2>5. addr'[l] = addrs.socks /\ addr'[mine[c].http] = addrs.http
    BY <1>0, <1>1, <2>1, <2>2, <2>3 DEF TypeOK, Agreement
  <2>. QED
    BY <1>0, <2>2, <2>4, <2>5
<1>9. CASE Publish(c)
  BY <1>0, <1>9 DEF Publish, Phase, Starting, TypeOK, Agreement, Bound
<1>10. CASE Serve(c)
  BY <1>0, <1>10 DEF Serve, Phase, TypeOK, Bound
<1>. QED
  BY <1>1, <1>6, <1>7, <1>8, <1>9, <1>10 DEF StartStep

LEMMA CallStopAgrees == ASSUME Orderly, NEW c \in Callers, CallStop(c) PROVE Agree'
<1>0. /\ TypeOK /\ ~enabled /\ call[c] = "stop" /\ UNCHANGED <<addrs, sysVars>>
      /\ call \in [Callers -> {"none", "start", "starting", "enable", "stop", "stopping", "exit"}]
  BY DEF Orderly, AppInv, AppTypeOK, Agree, Agreement, CallStop, Turn
<1>1. CASE StopBegins(c) /\ Turn(c, "stop", "stopping")
  <2>1. status' = "stopping" /\ pc'[c] = "closeHTTP" /\ call'[c] = "stopping" /\ config' = config
    BY <1>0, <1>1 DEF StopBegins, Goto, TypeOK, Turn
  <2>2. \A d \in Callers \ {c} : pc'[d] = pc[d]
    BY <1>0, <1>1, OthersStay
  <2>3. Agreement(c)'
    BY <1>0, <2>1 DEF Agreement, sysVars
  <2>. QED
    BY <1>0, <1>1, <2>1, <2>2, <2>3, ServerAgrees DEF Turn
<1>2. CASE status \in {"stopped", "stopping"} /\ Turn(c, "stop", After(c)) /\ UNCHANGED vars
  <2>1. status = "stopped" /\ pc[c] = "idle"
    BY <1>0, <1>2, RestBetween DEF AtRest
  <2>2. call'[c] \in {"exit", "none"} /\ call' = [call EXCEPT ![c] = After(c)]
    BY <1>0, <1>2 DEF After, Turn
  <2>3. Agreement(c)'
    BY <1>0, <1>2, <2>1, <2>2 DEF Agreement, vars, sysVars
  <2>. QED
    BY <1>0, <1>2, <2>1, <2>2, <2>3, ServerAgrees DEF vars
<1>. QED
  BY <1>1, <1>2 DEF CallStop

LEMMA NoLoopsNoCount == WaitGroupCounts /\ loops = {} => wg = 0
  BY FS_EmptySet DEF WaitGroupCounts

LEMMA StoppingAgrees == ASSUME Orderly, NEW c \in Callers, StoppingServer(c) PROVE Agree'
<1>. DEFINE to == IF pc'[c] = "idle" THEN After(c) ELSE "stopping"
<1>0. /\ TypeOK /\ Phase(c) /\ WaitGroupCounts
      /\ call \in [Callers -> {"none", "start", "starting", "enable", "stop", "stopping", "exit"}]
  BY DEF Orderly, AppInv, AppTypeOK, SerialInv, Inv
<1>1. /\ call[c] = "stopping" /\ ~enabled /\ UNCHANGED <<addrs, sysVars>>
      /\ call' = [call EXCEPT ![c] = to] /\ StopStep(c)
  BY DEF StoppingServer, Turn, Orderly, Agree, Agreement
<1>2. \A d \in Callers \ {c} : pc'[d] = pc[d]
  BY <1>0, <1>1, OthersStay
<1>3. call'[c] \in {"none", "exit", "stopping"} /\ (call'[c] = "exit" => pc'[c] = "idle")
  BY <1>0, <1>1 DEF After
<1>. HIDE DEF to
<1>4. loops = {} => wg = 0
  BY <1>0, NoLoopsNoCount
<1>5. /\ config' = config /\ status' \in {"stopping", "stopped"} /\ (pc'[c] = "idle" => status' = "stopped")
      /\ pc'[c] \notin {"listenSOCKS", "publish"}
  BY <1>0, <1>1, <1>4 DEF StopStep, CloseHTTP, CloseSOCKS, Wait, Wake, SetStopped, Goto, Phase, Stopping, TypeOK
<1>6. Agreement(c)'
  BY <1>1, <1>3, <1>5 DEF Agreement, sysVars
<1>. QED
  BY <1>1, <1>2, <1>5, <1>6, ServerAgrees

(* The addresses change only while nothing is bound to them or about to be. *)
LEMMA SetListenAddrsAgrees ==
    ASSUME Orderly, AskedNow', NEW pair \in Configs, SetListenAddrs(pair) PROVE Agree'
<1>1. ~enabled /\ services = {}
  BY DEF SetListenAddrs, Orderly, Agree, AppInv, Listed
<1>2. \A c \in Callers : call[c] \in {"start", "starting"} => addrs' = addrs
  BY DEF SetListenAddrs, Orderly, AskedNow
<1>3. \A c \in Callers : pc[c] \notin {"listenSOCKS", "publish"}
  BY DEF SetListenAddrs, Orderly, SerialInv, Phase, Starting
<1>4. \A c \in Callers : Agreement(c)'
  BY <1>1, <1>2, <1>3 DEF SetListenAddrs, Orderly, Agree, Agreement, vars, sysVars
<1>. QED
  BY <1>1, <1>4 DEF SetListenAddrs, Agree, vars, sysVars

LEMMA AgreeStep == ASSUME Orderly, AskedNow', [AppNext]_appVars PROVE Agree'
<1>1. ASSUME NEW c \in Callers, Request(c) PROVE Agree'
  BY <1>1, StartProxyAgrees, DisableAgrees DEF Request, Shutdown
<1>2. ASSUME NEW c \in Callers, Proceed(c) PROVE Agree'
  BY <1>2, CallStartAgrees, StartingAgrees, EnableAgrees, CallStopAgrees, StoppingAgrees DEF Proceed
<1>3. ASSUME NEW pair \in Configs, SetListenAddrs(pair) PROVE Agree'
  BY <1>3, SetListenAddrsAgrees
<1>4. CASE Accepting
  <2>1. /\ UNCHANGED <<status, config, fields, addr, mine, addrs, call, asked, sysVars>>
        /\ \A c \in Callers : pc'[c] = pc[c] \/ pc'[c] = "woken"
    BY <1>4 DEF Accepting, AcceptLoopEnds, AcceptFails, Return
  <2>. QED
    BY <2>1 DEF Orderly, Agree, Agreement, Bound, sysVars
<1>5. CASE ProcessEnds
  BY <1>5 DEF ProcessEnds, Restart, Agree, Agreement
<1>6. CASE UNCHANGED appVars
  BY <1>6 DEF appVars, vars, sysVars, Orderly, Agree, Agreement, Bound
<1>. QED
  BY <1>1, <1>2, <1>3, <1>4, <1>5, <1>6 DEF AppNext

(* Finitely many requests are in progress, as each begins in a step.       *)
Requesting  == {c \in Callers : call[c] # "none"}
FewRequests == IsFiniteSet(Requesting)

LEMMA RequestsFinite == AppSpec => []FewRequests
<1>1. AppInit => FewRequests
  <2>1. AppInit => Requesting = {}
    BY DEF AppInit, Requesting
  <2>. QED
    BY <2>1, FS_EmptySet DEF FewRequests
<1>2. ASSUME AppTypeOK, FewRequests, [AppNext]_appVars PROVE FewRequests'
  <2>1. ASSUME NEW c \in Callers, Requesting' \subseteq Requesting \cup {c} PROVE FewRequests'
    BY <1>2, <2>1, FS_AddElement, FS_Subset DEF FewRequests
  <2>2. ASSUME NEW c \in Callers, Request(c) \/ Proceed(c)
        PROVE  Requesting' \subseteq Requesting \cup {c}
    <3>1. \A d \in Callers \ {c} : call'[d] = call[d]
      BY <1>2, <2>2 DEF AppTypeOK, Request, Proceed, StartProxy, Disable, Shutdown, CallStart, StartingServer,
                        Enable, CallStop, StoppingServer, Turn
    <3>. QED
      BY <3>1 DEF Requesting
  <2>3. CASE (\E pair \in Configs : SetListenAddrs(pair)) \/ Accepting \/ ProcessEnds \/ UNCHANGED appVars
    <3>1. Requesting' \subseteq Requesting
      BY <2>3 DEF Requesting, SetListenAddrs, Accepting, ProcessEnds, appVars
    <3>. QED
      BY <1>2, <3>1, FS_Subset DEF FewRequests
  <2>. QED
    BY <1>2, <2>1, <2>2, <2>3 DEF AppNext
<1>. QED
  BY <1>1, <1>2, AppTypeCorrect, PTL DEF AppSpec

LEMMA OrderlyHolds == AppSpec /\ []Serial => []Orderly
<1>1. FewRequests /\ Serial => Sole /\ AskedNow
  BY AtMostOne DEF FewRequests, Requesting, Serial, OneRequest, Sole, AskedNow
<1>2. AppInit => Init
  BY DEF AppInit
<1>3. AppInv /\ Sole => Alone
  BY SoleAlone DEF AppInv
<1>4. Orderly /\ Inv' /\ AskedNow' /\ Alone /\ Alone' /\ [AppNext]_appVars => Agree' /\ (AddrsKnown => SerialInv')
  BY AgreeStep, ServerStep, SerialStep DEF Orderly
<1>5. AppInv => AddrsKnown
  BY DEF AppInv, AppTypeOK, AddrsKnown
<1>6. Orderly <=> AppInv /\ Inv /\ SerialInv /\ Sole /\ AskedNow /\ Agree
  BY DEF Orderly
<1>7. AppSpec => []Inv
  BY ActsOnServer, Invariance, PTL
<1>. QED
  BY <1>1, <1>2, <1>3, <1>4, <1>5, <1>6, <1>7, AgreeInit, SerialInit, RequestsFinite, AppInvariance, PTL DEF AppSpec

(* While requests do not overlap, server, system proxy and the addresses   *)
(* that Status shows agree whenever no request is in progress, and the     *)
(* program exits only with its listeners closed and no service sent to it. *)
THEOREM SerialAgrees == AppSpec => SerialSysProxy
<1>1. ASSUME Orderly, NoRequest
      PROVE  /\ enabled => status = "running"
             /\ status = "running" => addrs = ListeningOn /\ \A s \in services : setting[s] = Sent(ListeningOn)
  <2>1. addrs = [http |-> addrs.http, socks |-> addrs.socks]
    BY <1>1 DEF Orderly, AppInv, AppTypeOK
  <2>2. status = "running" => addrs = ListeningOn
    BY <1>1, <2>1 DEF Orderly, Agree, Bound, ListeningOn
  <2>. QED
    BY <1>1, <2>2 DEF Orderly, Agree
<1>2. ASSUME Orderly, Exiting
      PROVE  /\ \A l \in Listeners : ~IsOpen(l)
             /\ \A s \in Services \ left : ~Ours(setting[s])
  <2>1. PICK c \in Callers : call[c] = "exit"
    BY <1>2 DEF Exiting
  <2>2. ~enabled /\ status = "stopped"
    BY <1>2, <2>1 DEF Orderly, Agree, Agreement
  <2>3. AtRest
    BY <1>2, <2>1, RestBetween
  <2>4. fields = NoPair /\ \A d \in Callers : mine[d] = NoPair
    BY <1>2, <2>2, <2>3 DEF Orderly, SerialInv, Resting, Phase, AtRest
  <2>5. \A l \in Listeners : ~IsOpen(l)
    BY <1>2, <2>4 DEF Orderly, SerialInv, Owned, Of, NoPair
  <2>. QED
    BY <1>2, <2>2, <2>5 DEF Orderly, AppInv, CanBeUndone
<1>. QED
  BY <1>1, <1>2, OrderlyHolds, PTL DEF SerialSysProxy
-----------------------------------------------------------------------------
(* What a service gets back                                                *)

(* A service has, or would get back, what it had and would have got; or a  *)
(* command fails on it; or it is sent to LinkPool and will not get back    *)
(* exactly what it had.                                                    *)
Kept(s) ==
    \/ Own'[s] = Own[s]
    \/ s \in Flaky /\ Own'[s] = Partly
    \/ ~Exact(Own[s]) /\ \E pair \in Configs : Own'[s] = Restored(Own[s], Sent(pair))

LEMMA ExactIsRestored ==
    ASSUME NEW b \in Settings \cup {Partly}, Exact(b), NEW v PROVE Restored(b, v) = b
<1>1. CASE b = Partly
  BY <1>1 DEF Restored
<1>2. CASE b # Partly
  <2>1. b \in Settings /\ b.server # None /\ (SetTurnsOn => b.on)
    BY <1>2 DEF Exact
  <2>2. Restored(b, v) = [on |-> b.on, server |-> b.server]
    BY <1>2, <2>1 DEF Restored, Settings
  <2>. QED
    BY <2>1, <2>2 DEF Settings
<1>. QED
  BY <1>1, <1>2

LEMMA EnableGivesBack ==
    ASSUME AppInv, NEW c \in Callers, Enable(c)
    PROVE  \A s \in Services : Kept(s)
<1>1. CASE UNCHANGED sysVars
  BY <1>1 DEF Own, Kept, sysVars
<1>2. CASE ~UNCHANGED sysVars
  <2>1. PICK unread \in SUBSET Flaky, partly \in SUBSET Flaky :
           /\ unread \cap partly = {}
           /\ services' = Services \ (unread \cup partly)
           /\ backup'   = [s \in Services |-> IF s \in unread THEN None ELSE setting[s]]
           /\ setting'  = [s \in Services |->
                  IF s \in unread THEN setting[s]
                  ELSE IF s \in partly THEN Partly ELSE Sent(asked[c].addrs)]
    BY <1>2 DEF Enable
  <2>2. services = {}
    BY <1>2 DEF Enable, AppInv, Listed
  <2>3. ASSUME NEW s \in Services PROVE Kept(s)
    <3>1. Own[s] = setting[s] /\ setting[s] \in Settings \cup {Partly} /\ asked[c].addrs \in Configs
      BY <2>2 DEF Own, Enable, Turn, AppInv, AppTypeOK, Asking
    <3>2. CASE s \in unread
      BY <2>1, <3>1, <3>2 DEF Own, Kept
    <3>3. CASE s \in partly
      BY <2>1, <3>3 DEF Own, Kept
    <3>4. CASE s \notin unread \cup partly
      <4>1. Own'[s] = Restored(Own[s], Sent(asked[c].addrs))
        BY <2>1, <3>1, <3>4 DEF Own
      <4>. QED
        BY <3>1, <4>1, ExactIsRestored DEF Kept
    <3>. QED
      BY <3>2, <3>3, <3>4
  <2>. QED
    BY <2>3
<1>. QED
  BY <1>1, <1>2

LEMMA DisableGivesBack ==
    ASSUME AppInv, NEW c \in Callers, NEW quit \in BOOLEAN, Disable(c, quit)
    PROVE  \A s \in Services : Kept(s)
<1>1. CASE UNCHANGED sysVars
  BY <1>1 DEF Own, Kept, sysVars
<1>2. CASE ~UNCHANGED sysVars
  BY <1>2 DEF Disable, Own, Kept
<1>. QED
  BY <1>1, <1>2

(* However requests overlap and whatever commands fail, what a service     *)
(* would get back from Disable, or has if it is not sent to LinkPool,      *)
(* stays what it was, unless a command fails on that very service, the     *)
(* process ends, or Enable takes over a setting that restoreService cannot *)
(* give back; then it is what restoreService makes of that.  No request    *)
(* ever takes another request's settings for the user's.                   *)
THEOREM OwnSettingsStay == AppSpec => GivesBack
<1>1. ASSUME AppInv, [AppNext]_appVars, ~ProcessEnds
      PROVE  \A s \in Services : Kept(s)
  <2>1. ASSUME UNCHANGED sysVars PROVE Own' = Own
    BY <2>1 DEF Own, sysVars
  <2>. USE DEF Kept
  <2>2. ASSUME NEW c \in Callers, Request(c)
        PROVE  \A s \in Services : Kept(s)
    BY <1>1, <2>1, <2>2, DisableGivesBack DEF Request, Shutdown, StartProxy
  <2>3. ASSUME NEW c \in Callers, Proceed(c)
        PROVE  \A s \in Services : Kept(s)
    BY <1>1, <2>1, <2>3, EnableGivesBack DEF Proceed, CallStart, StartingServer, CallStop, StoppingServer
  <2>4. CASE (\E pair \in Configs : SetListenAddrs(pair)) \/ Accepting \/ UNCHANGED appVars
    BY <2>1, <2>4 DEF SetListenAddrs, Accepting, appVars
  <2>. QED
    BY <1>1, <2>2, <2>3, <2>4 DEF AppNext
<1>2. AppInv /\ [AppNext]_appVars =>
        [\A s \in Services : Own'[s] # Own[s] =>
           \/ s \in Flaky /\ Own'[s] = Partly
           \/ ~Exact(Own[s]) /\ \E pair \in Configs : Own'[s] = Restored(Own[s], Sent(pair))
           \/ ProcessEnds]_appVars
  BY <1>1 DEF Kept
<1>. QED
  BY <1>2, AppInvariance, PTL DEF AppSpec, GivesBack
-----------------------------------------------------------------------------
(* The application is a switch                                             *)

(* A step that a user of the switch does not see. *)
Unseen   == UNCHANGED <<addrs, Shows, OpenPorts, setting, services, Own, Exiting>>
Switches == Promise!Next \/ Unseen

LEMMA SysUnseen == UNCHANGED sysVars => UNCHANGED <<setting, services, Own>>
  BY DEF sysVars, Own

LEMMA PortsUnseen == UNCHANGED addr => UNCHANGED OpenPorts
  BY DEF OpenPorts, IsOpen

(* A request goes on, and is not that of a program that is done. *)
LEMMA TurnUnseen ==
    ASSUME AppTypeOK, NEW c \in Callers, NEW to, call' = [call EXCEPT ![c] = to],
           call[c] # "exit", to # "exit"
    PROVE  Exiting' = Exiting
  BY DEF AppTypeOK, Exiting

LEMMA OpensPort ==
    ASSUME TypeOK, NEW l \in Listeners, ~IsOpen(l), NEW x, x # None, addr' = [addr EXCEPT ![l] = x]
    PROVE  OpenPorts' = OpenPorts \cup {x}
<1>1. addr'[l] = x /\ \A k \in Listeners : k # l => addr'[k] = addr[k]
  BY DEF TypeOK
<1>2. \A y : y \in OpenPorts <=> \E k \in Listeners : addr[k] # None /\ y = addr[k]
  BY DEF OpenPorts, IsOpen
<1>3. \A y : y \in OpenPorts' <=> \E k \in Listeners : addr'[k] # None /\ y = addr'[k]
  BY DEF OpenPorts, IsOpen
<1>. QED
  BY <1>1, <1>2, <1>3 DEF IsOpen

LEMMA ClosesPort ==
    ASSUME TypeOK, NEW l \in Listeners \cup {None}, Close(l)
    PROVE  OpenPorts' = OpenPorts \/ \E x \in OpenPorts : OpenPorts' = OpenPorts \ {x}
<1>1. CASE l = None \/ ~IsOpen(l)
  <2>1. addr' = addr
    BY <1>1, ProxyServerAssumption DEF Close, IsOpen, TypeOK
  <2>. QED
    BY <2>1, PortsUnseen
<1>2. CASE l \in Listeners /\ IsOpen(l)
  <2>1. addr'[l] = None /\ \A k \in Listeners : k # l => addr'[k] = addr[k]
    BY <1>2, ProxyServerAssumption DEF Close, TypeOK
  <2>2. \A y : y \in OpenPorts <=> \E k \in Listeners : addr[k] # None /\ y = addr[k]
    BY DEF OpenPorts, IsOpen
  <2>3. \A y : y \in OpenPorts' <=> \E k \in Listeners : addr'[k] # None /\ y = addr'[k]
    BY DEF OpenPorts, IsOpen
  <2>4. addr[l] \in OpenPorts
    BY <1>2, <2>2 DEF IsOpen
  <2>5. \A y : y # addr[l] => (y \in OpenPorts' <=> y \in OpenPorts)
    BY <1>2, <2>1, <2>2, <2>3
  <2>6. OpenPorts' \subseteq OpenPorts
    BY <1>2, <2>1, <2>2, <2>3
  <2>7. CASE addr[l] \in OpenPorts'
    BY <2>5, <2>6, <2>7
  <2>8. CASE addr[l] \notin OpenPorts'
    <3>1. OpenPorts' = OpenPorts \ {addr[l]}
      BY <2>5, <2>8
    <3>. QED
      BY <2>4, <3>1
  <2>. QED
    BY <2>7, <2>8
<1>. QED
  BY <1>1, <1>2

(* Whatever is open is the server's, or held by the request in progress.   *)
LEMMA OwnedByOne ==
    ASSUME Orderly, NEW c \in Callers, call[c] # "none", NEW l \in Listeners, IsOpen(l)
    PROVE  l \in Of(fields) \/ l \in Of(mine[c])
<1>1. \A d \in Callers \ {c} : mine[d] = NoPair
  BY DEF Orderly, Sole, AppInv, AppTypeOK, SerialInv, Phase
<1>. QED
  BY <1>1 DEF Orderly, SerialInv, Owned, Of, NoPair

LEMMA NothingOpen ==
    ASSUME Orderly, NEW c \in Callers, call[c] # "none", fields = NoPair,
           \A l \in Of(mine[c]) : l \in Listeners => ~IsOpen(l)
    PROVE  OpenPorts = {}
<1>1. \A l \in Listeners : ~IsOpen(l)
  BY OwnedByOne DEF Of, NoPair
<1>. QED
  BY <1>1 DEF OpenPorts

(* Between two calls of the server there is nothing open unless it runs.   *)
LEMMA RestPorts ==
    ASSUME Orderly, NEW c \in Callers, call[c] \in {"start", "enable", "stop", "exit"},
           status # "running"
    PROVE  OpenPorts = {}
<1>1. AtRest /\ mine[c] = NoPair /\ fields = NoPair
  BY RestBetween DEF Orderly, SerialInv, Resting, Phase, AtRest
<1>. QED
  BY <1>1, NothingOpen DEF Of, NoPair

LEMMA StartProxySwitches ==
    ASSUME Orderly, NEW c \in Callers, NEW sys \in BOOLEAN, StartProxy(c, sys) PROVE Unseen
<1>1. UNCHANGED <<addrs, status, addr, sysVars>> /\ call[c] = "none" /\ call' = [call EXCEPT ![c] = "start"]
  BY DEF StartProxy, ServerIdle
<1>2. Exiting' = Exiting
  BY <1>1, TurnUnseen DEF Orderly, AppInv
<1>. QED
  BY <1>1, <1>2, SysUnseen, PortsUnseen DEF Unseen, Shows

LEMMA DisableSwitches ==
    ASSUME Orderly, NEW c \in Callers, NEW quit \in BOOLEAN, Disable(c, quit) PROVE Switches
<1>1. UNCHANGED <<addrs, status, addr>> /\ call[c] = "none" /\ call' = [call EXCEPT ![c] = "stop"]
  BY DEF Disable, vars
<1>2. Exiting' = Exiting
  BY <1>1, TurnUnseen DEF Orderly, AppInv
<1>3. CASE UNCHANGED sysVars
  BY <1>1, <1>2, <1>3, SysUnseen, PortsUnseen DEF Switches, Unseen, Shows
<1>4. CASE ~UNCHANGED sysVars
  <2>1. PICK partly \in SUBSET (Flaky \cap services) :
           setting' = [s \in Services |-> IF s \in partly THEN Partly ELSE Own[s]]
    BY <1>4 DEF Disable
  <2>2. services' = {}
    BY <1>4 DEF Disable
  <2>3. Own' = [s \in Services |-> setting'[s]]
    BY <2>2 DEF Own
  <2>4. Own' = [s \in Services |-> IF s \in partly THEN Partly ELSE Own[s]]
    BY <2>1, <2>3 DEF Own
  <2>5. setting' = [s \in Services |-> Own'[s]]
    BY <2>1, <2>3
  <2>6. Promise!Restore
    <3>1. Promise!Spoil(services, Own)
      BY <2>4 DEF Promise!Spoil
    <3>2. setting' = Promise!Used'
      BY <2>2, <2>5 DEF Promise!Used
    <3>3. UNCHANGED <<addrs, Shows, OpenPorts>>
      BY <1>1, PortsUnseen DEF Shows
    <3>. QED
      BY <1>2, <2>2, <3>1, <3>2, <3>3 DEF Promise!Restore, Promise!proxyVars
  <2>. QED
    BY <2>6 DEF Switches, Promise!Next
<1>. QED
  BY <1>3, <1>4

LEMMA EnableSwitches ==
    ASSUME Orderly, NEW c \in Callers, Enable(c) PROVE Switches
<1>1. /\ UNCHANGED <<addrs, status, addr>> /\ call[c] = "enable"
      /\ call' = [call EXCEPT ![c] = "none"] /\ status = "running" /\ asked[c].addrs = addrs
  BY DEF Enable, Turn, vars, Orderly, Agree, Agreement, AskedNow
<1>2. Exiting' = Exiting /\ ~Exiting
  BY <1>1, TurnUnseen DEF Orderly, AppInv, Sole, Exiting
<1>3. CASE UNCHANGED sysVars
  BY <1>1, <1>2, <1>3, SysUnseen, PortsUnseen DEF Switches, Unseen, Shows
<1>4. CASE ~UNCHANGED sysVars
  <2>1. PICK unread \in SUBSET Flaky, partly \in SUBSET Flaky :
           /\ unread \cap partly = {}
           /\ services' = Services \ (unread \cup partly)
           /\ backup'   = [s \in Services |-> IF s \in unread THEN None ELSE setting[s]]
           /\ setting'  = [s \in Services |->
                  IF s \in unread THEN setting[s]
                  ELSE IF s \in partly THEN Partly ELSE Sent(addrs)]
    BY <1>1, <1>4, SMTT(30) DEF Enable
  <2>2. services = {}
    BY <1>4 DEF Enable, Orderly, AppInv, Listed
  <2>3. /\ Own = [s \in Services |-> setting[s]]
        /\ Own' = [s \in Services |-> IF s \in services' THEN Restored(backup'[s], setting'[s])
                                      ELSE setting'[s]]
    BY <2>2 DEF Own
  <2>4. Own' = [s \in Services |-> IF s \in partly THEN Partly
                                    ELSE IF s \in services' THEN Promise!Back(Own[s]) ELSE Own[s]]
    <3>1. ASSUME NEW s \in Services, s \in services'
          PROVE  s \notin partly /\ Restored(backup'[s], setting'[s]) = Promise!Back(Own[s])
      BY <2>1, <2>3, <3>1 DEF Restored, Sent, Promise!Back
    <3>2. ASSUME NEW s \in Services, s \notin services'
          PROVE  setting'[s] = IF s \in partly THEN Partly ELSE Own[s]
      BY <2>1, <2>3, <3>2
    <3>. QED
      BY <2>3, <3>1, <3>2
  <2>5. setting' = [s \in Services |-> IF s \in services' THEN Sent(addrs) ELSE Own'[s]]
    BY <2>1, <2>3
  <2>6. Flaky \subseteq Services
    BY AppAssumption
  <2>7. services' \in SUBSET Services /\ Services \ services' \subseteq Flaky
        /\ partly \in SUBSET ((Services \ services') \cap Flaky)
    BY <2>1, <2>6
  <2>8. Promise!Send
    <3>1. Promise!Spoil(Services \ services',
                        [s \in Services |-> IF s \in services' THEN Promise!Back(Own[s]) ELSE Own[s]])
      BY <2>4, <2>7 DEF Promise!Spoil
    <3>2. setting' = Promise!Used'
      BY <1>1, <2>5 DEF Promise!Used, Promise!Proxied, Sent
    <3>3. UNCHANGED <<addrs, Shows, OpenPorts>> /\ Shows = "running"
      BY <1>1, PortsUnseen DEF Shows
    <3>. QED
      BY <1>2, <2>2, <2>7, <3>1, <3>2, <3>3 DEF Promise!Send, Promise!proxyVars
  <2>. QED
    BY <2>8 DEF Switches, Promise!Next
<1>. QED
  BY <1>3, <1>4

LEMMA CallStartSwitches == ASSUME Orderly, NEW c \in Callers, CallStart(c) PROVE Switches
<1>1. call[c] = "start" /\ UNCHANGED <<addrs, sysVars, addr>>
  BY DEF CallStart, Turn, StartBegins, vars
<1>2. PICK to \in {"starting", "enable", "none"} : call' = [call EXCEPT ![c] = to]
  BY DEF CallStart, Turn, Started
<1>3. Exiting' = Exiting /\ ~Exiting
  BY <1>1, <1>2, TurnUnseen DEF Orderly, AppInv, Sole, Exiting
<1>4. CASE StartBegins(c)
  <2>1. status \in {"stopped", "error"} /\ status' = "starting"
    BY <1>1, <1>4, RestBetween DEF StartBegins
  <2>2. OpenPorts = {}
    BY <1>1, <2>1, RestPorts
  <2>3. Promise!Start
    BY <1>1, <1>3, <2>1, <2>2, SysUnseen, PortsUnseen DEF Promise!Start, Promise!Move, Promise!sysVars, Shows
  <2>. QED
    BY <2>3 DEF Switches, Promise!Next
<1>5. CASE UNCHANGED vars
  BY <1>1, <1>3, <1>5, SysUnseen, PortsUnseen DEF Switches, Unseen, Shows, vars
<1>. QED
  BY <1>4, <1>5 DEF CallStart

(* The steps of Start. *)
LEMMA ListenSwitches ==
    ASSUME Orderly, NEW c \in Callers, call[c] = "starting", Starting(c), Exiting' = Exiting,
           UNCHANGED <<status, addrs, sysVars>>, NEW l \in Listeners, Fresh(l), NEW x,
           x = addrs.http \/ x = addrs.socks, ~InUse(x), addr' = [addr EXCEPT ![l] = x]
    PROVE  Promise!Listen
<1>1. TypeOK /\ status = "starting" /\ ~IsOpen(l)
  BY DEF Orderly, AppInv, AppTypeOK, SerialInv, Phase, Fresh
<1>2. addrs \in Configs /\ x # None
  <2>1. addrs \in Configs
    BY DEF Orderly, AppInv, AppTypeOK
  <2>2. addrs.http \in Addrs /\ addrs.socks \in Addrs
    BY <2>1 DEF Addrs
  <2>. QED
    BY <2>1, <2>2, ProxyServerAssumption
<1>3. OpenPorts' = OpenPorts \cup {x}
  BY <1>1, <1>2, OpensPort
<1>4. x \notin OpenPorts
  BY DEF InUse, OpenPorts
<1>. QED
  BY <1>1, <1>3, <1>4, SysUnseen DEF Promise!Listen, Promise!Both, Promise!sysVars, Shows

LEMMA StartingSwitches == ASSUME Orderly, NEW c \in Callers, StartingServer(c) PROVE Switches
<1>0. /\ call[c] = "starting" /\ UNCHANGED <<addrs, sysVars>> /\ StartStep(c)
      /\ TypeOK /\ Phase(c) /\ Agreement(c) /\ Inv /\ config = addrs
  BY DEF StartingServer, Turn, Orderly, AppInv, AppTypeOK, SerialInv, Agree, Agreement
<1>1. PICK to \in {"starting", "enable", "none"} : call' = [call EXCEPT ![c] = to]
  BY DEF StartingServer, Turn, Started
<1>2. Exiting' = Exiting
  BY <1>0, <1>1, TurnUnseen DEF Orderly, AppInv
<1>. USE DEF Goto, Hold
<1>3. CASE ListenHTTP(c)
  <2>1. PICK l \in Listeners : Fresh(l) /\ addr' = [addr EXCEPT ![l] = config.http]
    BY <1>3 DEF ListenHTTP
  <2>2. ~InUse(config.http) /\ Starting(c) /\ UNCHANGED status
    BY <1>3 DEF ListenHTTP, Starting
  <2>3. Promise!Listen
    BY <1>0, <1>2, <2>1, <2>2, ListenSwitches
  <2>. QED
    BY <2>3 DEF Switches, Promise!Next
<1>4. CASE ListenSOCKS(c)
  <2>1. PICK l \in Listeners : Fresh(l) /\ addr' = [addr EXCEPT ![l] = config.socks]
    BY <1>4 DEF ListenSOCKS
  <2>2. ~InUse(config.socks) /\ Starting(c) /\ UNCHANGED status
    BY <1>4 DEF ListenSOCKS, Starting
  <2>3. Promise!Listen
    BY <1>0, <1>2, <2>1, <2>2, ListenSwitches
  <2>. QED
    BY <2>3 DEF Switches, Promise!Next
<1>5. CASE SOCKSRefused(c)
  <2>1. /\ pc[c] = "listenSOCKS" /\ status = "starting" /\ fields = NoPair /\ UNCHANGED status
        /\ mine[c].http \in Listeners /\ mine[c].socks = None
    BY <1>0, <1>5 DEF SOCKSRefused, Phase, Starting, Inv, HalfOpen
  <2>2. addr' = [addr EXCEPT ![mine[c].http] = None]
    BY <1>5, <2>1, ProxyServerAssumption DEF SOCKSRefused, Close
  <2>3. \A l \in Listeners : IsOpen(l) => l = mine[c].http
    BY <1>0, <2>1, OwnedByOne, ProxyServerAssumption DEF Of, NoPair
  <2>4. \A l \in Listeners : addr'[l] = None
    BY <1>0, <2>1, <2>2, <2>3 DEF TypeOK, IsOpen
  <2>5. OpenPorts' = {}
    BY <2>4 DEF OpenPorts, IsOpen
  <2>6. Promise!Refuse
    BY <1>0, <1>2, <2>1, <2>5, SysUnseen DEF Promise!Refuse, Promise!sysVars, Shows
  <2>. QED
    BY <2>6 DEF Switches, Promise!Next
<1>6. CASE HTTPRefused(c) \/ Serve(c)
  <2>1. UNCHANGED <<status, addr>>
    BY <1>6 DEF HTTPRefused, Serve
  <2>. QED
    BY <1>0, <1>2, <2>1, SysUnseen, PortsUnseen DEF Switches, Unseen, Shows
<1>7. CASE Fail(c)
  <2>1. /\ pc[c] = "failed" /\ status = "starting" /\ status' = "error" /\ fields = NoPair
        /\ mine[c] = NoPair /\ UNCHANGED addr
    BY <1>0, <1>7 DEF Fail, Phase, Starting
  <2>2. OpenPorts = {}
    BY <1>0, <2>1, NothingOpen, ProxyServerAssumption DEF Of, NoPair
  <2>3. Promise!Fail
    BY <1>0, <1>2, <2>1, <2>2, SysUnseen, PortsUnseen DEF Promise!Fail, Promise!Move, Promise!sysVars, Shows
  <2>. QED
    BY <2>3 DEF Switches, Promise!Next
<1>8. CASE Publish(c)
  <2>1. /\ pc[c] = "publish" /\ status = "starting" /\ status' = "running" /\ fields = NoPair
        /\ UNCHANGED addr /\ Live(mine[c]) /\ Bound(mine[c])
    BY <1>0, <1>8 DEF Publish, Phase, Starting, Agreement, Inv, Opened
  <2>2. \A l \in Listeners : IsOpen(l) => l = mine[c].http \/ l = mine[c].socks
    BY <1>0, <2>1, OwnedByOne, ProxyServerAssumption DEF Of, NoPair
  <2>3. OpenPorts = {addrs.http, addrs.socks}
    BY <2>1, <2>2 DEF OpenPorts, Live, Both, Bound
  <2>4. Promise!Run
    BY <1>0, <1>2, <2>1, <2>3, SysUnseen, PortsUnseen
       DEF Promise!Run, Promise!Both, Promise!Move, Promise!sysVars, Shows
  <2>. QED
    BY <2>4 DEF Switches, Promise!Next
<1>. QED
  BY <1>0, <1>3, <1>4, <1>5, <1>6, <1>7, <1>8 DEF StartStep

(* The request of a shutdown ends with the program. *)
LEMMA AfterSwitches ==
    ASSUME AppTypeOK, NEW c \in Callers, call[c] # "exit", call' = [call EXCEPT ![c] = After(c)]
    PROVE  Exiting' \in {Exiting, TRUE}
<1>1. CASE After(c) = "exit"
  BY <1>1 DEF AppTypeOK, Exiting
<1>2. CASE After(c) = "none"
  <2>1. Exiting' = Exiting
    BY <1>2, TurnUnseen
  <2>. QED
    BY <2>1
<1>. QED
  BY <1>1, <1>2 DEF After

LEMMA CallStopSwitches == ASSUME Orderly, NEW c \in Callers, CallStop(c) PROVE Switches
<1>0. call[c] = "stop" /\ UNCHANGED <<addrs, sysVars, addr>> /\ services = {}
  BY DEF CallStop, Turn, StopBegins, vars, Orderly, Agree, Agreement, AppInv, Listed
<1>1. CASE StopBegins(c) /\ Turn(c, "stop", "stopping")
  <2>1. status \in {"running", "error"} /\ status' = "stopping"
    BY <1>0, <1>1, RestBetween DEF StopBegins
  <2>2. Exiting' = Exiting
    BY <1>0, <1>1, TurnUnseen DEF Turn, Orderly, AppInv
  <2>3. Promise!Stop
    BY <1>0, <2>1, <2>2, SysUnseen, PortsUnseen DEF Promise!Stop, Promise!Move, Promise!sysVars, Shows
  <2>. QED
    BY <2>3 DEF Switches, Promise!Next
<1>2. CASE status \in {"stopped", "stopping"} /\ Turn(c, "stop", After(c)) /\ UNCHANGED vars
  <2>1. status = "stopped" /\ status' = "stopped"
    BY <1>0, <1>2, RestBetween DEF vars
  <2>2. OpenPorts = {}
    BY <1>0, <2>1, RestPorts
  <2>3. Exiting' \in {Exiting, TRUE}
    BY <1>0, <1>2, AfterSwitches DEF Turn, Orderly, AppInv
  <2>4. Promise!Quit \/ Unseen
    BY <1>0, <2>1, <2>2, <2>3, SysUnseen, PortsUnseen
       DEF Promise!Quit, Promise!proxyVars, Promise!sysVars, Unseen, Shows
  <2>. QED
    BY <2>4 DEF Switches, Promise!Next
<1>. QED
  BY <1>1, <1>2 DEF CallStop

(* The steps of Stop. *)
LEMMA StoppingSwitches == ASSUME Orderly, NEW c \in Callers, StoppingServer(c) PROVE Switches
<1>0. /\ call[c] = "stopping" /\ UNCHANGED <<addrs, sysVars>> /\ services = {} /\ StopStep(c)
      /\ TypeOK /\ Phase(c) /\ WaitGroupCounts /\ mine[c] \in Pair
      /\ call' = [call EXCEPT ![c] = IF pc'[c] = "idle" THEN After(c) ELSE "stopping"]
  BY DEF StoppingServer, Turn, Orderly, AppInv, AppTypeOK, TypeOK, SerialInv, Agree, Agreement, Listed, Inv
<1>1. ASSUME pc'[c] # "idle" PROVE Exiting' = Exiting
  BY <1>0, <1>1, TurnUnseen DEF Orderly, AppInv
<1>. USE DEF Goto, Hold
<1>2. ASSUME NEW l \in Listeners \cup {None}, Close(l), pc'[c] # "idle", Stopping(c), UNCHANGED status
      PROVE  Switches
  <2>1. status = "stopping" /\ Exiting' = Exiting
    BY <1>0, <1>1, <1>2 DEF Phase
  <2>2. CASE OpenPorts' = OpenPorts
    BY <1>0, <1>2, <2>1, <2>2, SysUnseen DEF Switches, Unseen, Shows
  <2>3. CASE \E x \in OpenPorts : OpenPorts' = OpenPorts \ {x}
    <3>1. Promise!Close
      BY <1>0, <1>2, <2>1, <2>3, SysUnseen DEF Promise!Close, Promise!sysVars, Shows
    <3>. QED
      BY <3>1 DEF Switches, Promise!Next
  <2>. QED
    BY <1>0, <1>2, <2>2, <2>3, ClosesPort
<1>3. CASE CloseHTTP(c)
  <2>1. Close(mine[c].http) /\ pc'[c] # "idle" /\ Stopping(c) /\ UNCHANGED status
    BY <1>0, <1>3 DEF CloseHTTP, Stopping, TypeOK
  <2>. QED
    BY <1>0, <1>2, <2>1 DEF Pair
<1>4. CASE CloseSOCKS(c)
  <2>1. Close(mine[c].socks) /\ pc'[c] # "idle" /\ Stopping(c) /\ UNCHANGED status
    BY <1>0, <1>4 DEF CloseSOCKS, Stopping, TypeOK
  <2>. QED
    BY <1>0, <1>2, <2>1 DEF Pair
<1>5. CASE Wait(c) \/ Wake(c)
  <2>1. loops = {} => wg = 0
    BY <1>0, NoLoopsNoCount
  <2>2. pc'[c] # "idle" /\ UNCHANGED <<status, addr>>
    BY <1>0, <1>5, <2>1 DEF Wait, Wake, Phase, TypeOK
  <2>. QED
    BY <1>0, <1>1, <2>2, SysUnseen, PortsUnseen DEF Switches, Unseen, Shows
<1>6. CASE SetStopped(c)
  <2>1. /\ pc[c] = "stopped" /\ status = "stopping" /\ status' = "stopped" /\ fields = NoPair /\ pc'[c] = "idle"
        /\ UNCHANGED addr /\ Shut(mine[c].http) /\ Shut(mine[c].socks)
    BY <1>0, <1>6 DEF SetStopped, Phase, Stopping, TypeOK
  <2>2. OpenPorts = {}
    BY <1>0, <2>1, NothingOpen DEF Of, Shut
  <2>3. Exiting' \in {Exiting, TRUE}
    BY <1>0, <2>1, AfterSwitches DEF Orderly, AppInv
  <2>4. Promise!Closed
    BY <1>0, <2>1, <2>2, <2>3, SysUnseen, PortsUnseen DEF Promise!Closed, Promise!Move, Promise!sysVars, Shows
  <2>. QED
    BY <2>4 DEF Switches, Promise!Next
<1>. QED
  BY <1>0, <1>3, <1>4, <1>5, <1>6 DEF StopStep

LEMMA SetListenAddrsSwitches ==
    ASSUME Orderly, NEW pair \in Configs, SetListenAddrs(pair) PROVE Switches
<1>1. /\ status \in {"stopped", "stopping", "error"} /\ addrs' = pair /\ services = {}
      /\ UNCHANGED <<status, addr, call, sysVars>>
  BY DEF SetListenAddrs, Orderly, Agree, AppInv, AppTypeOK, TypeOK, Listed, vars
<1>2. Exiting' = Exiting
  BY <1>1 DEF Exiting
<1>3. Promise!SetAddrs
  BY <1>1, <1>2, SysUnseen, PortsUnseen DEF Promise!SetAddrs, Promise!sysVars, Shows
<1>. QED
  BY <1>3 DEF Switches, Promise!Next

LEMMA ProcessEndsSwitches == ASSUME Orderly, ProcessEnds PROVE Switches
<1>1. /\ status' = "stopped" /\ addrs' \in Configs /\ services' = {} /\ ~Exiting'
      /\ \A l \in Listeners : addr'[l] = None
  BY DEF ProcessEnds, Restart, Exiting
<1>2. OpenPorts' = {}
  BY <1>1 DEF OpenPorts, IsOpen
<1>3. PICK target \in Targets, through, half \in SUBSET Services :
         setting' = [s \in Services |-> IF s \in half THEN Partly
                                       ELSE IF s \in through THEN target[s] ELSE setting[s]]
  BY DEF ProcessEnds
<1>4. Own' = setting'
  BY <1>1, <1>3 DEF Own
<1>5. ASSUME NEW s \in Services PROVE target[s] \in {setting[s], Own[s], Sent(addrs)}
  BY DEF Targets, Own, Orderly, AskedNow
<1>6. ASSUME NEW s \in Services PROVE setting'[s] \in {setting[s], Own[s], Sent(addrs), Partly}
  BY <1>3, <1>5
<1>7. Promise!Crash
  BY <1>1, <1>2, <1>4, <1>6 DEF Promise!Crash, Promise!Proxied, Sent, Shows
<1>. QED
  BY <1>7 DEF Switches, Promise!Next

LEMMA SwitchStep == ASSUME Orderly, [AppNext]_appVars PROVE Switches
<1>1. ASSUME NEW c \in Callers, Request(c) PROVE Switches
  BY <1>1, StartProxySwitches, DisableSwitches DEF Request, Shutdown, Switches
<1>2. ASSUME NEW c \in Callers, Proceed(c) PROVE Switches
  BY <1>2, CallStartSwitches, StartingSwitches, EnableSwitches, CallStopSwitches, StoppingSwitches DEF Proceed
<1>3. ASSUME NEW pair \in Configs, SetListenAddrs(pair) PROVE Switches
  BY <1>3, SetListenAddrsSwitches
<1>4. CASE Accepting \/ UNCHANGED appVars
  <2>1. UNCHANGED <<status, addr, addrs, call, sysVars>>
    BY <1>4 DEF Accepting, AcceptLoopEnds, AcceptFails, Return, appVars, vars
  <2>. QED
    BY <2>1, SysUnseen, PortsUnseen DEF Switches, Unseen, Shows, Exiting
<1>5. CASE ProcessEnds
  BY <1>5, ProcessEndsSwitches
<1>. QED
  BY <1>1, <1>2, <1>3, <1>4, <1>5 DEF AppNext

LEMMA SwitchInit == AppInit => Promise!Init
<1>. SUFFICES ASSUME AppInit PROVE Promise!Init
  OBVIOUS
<1>1. OpenPorts = {} /\ ~Exiting /\ Shows = "stopped"
  BY DEF AppInit, Init, OpenPorts, IsOpen, Exiting, Shows
<1>2. Own = setting
  BY DEF AppInit, Own
<1>. QED
  BY <1>1, <1>2 DEF AppInit, Init, Promise!Init

(* To a user who makes one request at a time the application is a switch   *)
(* (Switch), step by step: it runs only with both its ports open, sends    *)
(* services only to the addresses it then listens on, closes no port       *)
(* before they have got back what restoreService gives back, and ends with *)
(* nothing open.                                                           *)
THEOREM AppIsSwitch == AppSpec => SerialActsAsSwitch
<1>1. Orderly /\ [AppNext]_appVars => [Promise!Next]_(Promise!vars)
  BY SwitchStep DEF Switches, Unseen, Promise!vars, Promise!proxyVars, Promise!sysVars
<1>2. AppSpec => AppInit /\ [][AppNext]_appVars
  BY DEF AppSpec
<1>. QED
  BY <1>1, <1>2, SwitchInit, OrderlyHolds, PTL DEF SerialActsAsSwitch, Promise!Safety
=============================================================================
