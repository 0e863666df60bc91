------------------------------- MODULE MCApp -------------------------------
(* Instances of the application controller for TLC. *)
EXTENDS App, TLC

CONSTANTS c1, c2, w, x, y, eth, wifi

OneConfig   == {[http |-> w, socks |-> x]}
SomeConfigs == OneConfig \cup {[http |-> y, socks |-> x]}

(* Of the user: no proxy, one that is switched off, one that is on. *)
NoProxy   == [on |-> FALSE, server |-> None]
ProxyOff  == [on |-> FALSE, server |-> User]
ProxyOn   == [on |-> TRUE,  server |-> User]
AnyUsual  == {NoProxy, ProxyOff, ProxyOn}
OnlyUnset == {NoProxy}
=============================================================================
