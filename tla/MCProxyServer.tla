--------------------------- MODULE MCProxyServer ---------------------------
(* Instances of the proxy server for TLC. *)
EXTENDS ProxyServer, TLC

CONSTANTS c1, c2, w, x, y

OneConfig   == {[http |-> w, socks |-> x]}
(* The user may give both proxies one address, or move one of them. *)
SomeConfigs == OneConfig \cup {[http |-> w, socks |-> w], [http |-> y, socks |-> x]}
=============================================================================
