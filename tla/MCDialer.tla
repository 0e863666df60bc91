------------------------------ MODULE MCDialer ------------------------------
(* Instances of the dialer for TLC. *)
EXTENDS Dialer, TLC

CONSTANTS a, b, p, q

Config(list) == [i \in DOMAIN list |-> [id |-> list[i][1], weight |-> list[i][2], ipv4 |-> TRUE]]

Both     == Config(<< <<a, 1>>, <<b, 1>> >>)
OnlyB    == Config(<< <<b, 2>> >>)
Changing == {Both, OnlyB}
Fixed    == {Config(<< <<a, 1>>, <<b, 2>> >>)}

(* Any reading the dialer can bring about. *)
AnyReading == [rate : {0}, active : -3..3, errors : 0..4]
AnyExclude == SUBSET Adapters
=============================================================================
