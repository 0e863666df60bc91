---------------------------- MODULE MCScheduler ----------------------------
(* Instances of the scheduler for TLC. *)
EXTENDS Scheduler, TLC

CONSTANTS a, b

(* A list of <<id, weight, has an IPv4 address>> as SetEntries gets it. *)
Config(list) == [i \in DOMAIN list |->
                    [id |-> list[i][1], weight |-> list[i][2], ipv4 |-> list[i][3]]]

EvenConfigs == {Config(<< <<a, 1, TRUE>>, <<b, 1, TRUE>> >>),
                Config(<< <<b, 0, TRUE>>, <<a, 1, FALSE>> >>)}
NoExclude   == {{}}

Read(rate, active, errors) == [rate |-> rate, active |-> active, errors |-> errors]
WarmReadings == {Read(13, 12, 3), Read(100, 8, 3)}
=============================================================================
