-------------------------------- MODULE Job --------------------------------
(***************************************************************************)
(* What a user of the download manager (internal/download/multirange.go)   *)
(* may count on, without parts, requests, adapters or the order in which   *)
(* bytes arrive: a job fetches every byte once, in any order, shows how    *)
(* many it has, says done only when it has them all, and ends for good.    *)
(***************************************************************************)
EXTENDS Integers, FiniteSets

CONSTANT Size     \* bytes of the resource

VARIABLES
    stage,        \* of the job: not there, waiting, running or over
    status,       \* what the user is told
    cancelled,    \* whether the user has cancelled it
    size,         \* its size, 0 as long as that is not known
    got,          \* the bytes that are in their place in the file
    shown         \* the progress the user is told

vars == <<stage, status, cancelled, size, got, shown>>

Bytes == 0..(Size - 1)

Init ==
    /\ stage = "none" /\ status = "none"
    /\ cancelled = FALSE
    /\ size = 0 /\ got = {} /\ shown = 0

Submit ==
    /\ stage = "none"
    /\ stage' = "queued" /\ status' = "queued"
    /\ UNCHANGED <<cancelled, size, got, shown>>

(* The user is told at once, but of a job that is over nothing new. *)
Cancel ==
    /\ stage # "none"
    /\ cancelled' = TRUE
    /\ status' = IF stage = "over" THEN status ELSE "canceled"
    /\ UNCHANGED <<stage, size, got, shown>>

(* A Cancel that came before this is forgotten by the status alone. *)
Begin ==
    /\ stage = "queued"
    /\ stage' = "running" /\ status' = "running"
    /\ UNCHANGED <<cancelled, size, got, shown>>

Learn ==
    /\ stage = "running" /\ got = {} /\ ~cancelled
    /\ size' \in {0, Size}
    /\ UNCHANGED <<stage, status, cancelled, got, shown>>

Fetch ==
    /\ stage = "running"
    /\ \E new \in SUBSET (Bytes \ got) :
          /\ new # {}
          /\ got' = got \cup new
    /\ UNCHANGED <<stage, status, cancelled, size, shown>>

(* The user is told of bytes that are there, and never of fewer again. *)
Report ==
    /\ stage = "running"
    /\ shown' \in (shown + 1)..Cardinality(got)
    /\ size' \in {size, Size}
    /\ UNCHANGED <<stage, status, cancelled, got>>

End(outcome) ==
    /\ stage = "running"
    /\ stage' = "over" /\ status' = outcome
    /\ UNCHANGED <<cancelled, size, got>>

(* Of a stream whose length nobody has told there is nothing to show. *)
EndsDone     == End("done") /\ (size > 0 => got = Bytes) /\ shown' = size
EndsFailed   == End("failed") /\ UNCHANGED shown
EndsCanceled == End("canceled") /\ cancelled /\ UNCHANGED shown

Ends == EndsDone \/ EndsFailed \/ EndsCanceled
Next == Submit \/ Cancel \/ Begin \/ Learn \/ Fetch \/ Report \/ Ends

Safety == Init /\ [][Next]_vars

(* A job that is there begins, and what has begun ends. *)
Spec == Safety /\ WF_vars(Begin) /\ WF_vars(Ends)
=============================================================================
