------------------------------ MODULE Download ------------------------------
(***************************************************************************)
(* A multi-range download (internal/download/multirange.go): the goroutine *)
(* that runs the job, one goroutine for each part of the file, and a user  *)
(* who may cancel at any time.  Jobs share nothing but the dialer and the  *)
(* scheduler, so one job stands for all.                                   *)
(*                                                                         *)
(* The resource has Size bytes and its byte at offset x is x itself; a     *)
(* Read returns up to MaxRead bytes of a body, which may break off at any  *)
(* time.  Making the request and reading its answer end by the client's    *)
(* 60 s timeout at the latest.                                             *)
(***************************************************************************)
EXTENDS Integers, Sequences, FiniteSets, Loops

CONSTANTS
    Adapters,     \* adapter IDs
    None,         \* no adapter, no byte
    Selections,   \* the entry lists the scheduler may hold
    Requests,     \* values Start may get for the concurrency
    MaxParts,     \* no job has more parts (32 in the code)
    Size,         \* bytes of the resource
    Probes,       \* what probe may find out: size (0: unknown) and range support
    Answers,      \* how the server may grant the request of a part
    Announced,    \* whether a server that has told the size also announces the
                  \* length of the answer to a single request
    MaxRead       \* bound: bytes one Read may return

ASSUME DownloadAssumption ==
    /\ None \notin Adapters /\ None \notin 0..Size
    /\ Selections \subseteq Seq(Adapters)
    /\ Requests \subseteq Int
    /\ MaxParts \in Nat \ {0} /\ Size \in Nat \ {0} /\ MaxRead \in Nat \ {0}
    /\ Probes \subseteq [size : {0, Size}, ranges : BOOLEAN]
    /\ Answers \subseteq {"partial", "whole"} /\ Announced \subseteq BOOLEAN

VARIABLES
    selection,    \* the scheduler's entries
    status,       \* job.Status
    finished,     \* whether job.FinishedAt is set
    cancelled,    \* whether the job's context is cancelled
    concurrency,  \* job.Concurrency
    total,        \* job.TotalSize
    downloaded,   \* job.Downloaded
    parts,        \* job.Parts, each with its goroutine
    file,         \* the byte at each offset of the output file
    pc,           \* where the job's goroutine is
    length,       \* whether a single stream announces its length
    written       \* the bytes a single stream has written

jobVars == <<status, finished, cancelled, concurrency, total, downloaded>>
single  == <<length, written>>
vars    == <<selection, jobVars, parts, file, pc, single>>

Offsets  == 0..(2 * Size - 1)
Goto(from, to) == pc = from /\ pc' = to
-----------------------------------------------------------------------------
(* The job                                                                 *)

ClampBelow(request, adapters) ==
    IF request <= 0 THEN 2 * (IF adapters < 1 THEN 1 ELSE adapters) ELSE request
Clamp(request, adapters) ==
    LET asked == IF request <= 0 THEN 2 * (IF adapters < 1 THEN 1 ELSE adapters) ELSE request
    IN  IF asked > MaxParts THEN MaxParts ELSE asked

Start(request) ==
    /\ Goto("none", "queued")
    /\ status' = "queued"
    /\ concurrency' = Clamp(request, Len(selection))
    /\ UNCHANGED <<selection, finished, cancelled, total, downloaded, parts, file, single>>

CancelWhatever ==
    /\ pc # "none"
    /\ cancelled' = TRUE
    /\ status' = "canceled"
    /\ UNCHANGED <<selection, finished, concurrency, total, downloaded, parts, file, pc, single>>

Cancel ==
    /\ pc # "none"
    /\ cancelled' = TRUE
    /\ status' = IF status \in {"running", "queued"} THEN "canceled" ELSE status
    /\ UNCHANGED <<selection, finished, concurrency, total, downloaded, parts, file, pc, single>>

RunBegins ==
    /\ Goto("queued", "probe")
    /\ status' = "running"
    /\ UNCHANGED <<selection, finished, cancelled, concurrency, total, downloaded, parts, file,
                   single>>

(* The probe succeeds and the output file is created. *)
Probe ==
    /\ ~cancelled
    /\ \E found \in Probes :
          /\ Goto("probe", IF found.size > 0 /\ found.ranges /\ concurrency > 1
                           THEN "split" ELSE "single")
          /\ total' = found.size
    /\ UNCHANGED <<selection, status, finished, cancelled, concurrency, downloaded, parts, file,
                   single>>

(* The probe, a file operation, the single stream or its request fails. *)
Fails ==
    /\ pc \in {"probe", "split", "single", "stream"}
    /\ pc' = "fail"
    /\ UNCHANGED <<selection, jobVars, parts, file, single>>
-----------------------------------------------------------------------------
(* Parts                                                                   *)

ChunkWithoutRest(n, i) ==
    LET chunk == total \div n IN
    [first |-> (i - 1) * chunk, last |-> i * chunk - 1]
Chunk(n, i) ==
    LET chunk == total \div n IN
    [first |-> (i - 1) * chunk, last |-> IF i = n THEN total - 1 ELSE i * chunk - 1]

NewPart(n, i) ==
    [first |-> Chunk(n, i).first, last |-> Chunk(n, i).last, got |-> 0, done |-> 0,
     on |-> None, at |-> "pick", whole |-> FALSE, failed |-> FALSE]

Split ==
    /\ Goto("split", "parts")
    /\ parts' = [i \in 1..concurrency |-> NewPart(concurrency, i)]
    /\ UNCHANGED <<selection, jobVars, file, single>>

PartAt(i, places) == pc = "parts" /\ parts[i].at \in places
PartBecomes(i, p) == parts' = [parts EXCEPT ![i] = p]
Need(p)           == p.last - p.first + 1

PickAdapter(i) ==
    /\ PartAt(i, {"pick"})
    /\ PartBecomes(i, [parts[i] EXCEPT !.at = "request",
           !.on = IF selection = <<>> THEN None
                  ELSE selection[((i - 1) % Len(selection)) + 1]])
    /\ UNCHANGED <<selection, jobVars, file, pc, single>>

(* A 206 carries the range, a 200 the whole resource; both are accepted.   *)
(* An empty part asks for an invalid range, which nobody grants.           *)
Answered(i) ==
    /\ PartAt(i, {"request"}) /\ ~cancelled
    /\ \E answer \in Answers :
          /\ answer = "partial" => Need(parts[i]) > 0
          /\ PartBecomes(i, [parts[i] EXCEPT !.at = "read", !.whole = (answer = "whole")])
    /\ UNCHANGED <<selection, jobVars, file, pc, single>>

BodyStart(p) == IF p.whole THEN 0 ELSE p.first
BodyLen(p)   == IF p.whole THEN Size ELSE Need(p)

(* n bytes of a body, which are those of the resource from offset `from',  *)
(* are written to the file from offset `at'.                               *)
Write(n, from, at) ==
    file' = [x \in Offsets |-> IF x \in at..(at + n - 1) THEN from + (x - at) ELSE file[x]]

ProgressOfActive(ps) == SumTo(concurrency, [k \in 1..concurrency |->
                            IF ps[k].at = "read" THEN ps[k].done ELSE 0])
Progress(ps)         == SumTo(concurrency, [k \in 1..concurrency |-> ps[k].done])

(* One Read with its WriteAt; of a write that fails a part may be written. *)
ReadPart(i) ==
    LET p == parts[i] IN
    /\ PartAt(i, {"read"}) /\ p.got < Need(p)
    /\ \E n \in 1..MaxRead, fails \in BOOLEAN :
          /\ p.got + n <= BodyLen(p)
          /\ Write(n, BodyStart(p) + p.got, p.first + p.got)
          /\ PartBecomes(i, [p EXCEPT !.got = @ + n, !.failed = fails,
                                      !.at = IF fails THEN "ended" ELSE "report"])
    /\ UNCHANGED <<selection, jobVars, pc, single>>

(* onProgress, which takes the job's lock after the write. *)
Report(i) ==
    /\ PartAt(i, {"report"})
    /\ PartBecomes(i, [parts[i] EXCEPT !.at = "read", !.done = parts[i].got])
    /\ downloaded' = Progress(parts')
    /\ UNCHANGED <<selection, status, finished, cancelled, concurrency, total, file, pc, single>>

PartEnds(i) ==
    /\ PartAt(i, {"read"}) /\ parts[i].got >= Need(parts[i])
    /\ PartBecomes(i, [parts[i] EXCEPT !.at = "ended"])
    /\ UNCHANGED <<selection, jobVars, file, pc, single>>

(* No connection, a refusal, a write that writes nothing, a body that      *)
(* breaks off.                                                             *)
PartFails(i) ==
    /\ PartAt(i, {"request", "read"})
    /\ PartBecomes(i, [parts[i] EXCEPT !.at = "ended", !.failed = TRUE])
    /\ UNCHANGED <<selection, jobVars, file, pc, single>>

Ended  == {i \in DOMAIN parts : parts[i].at = "ended"}
Failed == {i \in DOMAIN parts : parts[i].failed}

JoinBlamingParts ==
    /\ Goto("parts", IF Failed # {} THEN "fail" ELSE IF cancelled THEN "cancel" ELSE "done")
    /\ Ended = DOMAIN parts
    /\ UNCHANGED <<selection, jobVars, parts, file, single>>

JoinSuccesses ==
    /\ Goto("parts", IF cancelled THEN "cancel" ELSE IF Failed # {} THEN "fail" ELSE "done")
    /\ Ended \ Failed = DOMAIN parts
    /\ UNCHANGED <<selection, jobVars, parts, file, single>>

(* wg.Wait, and the check of the context. *)
Join ==
    /\ Goto("parts", IF cancelled THEN "cancel" ELSE IF Failed # {} THEN "fail" ELSE "done")
    /\ Ended = DOMAIN parts
    /\ UNCHANGED <<selection, jobVars, parts, file, single>>
-----------------------------------------------------------------------------
(* A single stream                                                         *)

SingleAnswered ==
    /\ ~cancelled
    /\ Goto("single", "stream")
    /\ length' \in IF total > 0 THEN Announced ELSE BOOLEAN
    /\ UNCHANGED <<selection, jobVars, parts, file, written>>

(* One Read with its Write; again one that fails may write a part. *)
ReadSingle ==
    /\ pc = "stream" /\ pc' \in {"report", "fail"}
    /\ \E n \in 1..MaxRead :
          /\ written + n <= Size
          /\ Write(n, written, written)
          /\ written' = written + n
    /\ UNCHANGED <<selection, jobVars, parts, length>>

ReportSingle ==
    /\ Goto("report", "stream")
    /\ downloaded' = written
    /\ total' = IF length THEN Size ELSE total
    /\ UNCHANGED <<selection, status, finished, cancelled, concurrency, parts, file, single>>

(* The end of a stream of unknown length is where the server stops. *)
SingleEnds ==
    /\ written = Size \/ ~length
    /\ Goto("stream", "done")
    /\ UNCHANGED <<selection, jobVars, parts, file, single>>
-----------------------------------------------------------------------------
(* The end of the job                                                      *)

Finish(from, outcome) ==
    /\ Goto(from, "end")
    /\ status' = outcome
    /\ finished' = TRUE
    /\ UNCHANGED <<selection, cancelled, concurrency, total, parts, file, single>>

SetFail     == Finish("fail", "failed") /\ UNCHANGED downloaded
SetCanceled == Finish("cancel", "canceled") /\ UNCHANGED downloaded
SetDone     == Finish("done", "done") /\ downloaded' = total

Reselect ==
    /\ selection' \in Selections
    /\ UNCHANGED <<jobVars, parts, file, pc, single>>

Init ==
    /\ selection \in Selections
    /\ status = "none" /\ finished = FALSE /\ cancelled = FALSE /\ concurrency = 0
    /\ total = 0 /\ downloaded = 0
    /\ parts = <<>>
    /\ file  = [x \in Offsets |-> None]
    /\ pc    = "none"
    /\ length = FALSE /\ written = 0

PartStep(i) == \/ PickAdapter(i) \/ Answered(i) \/ ReadPart(i) \/ Report(i)
               \/ PartEnds(i) \/ PartFails(i)
RunStep     == \/ RunBegins \/ Probe \/ Fails \/ Split \/ Join
               \/ SingleAnswered \/ ReadSingle \/ ReportSingle \/ SingleEnds
               \/ SetFail \/ SetCanceled \/ SetDone

Next ==
    \/ \E request \in Requests : Start(request)
    \/ Cancel
    \/ RunStep
    \/ \E i \in DOMAIN parts : PartStep(i)
    \/ Reselect

Spec == Init /\ [][Next]_vars

(* Requests end, by their timeout if need be, and goroutines run.          *)
FairSpec == /\ Spec
            /\ WF_vars(RunStep)
            /\ \A i \in 1..MaxParts : WF_vars(i \in DOMAIN parts /\ PartStep(i))
-----------------------------------------------------------------------------
(* Properties                                                              *)

Part == [first : Nat, last : Int, got : Nat, done : Nat, on : Adapters \cup {None},
         at : {"pick", "request", "read", "report", "ended"}, whole : BOOLEAN, failed : BOOLEAN]

TypeOK ==
    /\ selection \in Selections
    /\ status \in {"none", "queued", "running", "done", "failed", "canceled"}
    /\ finished \in BOOLEAN /\ cancelled \in BOOLEAN /\ length \in BOOLEAN
    /\ concurrency \in 0..MaxParts
    /\ total \in {0, Size} /\ downloaded \in Nat /\ written \in 0..Size
    /\ parts \in Seq(Part)
    /\ file \in [Offsets -> 0..(Size - 1) \cup {None}]
    /\ pc \in {"none", "queued", "probe", "split", "parts", "single", "stream",
               "report", "fail", "cancel", "done", "end"}

(* "Assembled into one complete file" (README.md:23): a job of known size  *)
(* that says done has left every byte of the resource in its place and no  *)
(* others.                                                                 *)
DoneIsWhole ==
    status = "done" /\ total > 0 =>
        \A x \in Offsets : file[x] = IF x < Size THEN x ELSE None

(* However the parts interleave, the progress shown never runs ahead of    *)
(* what is on disk, and lags behind by no more than one Read for each part *)
(* (or single stream) whose report is on its way and each part that has    *)
(* failed, perhaps in a write: no byte is counted or written twice.        *)
OnDisk    == {x \in Offsets : file[x] # None}
Behind(p) == IF p.at = "report" \/ p.failed THEN MaxRead ELSE 0
Lag       == IF pc = "parts" THEN SumTo(concurrency, [k \in 1..concurrency |-> Behind(parts[k])])
             ELSE IF pc = "report" THEN MaxRead ELSE 0

ProgressIsOnDisk ==
    pc \in {"parts", "stream", "report"} =>
        Cardinality(OnDisk) \in downloaded..(downloaded + Lag)

(* A job that has finished stays as it is: a late Cancel changes nothing   *)
(* a user can see.                                                         *)
FinishedIsFinal == [][finished => UNCHANGED <<status, finished, downloaded, file>>]_vars

(* A job that is cancelled while its parts are in flight ends as canceled, *)
(* also if the cancellation makes its parts fail.                          *)
CancelInFlight == (cancelled /\ pc = "parts") ~> (finished /\ status = "canceled")

(* What the user sees is a job that fetches every byte once, says done only *)
(* when it has them all, and ends for good.                                *)
Stage == IF finished THEN "over" ELSE IF pc \in {"none", "queued"} THEN pc ELSE "running"
Got   == {x \in 0..(Size - 1) : file[x] = x}

Promise == INSTANCE Job WITH
    stage <- Stage,
    size  <- total,
    got   <- Got,
    shown <- downloaded

ActsAsJob == Promise!Spec
ActsAsJobSafely == Promise!Safety
=============================================================================
