# LinkPool, verified

LinkPool (`src/`, Go) spreads new outbound TCP connections over several network
adapters: a local HTTP and SOCKS5 proxy dials through the adapter a scheduler
picks, a downloader fetches the parts of one file through different adapters,
and a controller starts and stops all that, sending the macOS system proxy to
it on request. This directory holds TLA+ models of its parts, the TLC runs that
check them on small instances, and TLAPS proofs of what holds for every size.

    tlc -workers 2 -config server_overlap.cfg MCProxyServer
    tlapm AppProofs.tla

`PROJECT.json` lists the runs, the source lines of every definition, the mutant
that shows each property can fail, the hazards and the theorems.

## The system

| Component | State | Operations | Talks to |
|---|---|---|---|
| scheduler (`scheduler.go`) | entries with user weight and score, mode, health per adapter; one mutex | NextExcluding, SetEntries, SetMode, RecordDialFailure/Success | reads the registry in the middle of a pick |
| dialer (`dialer.go`) | none but the locals of each call | DialContext (failover), DialBoundOn, the tracked connection | scheduler, registry, rules |
| registry (`stats.go`) | per adapter: active, errors, bytes, last sample, EMA rate; one mutex for the map, one per counters, atomics for the rest | ConnOpen/Close, AddError, AddBytes, Sample, All, Reset | called by the dialer and its connections, sampled by every status |
| proxy server (`server.go`) | status, two listeners, wait group | Start, Stop, the accept loops | called by the controller; handlers call the dialer |
| handlers (`http.go`, `socks5.go`) | locals | CONNECT, plain HTTP, SOCKS5, relaying | dialer |
| controller (`app.go`) | addresses, adapters with the user's choices; a mutex that Status holds over calls and Start/Stop do not | StartProxy, StopProxy, SetListenAddrs, RefreshAdapters, UpdateAdapters, Status, Shutdown | server, system proxy, scheduler, registry |
| system proxy (`sysproxy_darwin.go`) | enabled, services, backup; a mutex held through the commands | Enable, Disable | `networksetup` |
| downloader (`multirange.go`) | jobs with status, progress, parts; a mutex per job | Start, Cancel, and the goroutines of a job | dialer (DialBoundOn), scheduler entries |
| rules (`rules.go`) | exact names and suffixes | SetRules, Match, List | asked by the dialer, edited from the console |
| API (`api.go`) | none | every request is a goroutine of `net/http` and ends with the status | controller |
| launcher (`main.go`) | none | start, shutdown on a signal, exit | controller |
| console, diagnostics, discovery | none worth modelling | | controller |

What is hard about it:

- *Concurrency without a common lock.* Every API request is a goroutine; `App.mu`
  is released before Start, Stop, Enable and Disable run, `Server.mu` before
  listeners are opened or closed. Start and Stop may overlap in any way.
- *Locks over locks.* Status holds `App.mu` over the mutexes of scheduler,
  registry and system proxy, a pick holds the scheduler's over the registry's.
- *Snapshots applied late.* A refresh lists the interfaces before it takes
  `App.mu`; a stream looks its counters up before it adds to them, while Reset
  replaces them.
- *State read at several times.* One pick reads clock and registry anew for each
  entry of each of its loops; a dial reads the number of adapters once and the
  selection at each try; StartProxy reads the addresses long before it uses them.
- *Failure.* Dials fail and move on; the second listener is refused; a
  `networksetup` command fails half-way; one of many parts of a download breaks;
  the process ends with the system proxy on.
- *Arithmetic.* Scores that must add up, weights with a factor and bounds,
  counters that Reset drives below zero, ranges that must tile a file.
- *Long sequences.* Demotions and changes of mode leave scores behind that no
  short test builds up.

The repository's tests (`scheduler_test.go`, `dialer_test.go`,
`multirange_test.go`, `rules_test.go`) are sequential, and there are none for the
registry, the server, the system proxy and the controller.

## The modules

An arrow reads "is extended by".

    Loops -> Scheduler -> Dialer -> MCDialer
                          Dialer -> DialerProofs   (with SchedulerProofs)
                          Dialer: INSTANCE Failover (abstract)
             Scheduler -> MCScheduler, SchedulerProofs
             Scheduler -> Selection -> MCConsole
    Selection, Statistics, Locks, Rules -> ConsoleProofs
    Rules -> MCRules -> MCConsole
    Statistics, Locks -> MCConsole
    Loops -> LoopTheorems -> SchedulerProofs, DownloadProofs, ConsoleProofs
    Loops -> Download -> MCDownload, DownloadProofs
             Download: INSTANCE Job (abstract)
    Relay -> RelayProofs
    ProxyServer -> App -> MCApp, AppProofs         (with ProxyServerProofs)
                   App: INSTANCE Switch (abstract)
    ProxyServer -> MCProxyServer, ProxyServerProofs

**Loops** gives Go's accumulating `for` loops as recursive functions,
**LoopTheorems** what holds of them for any number of turns.

**Scheduler** is `scheduler.go`. `entries` and `current` are the entry list and
its `current` fields; `health[a]` is the record of consecutive failures with
the demotion as a countdown of ticks; `stats` is what the registry answers.
`NextExcluding` runs under one mutex but reads the clock and the registry again
for each entry of each loop, so with the lock held every turn of a loop is a step:
`StartPick`; the first loop, which skips what is hard-demoted (`SkipEntry`) and
adds to the rest its weight (`WeighEntry`); if that has left no candidate, the second
loop, which weighs all of them (`WeighEntry` at stage "again"); the search for the
best one with the least-connections tie-break (`ScanEntry`); the sum of the weights
(`PayEntry`), whose last turn makes the winner pay (`Settle`). `pick` holds the
locals, and is also the mutex. `Tick` and `Observe` may come between any two steps.
What one turn reads is one look: its two or three calls of `time.Now` (whether to
skip, what to weigh) see one time, its calls of the registry one state. Weights are
exact: the code's floating-point factor is a fraction, and
rates are whole KB/s.

**Dialer** extends it with the callers of `DialContext` and `DialBoundOn`, each
with a program counter. Calls into the scheduler take its mutex (the scheduler's
own actions), calls into the registry are steps of their own, the dial takes
place outside all locks. What a bypassed host is, is an input.

**Selection** is the other user of the scheduler: the adapters and choices of
`app.go`. A refresh is two steps (`ListAdapters`, which holds no lock, and
`Refresh`), an update one; both leave `App.mu` held (`rebuilding`) until `Rebuild`
has given the scheduler its entries. `wish` records what the user said last, which
is what the entries are compared with.

**Statistics** is the byte counters of `stats.go` and their sampling. A stream
finds its counters (`byID`, an index into `made`) and adds to them in two steps,
with Reset in between at will; a sampling reads the two counters one after the
other, outside `counters.mu`, then takes the difference modulo 2^64 (`Wrap`).
`Status` samples twice (by Sample and by All) with `App.mu` held.

**Locks** is who asks for which mutex while holding which: each kind of request and
goroutine is the sequence of its Lock and Unlock calls, built the way the
functions call each other (`ShowStatus`, `StartProxy`...). A Stop also waits for the
accept loops (`Wait`, `server.go:143`). When these end is a matter of ProxyServer:
here a wait may end at any time (`Wake`) or never, as a Start that overlaps the Stop
adds its own loops to the wait group, and then the Stop waits as long as the new
server runs.

**Rules** is `rules.go` over labels instead of characters: SetRules, Match (which
cuts the host at its first colon) and List.

**Failover** is the abstract promise of `DialContext`: no adapter twice, a
connection only after a try, an error only when as many adapters have been tried
as were selected at the beginning or all that are selected now, and every dial
ends. `Dialer!FailsOver` is that specification under the mapping at the end of
`Dialer`.

**ProxyServer** is `server.go`: `Start` and `Stop` are cut where `s.mu` is taken
or released and at every system call. Listeners are identities with an address;
`loops` are the accept loops, `wg` the counter of the wait group, `mine` the
local variables of each caller. `Configure` is `App.StartProxy` writing the
addresses without `s.mu`. A waiter that wakes up to find the wait group in use
again panics in Go; `net/http` recovers that, so in the model the call just ends
(`Wake`). An accept loop returns at *any* error of Accept, also on an open
listener (`AcceptFails`). The process may end at any step and be started again
(`Restart`): its listeners are closed by the kernel.

**Relay** is one connection of `http.go` or `socks5.go`: the handler (`pc`), a
copier for each direction, and the two peers, which send, finish, close or reset at
any time. Bytes are numbered, so that what was lost, doubled or moved shows. `buf`
is the `bufio.Reader` of the HTTP proxy, which may take along what came behind the
request. The handler's deferred Closes are two steps, with the copier that
`handleHTTP` did not wait for still running. The dial is an outcome; the dialer's
counts of the connection are in Dialer.

**App** extends ProxyServer with `app.go` and `sysproxy_darwin.go`. Each caller is a
request: `StartProxy` is snapshot (`StartProxy`), `Proxy.Start` (`CallStart`,
then the server's steps in `StartingServer`), `Enable`; `StopProxy` is `Disable`,
then `Proxy.Stop` (`CallStop`, `StoppingServer`). `Enable` and `Disable` hold the
manager's mutex throughout, so each is one action over all services, with any
set of them failing on the way. A service has three proxies (web, secure web, SOCKS),
which the code treats alike; one stands for all. Its setting is whether it is on and
what server it has (the user's, LinkPool at some addresses, or none), or `Partly`
when a command has failed on the way. `Sent` and `Restored` are what `applyService`
and `restoreService` make of it: the second one switches the proxy off, sets the
saved server unless there was none (LinkPool's then stays), and switches the proxy on
if it was on. `networksetup -setwebproxy` also switches the proxy on according to its
manual; whether it does is the parameter `SetTurnsOn`. Shutdown (on SIGINT or SIGTERM)
is a StopProxy after which the program exits. `ProcessEnds` is a crash, or the second
signal, at any step of any request: a command under way, with those before it, may
have been carried out; the next process knows nothing of it. The services that
are then not the user's are `left`, and so are those that a Disable has left with
LinkPool's server where another Enable and Disable would switch it on.

**Download** is one job of `multirange.go`: the goroutine of the job (`pc`), one
goroutine for each part (`parts[i].at`), a Cancel at any time. The byte of the
resource at offset x is x, so `file` shows every byte that went to the wrong
place. What a Read has brought is written (`ReadPart`, `ReadSingle`) and then, in a step
of its own under the job's lock, reported (`Report`, `ReportSingle`), so that other
parts, a Cancel or a reader of the progress come in between. A write that fails may
have written a part. A body may break off after any Read. Jobs share nothing but the dialer
and the scheduler's entries.

**Job** is the abstract promise of a download: bytes arrive once each and in any
order, the progress shown only grows and is never ahead of their number, done means all of them (of a job whose
size is known), canceled means that somebody cancelled, an end is final, and what
is queued begins and ends. `Download!ActsAsJob` is that specification under the
mapping at the end of `Download`: what is fetched is the set of bytes that are in
their place (`Got`), and all the steps of parts, requests and joins are unseen but
for the writes (`Fetch`) and their reports (`Report`).

**Switch** is the abstract promise of the controller to a user who makes one request
at a time: the proxy opens both its ports and then runs; services are sent to it,
to the addresses on show, only while it runs; it closes ports only when they have
got back what they had, as far as that is given back; the program ends with nothing open. What a service would get
back (`own`) changes by a command that fails on it, by a crash, and at `Send` to what
`Back` says: a service without a server of its own keeps the proxy's, and a server may
come back switched on.
`App!SerialActsAsSwitch` is that specification under the mapping at the end of `App`
(`Own` is what Disable would make of a listed service and the setting of any other one), for
behaviours in which requests do not overlap (`Serial`).

## The runs

A run has at most 1.4 million distinct states.

| Run | Instance | What it shows |
|---|---|---|
| `console` | what is behind the web console, part by part: picks from 2 selections of 3 adapters (weights 1, 3 and 0, taken as 1; or 2 and 1) with every exclude set, connection counts that move between the looks of a pick; 2 refreshes and updates that overlap; 2 streams, 2 pollers and Resets; 2 requests and a goroutine over the mutexes, with Stops that wait for the accept loops; any set of rules | `ZeroSum`, `ShareLag` (no adapter drifts from its share), `PickNearMax` (what the tie-break may override); `EntriesAsChosen`; `RateWithinTraffic`, `CountedOnce`; `NoDeadlock`, `RequestsEnd`; `BypassOfNames`, `RoundTrip` |
| `bypass_rules` | violation | see Findings |
| `scheduler_adaptive` | 2 adapters, adaptive, both of which may fail up to a hard demotion; a fast idle and a slow busy reading in every combination; clock and readings move between any two steps of a pick | `WeightBounds`, `FasterNotLighter`, `PickHonoursDemotion`, `NoStarvation` |
| `dialer_failover` | 2 dials, both adapters may fail, the selection changes between 2 and 1; a 3 s demotion is one tick, an 8 s one two | the dials implement `Failover`, with its liveness; `SumNeverPositive` |
| `dialer_accounts` | one dial, one part, a Reset, failing dials | counters and health agree with the program counters |
| `relay` | the three handlers, patient and eager clients, 2 bytes each way | streams arrive in order and answers whole, handlers end and leave no goroutine |
| `server_overlap` | 2 callers, 3 pairs of addresses (one of them equal), refusals, 4 listeners, 1 failed accept loop | what holds in every overlap, and `SerialStop` |
| `server_stopped` | violation | see Findings |
| `download` | 3 bytes, 1, 2, 3, 4 or 5 parts, reads of 1 or 2 bytes, with and without size and ranges, writes that fail half-way | file, progress, final status; the job implements `Job`, with its liveness |
| `download_whole` | violation | see Findings |
| `app_requests` | 2 requests at once, 2 pairs of addresses, one service that may fail and has any of three settings (no server, a server that is off, one that is on), `-setwebproxy` switching proxies on, a process that may end at any step | the backup is never lost while the process lives; requests one at a time, Shutdown included, leave everything consistent |
| `app_restores` | violation | see Findings |

Why the bounds are enough.

- *Console.* Its parts share mutexes but no data, and `Locks` has the mutexes of
  all of them: a behaviour of several parts is an interleaving of one of each, so
  exploring them one at a time loses nothing, and the run is the sum of their
  state spaces instead of the product. Two streams let one act between the look-up
  and the addition of the other, two pollers contend for `App.mu`, and `MaxMade` of 2
  lets counters be replaced under both. The rule texts are all sets of eight lines, at
  least one of each kind, with hosts that tell the kinds apart.
- *Scheduler.* Two adapters that both fail are what it takes for one demotion to end
  while the other lasts, in the first loop, the second or between them. `MaxCurrent` only forbids a pick to *start* with a score out of
  range. In `console` scores stay below it by themselves (`ShareLag` shows that: for
  three adapters and weights up to 3 its bound is 8, `MaxCurrent` is 40). With
  demotions scores may sink without limit (see Findings); the dialer's runs cut
  them off, and in `scheduler_adaptive`
  `NoStarvation` is stated for the runs in which the bound never stops a pick. A
  weight of 0, an adapter that is down, a hard demotion (third failure), a soft one
  (second) and their ends all occur.
- *Dialer.* Two callers are what it takes for one to act inside another's
  windows; `MaxErrors` lets one dial fail on both adapters and be followed by
  another. The readings in `AnyReading` are those the bounded callers can bring
  about. A bypassed dial and every end of a dial occur.
- *Server and App.* Two callers are all the code's steps can set against each
  other in pairs: each shared variable is read and written in one critical
  section at a time; the proofs remove this bound. Four listeners let two Starts
  hold both of theirs. `app_requests` has two: there no Start is refused and no
  accept loop fails, which `server_overlap` covers.
- *Relay.* Two bytes let one wait in the buffer, in the socket or in a copier while
  the other is elsewhere.
- *Download.* One part is the single stream. Three parts of three bytes interleave
  their writes and reports; four and five (no
  adapter gives 2, two give 4, a request for 9 is cut to `MaxParts`, which stands for
  32) are more parts than bytes, whose jobs must fail and end; with two parts the last
  one takes the rest, a byte more than the first. `DownloadIsWhole` has every other size.

Deadlock is checked in every run.

## Fairness

- `Scheduler!FairSpec`: picks go on (clients keep connecting, and a holder of the
  mutex runs). Nothing is assumed about the settings, the clock, or the registry;
  `NoStarvation` has as a premise that settings and readings come to rest.
- `Dialer!FairDialerSpec`: weak fairness of a caller's own steps (dials end by the
  15 s timeout of the dialer, `dialer.go:30`), strong fairness of those that take the scheduler's
  mutex: a Go mutex in starvation mode hands itself to the longest waiter.
- `ProxyServer!FairSpec`: a call in progress goes on, and Accept on a closed
  listener returns. No request is assumed to come. It speaks of one process, as the
  next one begins like the first.
- `LocksFair`: strong fairness of every actor. A Go mutex hands itself to the longest
  waiter once that has waited a millisecond, and what is done under a mutex ends,
  the commands of the system proxy too. The wait of a Stop is not assumed to end:
  `RequestsEnd` says that every request ends or is a Stop at that wait, which keeps no
  other request from ending. When the wait does end is `SerialStop`'s: it speaks of
  Stops that no other call overlaps.
- `Relay!FairSpec`: the handler and the copiers run; requests and dials end by their
  deadlines. Peers read what they get: once the deadlines are lifted nothing would
  end a write that blocks. Nothing is assumed about what they send or when they leave.
- `Download!FairSpec`: goroutines run, and a request or a Read ends, by the 60 s
  timeout of the client if need be (`clientFor`).

## Proofs

`ProxyServerProofs` proves for any number of callers, listeners and addresses,
refusals and failing accept loops:

- `TypeCorrect` (`TypeOK`; in particular the wait group never goes negative,
  which would panic),
- `RunningTrue` (`RunningIsListening`), `WaitGroupExact` (`WaitGroupCounts`),
  `NoListenerForgotten` (`OpenIsServed`).

None of these is inductive. The invariant `Inv` adds who owns what: what a caller
in the middle of Start holds (`HalfOpen`, `Opened`, `ToServe`), that the server's
fields are none or two open listeners (`Known`), that a listener has at most one
closer, a caller or whoever stops the server next (`OneCloser`), that no listener
gets two accept loops (`OneLoop`), and that every open listener is served, failed,
or held by a caller that will serve it (`Accounted`). `OneCloser` is why a Stop
cannot close the listeners of a Start it overlaps; `OneLoop` is why the counter is
exact. There is one lemma per action; `QuietInv`, `FreshInv` and `StutterInv` carry
what several share.

`StopIsThorough` is the safety half of `SerialStop`: while calls do not overlap,
`StoppedIsClosed` and `StopWaits` hold. `SerialInv` says what the one call in progress
finds at each of its steps (`Phase`) and that whatever is open is the server's or
that call's (`Owned`). That at most one call is in progress speaks of a cardinality;
`BusyFinite` and `AtMostOne` turn that into "no two are" (`Alone`).

`SchedulerProofs` proves for any adapters, entry lists, user weights, exclude
sets and readings:

- `TypeCorrect` (`TypeOK`; in particular a pick that weighed candidates chooses one
  of them) and `Bounded` (`WeightBounds`, with the arithmetic of the adaptive factor
  in `Rounding` and `AdaptiveBounds`);
- `NeverPositive` (`SumNeverPositive`), if no reading reaches the cold rate of
  2 KB/s (`ColdReadings`), so that weights change by demotion alone;
- `Exact` (`ZeroSum`), if besides no dial fails;
- `NoDrift` (`ShareLag`), under the same two premises: the scores stay within a bound
  of the number of entries and the largest weight, however long the clients go on;
- `LastResort` (`PickHonoursDemotion`), from the invariant `Resorted`: if a pick has
  weighed an adapter that is still hard-demoted, it has skipped everything it was free
  to choose, each adapter because it was hard-demoted when the first loop looked at it.
  Not more: a demotion can end between two looks, and then the second loop weighs a
  healthy adapter beside a hard-demoted one whose higher score may win;
- `NearMax` (`PickNearMax`), for readings and clocks that move as they like. The
  tie-break compares a candidate with the best so far, not with the highest score,
  so one entry may displace another that displaced a third. `Near` is the loop's
  invariant: the best of the entries passed is below each of them by at most one
  widest window (`WidestWindow`) for every one but itself
  (`ScanKeepsNear`, `OneMore`);
- `FasterFirst` (`FasterNotLighter`), if every reading is `Loadable`: no active
  counter is below -12. `AdaptiveGrows` and `RoundingGrows` show that the factor, its
  bounds and the rounding are monotone. The premise is needed (see Findings).

The sums need an invariant that ties the pick in progress to the entries. For
`NeverPositive` it is `SumInv`: what the pick gave an entry is at most what it
weighs now and what it was summed up with (`GivenAtMost`), as time can only end a
demotion in between.
For `Exact` it is `ExactInv`: nobody is demoted, and every entry that is not
excluded was given, and is summed up with, its user weight (`GivenAll`). `LoopTheorems` carries the step
from one entry to the list: `Induction` gets induction for a set, not a predicate,
from the least element of its complement, `LoopInvariant` is the invariant rule of
a loop, `SumAdds`, `SumGrows`, `SumSame`, `SumOfOne` are instances for sums, and
`LoopCollects` for loops that append what passes a test.

`NoDrift` cannot be had from one score at a time: a pick gives to many and takes from
one, who need not have the highest score. The invariant speaks of every set of k
of the n entries (`Leveled`): twice the sum of their scores is at most k (n - k) times
twice the largest weight plus what the tie-break may override (`Override`). A pick
whose winner is in the set adds nothing to its sum (`WithWinner`). One whose winner is
outside adds the weights of the m candidates in it; but each of these is at most
`Override` above the winner, so the bounds of two other sets, the one with the winner
added and the one without these candidates, give the bound on average (`Averaging`,
as k (n - k) is a `Parabola`). With k = 1 and, as all scores add up to zero, k = n - 1,
this bounds each score from above and below (`BalancedLag`).

`DialerProofs` proves for any finite number of callers, any exclude sets and a
registry that counts without limit (`Unbounded`):

- `DialsSchedule`: `DialerSpec => Spec`, every step of a caller is one the scheduler
  allows, so that its theorems hold of the dialer (`DialerLastResort`,
  `DialerNeverPositive`); and `DialerTypeCorrect` (`DialerTypeOK`);
- `ActiveIsExact` (`ActiveUntilReset`), `ActiveNeverTooHigh` (`ActiveAtMostOpen`) and
  `FailuresAreCounted` (`ErrorsCoverFails`). The invariant `Accounts` has per adapter
  the connections that are open and the failures that are on their way from
  registry to scheduler; a step moves one caller between two places (`CountsMove`),
  and most steps neither from nor to one of these two (`QuietAccounts`);
- `DialsFailOver`: `DialerSpec => FailsOverSafely`, the dialer implements the initial
  states and steps of `Failover`, under the mapping at the end of `Dialer`, if the
  selection never names an adapter twice (`OneEntryEach`; entries are adapters of the
  system, which has one of each name). A step of a caller is Begin, Try, Connect,
  GiveUp, Finish or a stutter, a change of the selection is Reselect. The invariant
  `FailoverInv` ties the pick in progress to its caller: the pick excludes exactly what
  that caller has tried (`PicksInv`), hence what it chooses is new; and a caller never
  exceeds its number of tries (`TriesInv`), which is the number of adapters because
  the entries are a bijection with them (`SelectedCount`). The liveness of
  `Failover` stays with `FailsOver` in TLC.

`DownloadProofs` proves for any size, number of parts and length of reads

- `JobType` (`TypeOK`): each part keeps the piece of the file that `Split` gave it,
  and has never got more than its body has (`InFlight`);
- `DownloadIsWhole` (`DoneIsWhole`), if the server answers a range request with
  that range, and to a single request with an announced length once the probe has told
  the size. `ChunksTile` is the arithmetic: the pieces cover 0..Size-1 although
  the size is no multiple of their number. `WholeInv` is the invariant: no byte is
  out of its place (`Placed`), what a part has got is in the file, and a part that
  ended well has got all of its piece (`Stored`).

- `ProgressIsTrue` (`ProgressIsOnDisk`), under the same premises: the progress is never
  ahead of the bytes on disk, and behind them by at most one Read for each part whose
  report is on its way or that has failed. `Counted` says that the counter is the sum of
  what the parts have reported (`Progress`), that the bytes on disk are as many as the
  parts have got, and that each is one that some part has got: as pieces are
  disjoint (`ChunksApart`), what a Read brings was not on disk before; `Lagging` is
  what a part may have got and not reported;
- `EndIsFinal` (the action property `FinishedIsFinal`), from `Over`: a job that
  has finished is past its last step. No premise on the server;
- `DownloadActsAsJob`: `Spec => ActsAsJobSafely`, a download implements the initial
  states and steps of `Job`, under the same premises. A write is a
  `Fetch`, since `Counted` makes what it brings new, and a report is a `Report`, which
  `Counted` keeps from running ahead; the job's own end is one of the
  three ends, and its premises are what `Told` adds (which way the goroutine goes
  after the join agrees with the cancellation) and `DoneIsWhole`; all else is
  unseen (`HiddenStep`). The liveness of `Job` stays with `ActsAsJob` in TLC.

`RelayProofs` proves for any lengths of both streams (`MaxUp`, `MaxDown`), all three
handlers and peers that leave at any time

- `RelayType` (`RelayTypeOK`). The invariant `TypeInv` counts all that is on its way
  from a peer (`Line`): what the other one got, what the copier holds, what waits in
  the buffer and in the socket is no more than was sent;
- `InOrder` (`Intact`). `FlowInv` says that these four places, one behind the other,
  hold consecutive numbers (`Flows`, `Queued`), as long as the copier is alive and the
  receiver has not broken the connection; what has been received stays in order
  (`IsRun`) even when the rest is lost. The client of a CONNECT that does not wait is
  excepted, as the code drops its buffer (`Dropped`);
- `AnswerIsWhole` (`WholeAnswer`). `AnswerInv` says what the handler's wait is for: a
  handler closes nothing before the remote's copier has ended, which leaves nothing
  behind for a client that still reads (`Settled`).

`ConsoleProofs` proves of the parts behind the web console, each under its own
specification:

- *Selection*, for any adapters, lists of the system, updates and overlapping requests:
  `ChoicesKept` (`EntriesAsChosen`). The invariant `SelectionInv` says that the console's
  record of an adapter is what the user last said of it (`AdaptersHeld`), and that
  the choice for one that is not listed is the default again (`Forgotten`);
  the loop of `Rebuild` collects the usable ones (`LoopCollects`).
- *Statistics*, for any finite set of streams, and any pollers, bytes and Resets:
  `RatesBounded` (`RateWithinTraffic`), by `RateInv`: `App.mu` lets one sampling run at a
  time (`OnePoll`), and what it has read so far is between the last total and the bytes
  moved (`Measured`), so that the difference never goes below zero and the EMA stays
  below the bytes (`SmoothBound`); and `BytesCountedOnce` (`CountedOnce`), by the number
  of streams that are on their way to the counters in use.
- *Locks*, for any requests and goroutines: `NeverDeadlocked` (`NoDeadlock`). Every
  program takes the mutexes in the order of their ranks (app; system, server or
  scheduler; registry; counters) and gives each back: `ProgramsDisciplined` shows it,
  by `Then` and `Within` for the two ways programs are put together. `LocksInv` ties what
  an actor holds to what its program has still to give back. So whoever holds the
  highest mutex that is held at all can go on.
- *Rules*, for any labels and lines: `RulesRoundTrip` (`RoundTrip`), as a suffix shown
  with its dot is read back as that suffix (`Dotted`), and `NamesBypassed`
  (`BypassOfNames`). The invariant is that the matcher holds what the lines given
  last say (`RulesInv`).

`AppProofs` proves for any number of requests, addresses and services

- `ActsOnServer`: `AppSpec => Spec`, the application implements the server's
  specification, so the theorems above hold under it (`RunningTrueOfApp`);
- `AppTypeCorrect` and `AlwaysUndoable` (`CanBeUndone`). The invariant adds that a
  request in its first phases knows addresses (`Asking`), that the list of
  services is empty while the system proxy is off, and that a service on it is sent to
  LinkPool and has a backup (`Listed`): hence Enable finds
  no service that is already sent to LinkPool, and never takes LinkPool's settings
  for the user's, except on services `left` behind by a process that ended or by a
  Disable that did not give them back;
- `SerialAgrees` (`SerialSysProxy`). While requests do not overlap, `SerialInv` holds of
  the server, and `Agree` of all three: what runs or is about to is bound to
  the addresses on show, these cannot change while it is so, the listed services
  are sent to them, and the system proxy is on only while the server runs. Each step
  of a request finds that as the one before has left it (`Agreement`); between two
  calls of the server this is at rest (`RestBetween`);
- `OwnSettingsStay` (the action property `GivesBack`), in every overlap: what Disable
  would give back to a service changes only by a command that fails on it, by the end
  of the process, or where `restoreService` is not exact: for a setting without a
  server, or a proxy that is off where setting its server switches it on (`Exact`).
  Then it becomes what `Restored` says of the old one. Enable takes into the backup what
  the service had, Disable puts that into the setting, so `Own` stays while both
  change;
- `AppIsSwitch` (`SerialActsAsSwitch`): while requests do not overlap the application
  implements `Switch`. From `Orderly` (the invariants above and `Serial`) each step is one
  of Switch or a stutter: the steps of Start open one port each, those of Stop close one
  each, and a request's own steps are unseen but for Enable and Disable. `OwnedByOne`
  and `NothingOpen` say which ports are open at each step of the one request.

The theorems rest on the modules' named assumptions: `ProxyServerAssumption` and
`AppAssumption` (None is neither a listener nor an address, there are finitely many
listeners, the user's server is not LinkPool, the user's settings before the first use
do not have LinkPool's server, a pair of addresses is a record of two; nothing is
assumed of `SetTurnsOn`), `SchedulerAssumption`, `DialerAssumption`,
`DownloadAssumption` and `RelayAssumption` (the inputs have their types, a soft demotion
is shorter than a hard one), `SelectionAssumption` (a list of the system names an
adapter once and is not empty; the scheduler's entries come from the console
alone, which is `Configs = {}`), `StatisticsAssumption` (finitely many streams),
`LocksAssumption` (nobody is no actor) and `RulesAssumption` (lines are names of one or
more labels, a comment is not read as a suffix, and a host that is no IPv6 literal
is asked for by its name, with a port in the last label or without). Theorems with
more premises say so: `Unbounded` and `OneEntryEach` of the dialer, `ColdReadings` and
`Loadable` of the readings, and two of the server of a download:
`Answers \subseteq {"partial"}`, without which `DoneIsWhole` is false (`download_whole`),
and `Announced \subseteq {TRUE}`: a server that has told the size to the probe announces
the length of a single answer. `downloadSingle` does not compare what it has written
with that size (`multirange.go:441`), so a body without a length that ends early would
be taken for the file.

Every invariant that a passing run checks is proved. Only model-checked is liveness,
which is out of the prover's reach: `NoStarvation`, `SerialStop` (its safety half is
`StopIsThorough`), `FailsOver` and `ActsAsJob` (their safety is `DialsFailOver` and
`DownloadActsAsJob`), `CancelInFlight`, `HandlerEnds`, `NoCopyLeft` and `RequestsEnd`. Only
proved are `GivesBack` and `SerialActsAsSwitch`: the formula `[]Serial => Promise!Safety`,
with an action property behind an implication, is none that TLC can evaluate. Both were
first model-checked on a variant of `MCApp` with two services, for both values of
`SetTurnsOn`, the second with `Serial` as an action constraint.

## Findings

1. `server_stopped`. A Start that overlaps a Stop: Stop's last write of the status
   hides a server that listens, and further Stops return at once
   (`server.go:68,124,144`). `SerialStop` shows that calls one at a time behave.
2. `download_whole`. A 200 answer to a range request is taken for the range
   (`multirange.go:463`). The file has the wrong bytes, and is too long where the last
   Read of the last part runs over its end.
3. `app_restores`. Disable does not give back a proxy that had no server: no host was
   saved, so `restoreService` sets none (`sysproxy_darwin.go:182`), and LinkPool's host and
   port stay, switched off. The trace is one StartProxy, its Enable, and a Disable; no
   command fails and the process lives. The next Enable backs that address up as the
   user's, and if `-setwebproxy` switches a proxy on, as its manual says, the next Disable
   leaves the service sent to a proxy that has stopped (`left` in `CanBeUndone`).
4. `bypass_rules`. Match cuts the host at its first colon, so the rule `::1`, with
   which the program starts, matches nothing (`rules.go:56`). `BypassOfNames` shows
   that names and IPv4 addresses are matched as written.

Met while modelling, kept as premises of properties: `NextExcluding` subtracts
also the weights of the hard-demoted adapters it skipped (`scheduler.go:281`), so
that during a demotion the healthy adapters sink and the one that comes back is
preferred until they have caught up (`SumNeverPositive` instead of `ZeroSum`);
`handleConnect` drops what a client sends behind its CONNECT before the reply
(`eager` in `Intact`); the end of a client's stream never reaches the remote, as
the tracked connection has no CloseWrite (`HandlerEnds`); after `Reset` the active
counter is no longer the number of open connections and may be negative
(`ActiveUntilReset`, `ActiveAtMostOpen`); a SetListenAddrs between the steps of a
StartProxy, or overlapping requests, leave the system proxy out of step with the
server (`Serial` in `SerialSysProxy`); a Cancel before `run` begins is overwritten
(`multirange.go:205`), so `CancelInFlight` speaks of jobs whose parts are in
flight; a process that ends while the system proxy is on leaves it on for good, as
the backup is in memory (`left` in `CanBeUndone`); a service whose commands fail on the
way is skipped and never restored, nor is one whose restore fails
(`sysproxy_darwin.go:61`), which the code announces as best effort; a proxy that
had a server and was off is switched on by the restore if setting a server does that
(`Exact` in `GivesBack`); rates are sampled only when a
status is asked for, so without an open console adaptive weights stand still
(`Statistics` samples in `Status` alone); samplings would race without `App.mu`
around them (the mutant `StatusUnlocked` of `RateWithinTraffic`); every update or
refresh clears all scores, also one that changes nothing (`SetEntries`); and a
listing without any usable interface keeps the old entries, as the code takes it for
an error (`SelectionAssumption`); and the load factor of adaptive mode divides by
1 + 0.08 * active (`scheduler.go:162`), which is negative once Reset was called under
thirteen or more open connections of an adapter and these have closed: that adapter,
idle by its counter, then gets the smallest factor instead of the largest. Found by
the proof of `FasterFirst`, which needs `Loadable`; the readings of `scheduler_adaptive`
do not go that low. A single stream whose length nobody has told ends as done with
its progress back at 0 (`multirange.go:237`), which is why `Job` asks of such a job
nothing about its bytes.

## Not modelled

- The deadlines of a connection as such (a request may be refused at any time);
  write buffers that fill up; the counters nobody acts on (connections ever opened,
  picks).
- The API's parsing and encoding, the delivery of finished files, the list of jobs;
  how interfaces, their names and types are read from the system (`Lists` is any
  answer); diagnostics (one dial per adapter, no state); the console; logging. These
  are input and output without state of their own.
- The files a crash leaves half-written: nothing reads them again.
- Which wait-group panic Go raises: a waiter that wakes to a used counter ends its
  call. The panic of an Add that races with a waiter is not told apart from it.

## Plan

What remains, in order of importance:

1. `Download` refined to several jobs that share the dialer and the adapters: today
   what a job does to the scheduler's health is in `Dialer` (`BeginBoundOn`) alone.
2. `Relay` shown to implement two FIFO channels, from `FlowInv`.
3. Demotions with a cap on how far scores sink, should the code get one: `ShareLag`
   could then be stated with failing dials.
