------------------------- MODULE ProxyServerProofs -------------------------
(***************************************************************************)
(* Proofs about ProxyServer for any number of callers, addresses and       *)
(* listeners: in every interleaving of Start and Stop a status of          *)
(* "running" is true and the wait group counts the accept loops; calls one *)
(* at a time leave a stopped server closed.                                *)
(***************************************************************************)
EXTENDS ProxyServer, FiniteSetTheorems, TLAPS

Both(pair) == /\ pair.http \in Listeners /\ pair.socks \in Listeners
              /\ pair.http # pair.socks
Live(pair) == Both(pair) /\ IsOpen(pair.http) /\ IsOpen(pair.socks)

(* Who may still close the listeners it holds, and who has yet to serve    *)
(* them.                                                                   *)
Closer(c)  == pc[c] \in {"listenSOCKS", "publish", "closeHTTP", "closeSOCKS"}
Starter(c) == pc[c] \in {"listenSOCKS", "publish", "serve"}

HalfOpen == \A c \in Callers : pc[c] = "listenSOCKS" =>
                /\ mine[c].http \in Listeners /\ mine[c].socks = None /\ IsOpen(mine[c].http)
Opened   == \A c \in Callers : pc[c] = "publish" => Live(mine[c])
ToServe  == \A c \in Callers : pc[c] = "serve" => Both(mine[c])
Known    == fields = NoPair \/ Live(fields)
Running  == status = "running" => fields # NoPair

(* A listener has one closer: a caller, or whoever stops the server next.  *)
OneCloser ==
    \A c \in Callers : Closer(c) =>
        /\ Of(mine[c]) \cap Of(fields) = {}
        /\ \A d \in Callers : d # c /\ Closer(d) => Of(mine[c]) \cap Of(mine[d]) = {}

(* No listener gets two accept loops. *)
OneLoop ==
    \A c \in Callers : Starter(c) =>
        /\ Of(mine[c]) \cap loops = {}
        /\ \A d \in Callers : d # c /\ Starter(d) => Of(mine[c]) \cap Of(mine[d]) = {}

(* An open listener is served, or failed, or about to be served. *)
Accounted ==
    \A l \in Listeners : IsOpen(l) =>
        l \in loops \cup deserted \/ \E c \in Callers : Starter(c) /\ l \in Of(mine[c])

Inv == /\ TypeOK /\ HalfOpen /\ Opened /\ ToServe /\ Known /\ Running
       /\ OneCloser /\ OneLoop /\ Accounted /\ WaitGroupCounts

USE ProxyServerAssumption

(* Initially no caller is at work. *)
LEMMA InitInv == Init => Inv
<1>. SUFFICES ASSUME Init PROVE Inv
  OBVIOUS
<1>1. TypeOK
  BY DEF Init, TypeOK, Pair, NoPair
<1>2. HalfOpen /\ Opened /\ ToServe /\ Known /\ Running /\ OneCloser /\ OneLoop /\ Accounted
  BY DEF Init, HalfOpen, Opened, ToServe, Known, Running, OneCloser, OneLoop, Accounted, IsOpen, Closer, Starter
<1>3. WaitGroupCounts
  BY FS_EmptySet DEF Init, WaitGroupCounts
<1>. QED
  BY <1>1, <1>2, <1>3 DEF Inv

(* A caller that touches no listener and ends up neither holding one to     *)
(* close nor one to serve leaves the invariant alone.                      *)
LEMMA QuietInv ==
    ASSUME Inv, TypeOK', NEW c \in Callers,
           UNCHANGED <<fields, addr, loops, deserted, wg>>, status' = "running" => status = "running",
           ~Starter(c), ~Closer(c)', ~Starter(c)',
           \A d \in Callers : d # c => pc'[d] = pc[d] /\ mine'[d] = mine[d]
    PROVE  Inv'
<1>. USE DEF Inv
<1>1. HalfOpen' /\ Opened' /\ ToServe'
  BY DEF HalfOpen, Opened, ToServe, Starter, Live, IsOpen
<1>2. Known' /\ Running'
  BY DEF Known, Running, Live, IsOpen
<1>3. OneCloser'
  BY DEF OneCloser, Closer
<1>4. OneLoop'
  BY DEF OneLoop, Starter
<1>5. Accounted'
  BY DEF Accounted, Starter, IsOpen
<1>6. WaitGroupCounts'
  BY DEF WaitGroupCounts
<1>. QED
  BY <1>1, <1>2, <1>3, <1>4, <1>5, <1>6

LEMMA StartBeginsInv == ASSUME Inv, NEW c \in Callers, StartBegins(c) PROVE Inv'
<1>. USE DEF Inv, Goto, Hold, StartBegins
<1>1. TypeOK'
  BY DEF TypeOK
<1>2. /\ ~Starter(c) /\ ~Closer(c)' /\ ~Starter(c)'
      /\ \A d \in Callers : d # c => pc'[d] = pc[d] /\ mine'[d] = mine[d]
  BY DEF Closer, Starter
<1>. QED
  BY <1>1, <1>2, QuietInv

(* The listeners of a caller that gains a fresh one are nobody else's to   *)
(* close or to serve.                                                      *)
LEMMA FreshInv ==
    ASSUME Inv, NEW c \in Callers, UNCHANGED <<fields, loops>>,
           Of(mine'[c]) \cap (Of(fields) \cup loops) = {},
           \A d \in Callers : d # c =>
               /\ pc'[d] = pc[d] /\ mine'[d] = mine[d]
               /\ Closer(d) \/ Starter(d) => Of(mine'[c]) \cap Of(mine[d]) = {}
    PROVE  OneCloser' /\ OneLoop'
<1>1. OneCloser'
  <2>. SUFFICES ASSUME NEW d \in Callers, Closer(d)'
                PROVE  /\ Of(mine'[d]) \cap Of(fields') = {}
                       /\ \A e \in Callers : e # d /\ Closer(e)' => Of(mine'[d]) \cap Of(mine'[e]) = {}
    BY DEF OneCloser
  <2>1. CASE d = c
    BY <2>1 DEF Closer
  <2>2. CASE d # c
    BY <2>2 DEF Inv, OneCloser, Closer
  <2>. QED
    BY <2>1, <2>2
<1>2. OneLoop'
  <2>. SUFFICES ASSUME NEW d \in Callers, Starter(d)'
                PROVE  /\ Of(mine'[d]) \cap loops' = {}
                       /\ \A e \in Callers : e # d /\ Starter(e)' => Of(mine'[d]) \cap Of(mine'[e]) = {}
    BY DEF OneLoop
  <2>1. CASE d = c
    BY <2>1 DEF Starter
  <2>2. CASE d # c
    BY <2>2 DEF Inv, OneLoop, Starter
  <2>. QED
    BY <2>1, <2>2
<1>. QED
  BY <1>1, <1>2

(* The new listener is nobody else's.                                      *)
LEMMA ListenHTTPInv == ASSUME Inv, NEW c \in Callers, ListenHTTP(c) PROVE Inv'
<1>. USE DEF Inv, Goto, Hold, Close, ListenHTTP
<1>0. PICK l \in Listeners :
          /\ Fresh(l)
          /\ addr' = [addr EXCEPT ![l] = config.http]
          /\ mine' = [mine EXCEPT ![c] = [NoPair EXCEPT !.http = l]]
  OBVIOUS
<1>a. /\ \A d \in Callers : d # c => mine'[d] = mine[d] /\ l \notin Of(mine[d])
      /\ l \notin loops \cup Of(fields) \cup Of(mine[c]) /\ l # None
  BY <1>0 DEF Fresh
<1>b. mine'[c] = [NoPair EXCEPT !.http = l] /\ Of(mine'[c]) = {l}
  BY <1>0 DEF TypeOK, NoPair, Of
<1>d. /\ pc'[c] = "listenSOCKS" /\ \A d \in Callers : d # c => pc'[d] = pc[d]
      /\ Of(mine'[c]) = {l}
  BY <1>0, <1>b DEF TypeOK
<1>c. addr'[l] # None /\ \A m \in Listeners : m # l => addr'[m] = addr[m]
  BY <1>0 DEF TypeOK, Addrs
<1>1. TypeOK'
  BY DEF TypeOK, Pair, NoPair, Addrs
<1>2. HalfOpen'
  BY <1>0, <1>a, <1>b, <1>c DEF HalfOpen, IsOpen, NoPair
<1>3. Opened'
  BY DEF Fresh, Opened, Live, IsOpen
<1>4. ToServe'
  BY DEF ToServe
<1>5. Known'
  BY DEF Fresh, Known, Live, IsOpen
<1>6. Running'
  BY DEF Running
<1>7. OneCloser' /\ OneLoop'
  BY <1>a, <1>d, FreshInv
<1>8. Accounted'
  BY <1>a, <1>c, <1>d DEF Accounted, Starter, IsOpen
<1>9. WaitGroupCounts'
  BY DEF WaitGroupCounts
<1>. QED
  BY <1>1, <1>2, <1>3, <1>4, <1>5, <1>6, <1>7, <1>8, <1>9

LEMMA HTTPRefusedInv == ASSUME Inv, NEW c \in Callers, HTTPRefused(c) PROVE Inv'
<1>. USE DEF Inv, Goto, Hold, HTTPRefused
<1>1. TypeOK'
  BY DEF TypeOK
<1>2. /\ ~Starter(c) /\ ~Closer(c)' /\ ~Starter(c)'
      /\ \A d \in Callers : d # c => pc'[d] = pc[d] /\ mine'[d] = mine[d]
  BY DEF Closer, Starter
<1>. QED
  BY <1>1, <1>2, QuietInv

(* So is the second one, and it differs from the first.                    *)
LEMMA ListenSOCKSInv == ASSUME Inv, NEW c \in Callers, ListenSOCKS(c) PROVE Inv'
<1>. USE DEF Inv, Goto, Hold, Close, ListenSOCKS
<1>0. PICK l \in Listeners :
          /\ Fresh(l)
          /\ addr' = [addr EXCEPT ![l] = config.socks]
          /\ mine' = [mine EXCEPT ![c] = [mine[c] EXCEPT !.socks = l]]
  OBVIOUS
<1>a. /\ \A d \in Callers : d # c => mine'[d] = mine[d] /\ l \notin Of(mine[d])
      /\ l \notin loops \cup Of(fields) \cup Of(mine[c]) /\ l # None
  BY <1>0 DEF Fresh
<1>b. mine'[c] = [mine[c] EXCEPT !.socks = l] /\ Of(mine'[c]) = {mine[c].http, l}
  BY <1>0 DEF TypeOK, Pair, Of, HalfOpen
<1>d. /\ pc'[c] = "publish" /\ \A d \in Callers : d # c => pc'[d] = pc[d]
      /\ Of(mine'[c]) = Of(mine[c]) \cup {l}
  BY <1>0, <1>b DEF TypeOK, Of, HalfOpen
<1>c. addr'[l] # None /\ \A m \in Listeners : m # l => addr'[m] = addr[m]
  BY <1>0 DEF TypeOK, Addrs
<1>f. /\ Of(mine[c]) \cap Of(fields) = {}
      /\ \A d \in Callers : d # c /\ Closer(d) => Of(mine[c]) \cap Of(mine[d]) = {}
  BY DEF OneCloser, Closer
<1>g. /\ Of(mine[c]) \cap loops = {}
      /\ \A d \in Callers : d # c /\ Starter(d) => Of(mine[c]) \cap Of(mine[d]) = {}
  BY DEF OneLoop, Starter
<1>1. TypeOK'
  BY DEF TypeOK, Pair, Addrs
<1>2. HalfOpen'
  BY DEF TypeOK, Fresh, HalfOpen, IsOpen
<1>3. Opened'
  BY <1>0, <1>a, <1>b, <1>c DEF HalfOpen, Opened, Live, Both, TypeOK, Pair, IsOpen, Of
<1>4. ToServe'
  BY DEF ToServe
<1>5. Known'
  BY DEF Fresh, Known, Live, IsOpen
<1>6. Running'
  BY DEF Running
<1>7. OneCloser' /\ OneLoop'
  BY <1>a, <1>d, <1>f, <1>g, FreshInv
<1>8. Accounted'
  BY <1>a, <1>c, <1>d DEF Accounted, Starter, IsOpen
<1>9. WaitGroupCounts'
  BY DEF WaitGroupCounts
<1>. QED
  BY <1>1, <1>2, <1>3, <1>4, <1>5, <1>6, <1>7, <1>8, <1>9

(* Only the caller held the listener that is closed.                       *)
LEMMA SOCKSRefusedInv == ASSUME Inv, NEW c \in Callers, SOCKSRefused(c) PROVE Inv'
<1>. USE DEF Inv, Goto, Hold, Close, SOCKSRefused
<1>a. /\ mine[c].http \in Of(mine[c]) \cup {None}
      /\ \A m \in Listeners : m # mine[c].http => addr'[m] = addr[m]
  BY DEF Of
<1>b. \A d \in Callers : d # c /\ Closer(d) => Of(mine[c]) \cap Of(mine[d]) = {}
  BY DEF OneCloser, Closer
<1>1. TypeOK'
  BY DEF TypeOK, Pair, NoPair
<1>2. HalfOpen'
  BY <1>a, <1>b DEF HalfOpen, IsOpen, Closer, TypeOK, Pair
<1>3. Opened'
  BY <1>a, <1>b DEF Opened, Live, Both, IsOpen, Closer, Of
<1>4. ToServe'
  BY DEF ToServe
<1>5. Known'
  BY DEF Known, Live, IsOpen, OneCloser, Closer, Of
<1>6. Running'
  BY DEF Running
<1>7. OneCloser'
  BY DEF TypeOK, OneCloser, Closer
<1>8. OneLoop'
  BY DEF TypeOK, OneLoop, Starter
<1>9. Accounted'
  BY <1>a DEF Accounted, Starter, IsOpen, HalfOpen, Of, TypeOK
<1>10. WaitGroupCounts'
  BY DEF WaitGroupCounts
<1>. QED
  BY <1>1, <1>2, <1>3, <1>4, <1>5, <1>6, <1>7, <1>8, <1>9, <1>10

LEMMA FailInv == ASSUME Inv, NEW c \in Callers, Fail(c) PROVE Inv'
<1>. USE DEF Inv, Goto, Hold, Fail
<1>1. TypeOK'
  BY DEF TypeOK
<1>2. /\ ~Starter(c) /\ ~Closer(c)' /\ ~Starter(c)'
      /\ \A d \in Callers : d # c => pc'[d] = pc[d] /\ mine'[d] = mine[d]
  BY DEF Closer, Starter
<1>. QED
  BY <1>1, <1>2, QuietInv

(* The server now holds what the caller opened.                            *)
LEMMA PublishInv == ASSUME Inv, NEW c \in Callers, Publish(c) PROVE Inv'
<1>. USE DEF Inv, Goto, Hold, Close, Publish
<1>1. TypeOK'
  BY DEF TypeOK
<1>2. HalfOpen'
  BY DEF HalfOpen, IsOpen
<1>3. Opened'
  BY DEF Opened, Live, IsOpen
<1>4. ToServe'
  BY DEF Opened, ToServe, Live
<1>5. Known'
  BY DEF Known, Opened, Live, IsOpen
<1>6. Running'
  BY DEF Running, Opened, Live, Both, NoPair
<1>7. OneCloser'
  BY DEF TypeOK, OneCloser, Closer
<1>8. OneLoop'
  BY DEF OneLoop, Starter
<1>9. Accounted'
  BY DEF Accounted, Starter, IsOpen
<1>10. WaitGroupCounts'
  BY DEF WaitGroupCounts
<1>. QED
  BY <1>1, <1>2, <1>3, <1>4, <1>5, <1>6, <1>7, <1>8, <1>9, <1>10

(* Two listeners without a loop get one each.                              *)
LEMMA ServeInv == ASSUME Inv, NEW c \in Callers, Serve(c) PROVE Inv'
<1>. USE DEF Inv, Goto, Hold, Close, Serve
<1>0. IsFiniteSet(loops) /\ Cardinality(loops) = wg
  BY FS_Subset DEF TypeOK, WaitGroupCounts
<1>a. PICK h \in Listeners, s \in Listeners : h # s /\ h \notin loops /\ s \notin loops /\ Of(mine[c]) = {h, s}
  BY DEF ToServe, Both, OneLoop, Starter, Of
<1>b. loops' = (loops \cup {h}) \cup {s} /\ wg' = wg + 2
  BY <1>a
<1>c. IsFiniteSet(loops \cup {h}) /\ Cardinality(loops \cup {h}) = wg + 1
  BY <1>0, <1>a, FS_AddElement
<1>d. Cardinality(loops') = wg + 1 + 1
  BY <1>a, <1>b, <1>c, FS_AddElement
<1>1. TypeOK'
  BY <1>a, <1>b DEF TypeOK, Pair, NoPair
<1>2. HalfOpen'
  BY DEF HalfOpen, IsOpen
<1>3. Opened'
  BY DEF Opened, Live, IsOpen
<1>4. ToServe'
  BY DEF TypeOK, ToServe
<1>5. Known'
  BY DEF Known, Live, IsOpen
<1>6. Running'
  BY DEF Running
<1>7. OneCloser'
  BY DEF OneCloser, Closer
<1>8. OneLoop'
  BY DEF TypeOK, OneLoop, Starter
<1>9. Accounted'
  BY DEF Accounted, Starter, IsOpen
<1>10. WaitGroupCounts'
  BY <1>b, <1>d DEF WaitGroupCounts, TypeOK
<1>. QED
  BY <1>1, <1>2, <1>3, <1>4, <1>5, <1>6, <1>7, <1>8, <1>9, <1>10

(* A loop that ends was counted.                                           *)
LEMMA ReturnInv ==
    ASSUME Inv, NEW l \in Listeners, Return(l), deserted' \in SUBSET Listeners,
           loops \cup deserted \subseteq loops' \cup deserted' \cup {m \in Listeners : ~IsOpen(m)}
    PROVE  Inv'
<1>. USE DEF Inv, Return
<1>0. IsFiniteSet(loops) /\ Cardinality(loops) = wg
  BY FS_Subset DEF TypeOK, WaitGroupCounts
<1>a. IsFiniteSet(loops') /\ Cardinality(loops') = wg - 1 /\ wg' = wg - 1
  BY <1>0, FS_RemoveElement
<1>b. wg' \in Nat
  BY <1>a, FS_CardinalityType
<1>1. TypeOK'
  BY <1>b DEF TypeOK
<1>2. HalfOpen'
  BY DEF HalfOpen, IsOpen
<1>3. Opened'
  BY DEF Opened, Live, IsOpen
<1>4. ToServe'
  BY DEF ToServe
<1>5. Known'
  BY DEF Known, Live, IsOpen
<1>6. Running'
  BY DEF Running
<1>7. OneCloser'
  BY DEF OneCloser, Closer
<1>8. OneLoop'
  BY DEF OneLoop, Starter
<1>9. Accounted'
  BY DEF Accounted, Starter, IsOpen
<1>10. WaitGroupCounts'
  BY <1>a DEF WaitGroupCounts
<1>. QED
  BY <1>1, <1>2, <1>3, <1>4, <1>5, <1>6, <1>7, <1>8, <1>9, <1>10

(* The caller takes the listeners from the server.                         *)
LEMMA StopBeginsInv == ASSUME Inv, NEW c \in Callers, StopBegins(c) PROVE Inv'
<1>. USE DEF Inv, Goto, Hold, Close, StopBegins
<1>1. TypeOK'
  BY DEF TypeOK, Pair, NoPair
<1>2. HalfOpen'
  BY DEF HalfOpen, IsOpen
<1>3. Opened'
  BY DEF Opened, Live, IsOpen
<1>4. ToServe'
  BY DEF ToServe
<1>5. Known'
  BY DEF Known
<1>6. Running'
  BY DEF Running
<1>7. OneCloser'
  BY DEF TypeOK, OneCloser, Closer, Of, NoPair
<1>8. OneLoop'
  BY DEF OneLoop, Starter
<1>9. Accounted'
  BY DEF Accounted, Starter, IsOpen
<1>10. WaitGroupCounts'
  BY DEF WaitGroupCounts
<1>. QED
  BY <1>1, <1>2, <1>3, <1>4, <1>5, <1>6, <1>7, <1>8, <1>9, <1>10

(* Nobody else holds the listener that is closed.                          *)
LEMMA CloseHTTPInv == ASSUME Inv, NEW c \in Callers, CloseHTTP(c) PROVE Inv'
<1>. USE DEF Inv, Goto, Hold, Close, CloseHTTP
<1>a. /\ mine[c].http \in Of(mine[c]) \cup {None}
      /\ \A m \in Listeners : m # mine[c].http => addr'[m] = addr[m]
  BY DEF Of
<1>b. \A d \in Callers : d # c /\ Closer(d) => Of(mine[c]) \cap Of(mine[d]) = {}
  BY DEF OneCloser, Closer
<1>1. TypeOK'
  BY DEF TypeOK
<1>2. HalfOpen'
  BY <1>a, <1>b DEF HalfOpen, IsOpen, Closer, Of
<1>3. Opened'
  BY <1>a, <1>b DEF Opened, Live, Both, IsOpen, Closer, Of
<1>4. ToServe'
  BY DEF ToServe
<1>5. Known'
  BY DEF Known, Live, IsOpen, OneCloser, Closer, Of
<1>6. Running'
  BY DEF Running
<1>7. OneCloser'
  BY DEF OneCloser, Closer
<1>8. OneLoop'
  BY DEF OneLoop, Starter
<1>9. Accounted'
  BY <1>a DEF Accounted, Starter, IsOpen, TypeOK
<1>10. WaitGroupCounts'
  BY DEF WaitGroupCounts
<1>. QED
  BY <1>1, <1>2, <1>3, <1>4, <1>5, <1>6, <1>7, <1>8, <1>9, <1>10

(* Nor the second one.                                                     *)
LEMMA CloseSOCKSInv == ASSUME Inv, NEW c \in Callers, CloseSOCKS(c) PROVE Inv'
<1>. USE DEF Inv, Goto, Hold, Close, CloseSOCKS
<1>a. /\ mine[c].socks \in Of(mine[c]) \cup {None}
      /\ \A m \in Listeners : m # mine[c].socks => addr'[m] = addr[m]
  BY DEF Of
<1>b. \A d \in Callers : d # c /\ Closer(d) => Of(mine[c]) \cap Of(mine[d]) = {}
  BY DEF OneCloser, Closer
<1>1. TypeOK'
  BY DEF TypeOK
<1>2. HalfOpen'
  BY <1>a, <1>b DEF HalfOpen, IsOpen, Closer, Of
<1>3. Opened'
  BY <1>a, <1>b DEF Opened, Live, Both, IsOpen, Closer, Of
<1>4. ToServe'
  BY DEF ToServe
<1>5. Known'
  BY DEF Known, Live, IsOpen, OneCloser, Closer, Of
<1>6. Running'
  BY DEF Running
<1>7. OneCloser'
  BY DEF OneCloser, Closer
<1>8. OneLoop'
  BY DEF OneLoop, Starter
<1>9. Accounted'
  BY <1>a DEF Accounted, Starter, IsOpen, TypeOK
<1>10. WaitGroupCounts'
  BY DEF WaitGroupCounts
<1>. QED
  BY <1>1, <1>2, <1>3, <1>4, <1>5, <1>6, <1>7, <1>8, <1>9, <1>10

LEMMA WaitInv == ASSUME Inv, NEW c \in Callers, Wait(c) PROVE Inv'
<1>. USE DEF Inv, Goto, Hold, Wait
<1>1. TypeOK'
  BY DEF TypeOK
<1>2. /\ ~Starter(c) /\ ~Closer(c)' /\ ~Starter(c)'
      /\ \A d \in Callers : d # c => pc'[d] = pc[d] /\ mine'[d] = mine[d]
  BY DEF Closer, Starter
<1>. QED
  BY <1>1, <1>2, QuietInv

LEMMA WakeInv == ASSUME Inv, NEW c \in Callers, Wake(c) PROVE Inv'
<1>. USE DEF Inv, Goto, Hold, Wake
<1>1. TypeOK'
  BY DEF TypeOK, Pair, NoPair
<1>2. /\ ~Starter(c) /\ ~Closer(c)' /\ ~Starter(c)'
      /\ \A d \in Callers : d # c => pc'[d] = pc[d] /\ mine'[d] = mine[d]
  BY DEF Closer, Starter
<1>. QED
  BY <1>1, <1>2, QuietInv

LEMMA SetStoppedInv == ASSUME Inv, NEW c \in Callers, SetStopped(c) PROVE Inv'
<1>. USE DEF Inv, Goto, Hold, SetStopped
<1>1. TypeOK'
  BY DEF TypeOK, Pair, NoPair
<1>2. /\ ~Starter(c) /\ ~Closer(c)' /\ ~Starter(c)'
      /\ \A d \in Callers : d # c => pc'[d] = pc[d] /\ mine'[d] = mine[d]
  BY DEF Closer, Starter
<1>. QED
  BY <1>1, <1>2, QuietInv

(* Addresses are configured behind the server's back. *)
LEMMA StutterInv == ASSUME Inv, TypeOK', UNCHANGED <<status, fields, addr, loops, deserted, wg, pc, mine>>
                    PROVE  Inv'
  BY DEF Inv, HalfOpen, Opened, ToServe, Known, Running, OneCloser, OneLoop, Accounted, WaitGroupCounts,
         Closer, Starter, Live, Both, IsOpen, Of

LEMMA NextInv == Inv /\ [Next]_vars => Inv'
<1>. SUFFICES ASSUME Inv, [Next]_vars PROVE Inv'
  OBVIOUS
<1>1. ASSUME NEW c \in Callers, StartBegins(c) \/ StopBegins(c) PROVE Inv'
  BY <1>1, StartBeginsInv, StopBeginsInv
<1>2. ASSUME NEW c \in Callers, StartStep(c) PROVE Inv'
  BY <1>2, ListenHTTPInv, HTTPRefusedInv, ListenSOCKSInv, SOCKSRefusedInv, FailInv, PublishInv,
     ServeInv DEF StartStep
<1>3. ASSUME NEW c \in Callers, StopStep(c) PROVE Inv'
  BY <1>3, CloseHTTPInv, CloseSOCKSInv, WaitInv, WakeInv, SetStoppedInv DEF StopStep
<1>4. ASSUME NEW l \in Listeners, AcceptLoopEnds(l) \/ AcceptFails(l) PROVE Inv'
  BY <1>4, ReturnInv DEF Inv, TypeOK, Return, AcceptLoopEnds, AcceptFails
<1>5. ASSUME Configure PROVE Inv'
  <2>1. TypeOK'
    BY <1>5 DEF Inv, TypeOK, Configure
  <2>. QED
    BY <1>5, <2>1, StutterInv DEF Configure
<1>6. ASSUME Restart PROVE Inv'
  <2>1. Init'
    BY <1>6 DEF Restart, Init
  <2>. QED
    BY <2>1, InitInv, PTL
<1>7. ASSUME UNCHANGED vars PROVE Inv'
  <2>1. TypeOK'
    BY <1>7 DEF Inv, TypeOK, vars
  <2>. QED
    BY <1>7, <2>1, StutterInv DEF vars
<1>. QED
  BY <1>1, <1>2, <1>3, <1>4, <1>5, <1>6, <1>7 DEF Next, Life

LEMMA Invariance == Spec => []Inv
  BY InitInv, NextInv, PTL DEF Spec

(* Every reachable state is of the expected shape; in particular s.wg never *)
(* goes below zero, which would make sync.WaitGroup panic.                 *)
THEOREM TypeCorrect == Spec => []TypeOK
<1>1. Inv => TypeOK
  BY DEF Inv
<1>. QED
  BY <1>1, Invariance, PTL

(* A status of "running" is true, however calls of Start and Stop overlap  *)
(* and whatever addresses are refused: the server holds two open listeners. *)
THEOREM RunningTrue == Spec => []RunningIsListening
<1>1. Inv => RunningIsListening
  BY DEF Inv, Running, Known, Live, Both, RunningIsListening
<1>. QED
  BY <1>1, Invariance, PTL

(* s.wg counts the accept loops, so that Stop waits for as many as there   *)
(* are.                                                                    *)
THEOREM WaitGroupExact == Spec => []WaitGroupCounts
<1>1. Inv => WaitGroupCounts
  BY DEF Inv
<1>. QED
  BY <1>1, Invariance, PTL

(* At rest an open listener has its accept loop, unless Accept has failed   *)
(* on it: no interleaving leaves one open with nobody to accept.            *)
THEOREM NoListenerForgotten == Spec => []OpenIsServed
<1>1. Inv => OpenIsServed
  BY DEF Inv, Accounted, Starter, AtRest, OpenIsServed
<1>. QED
  BY <1>1, Invariance, PTL
-----------------------------------------------------------------------------
(* One call at a time                                                      *)

(* No two calls are in progress. *)
Alone == \A c, d \in Callers : pc[c] # "idle" /\ pc[d] # "idle" => c = d

(* What the one call in progress knows of the server, and the server at    *)
(* rest; whatever is open is the server's or that call's.                  *)
Starting(c) == pc[c] \in {"listenHTTP", "listenSOCKS", "publish", "failed"}
Shut(l)  == l # None => ~IsOpen(l)
Phase(c) ==
    /\ pc[c] \in {"idle", "listenHTTP", "failed"} => mine[c] = NoPair
    /\ Starting(c) => status = "starting" /\ fields = NoPair
    /\ pc[c] = "serve" => status = "running" /\ fields = mine[c]
    /\ Stopping(c) => status = "stopping" /\ fields = NoPair
    /\ Stopping(c) /\ pc[c] # "closeHTTP" => Shut(mine[c].http)
    /\ Stopping(c) /\ pc[c] \notin {"closeHTTP", "closeSOCKS"} => Shut(mine[c].socks)
    /\ pc[c] \in {"woken", "stopped"} => loops = {}
Resting == AtRest => status \in {"stopped", "running", "error"} /\ (status # "running" => fields = NoPair)
Owned   == \A l \in Listeners : IsOpen(l) => l \in Of(fields) \/ \E c \in Callers : l \in Of(mine[c])
SerialInv == Resting /\ Owned /\ \A c \in Callers : Phase(c)

LEMMA SerialInit == Init => SerialInv
  BY DEF Init, SerialInv, Resting, Owned, Phase, Starting, Stopping, IsOpen

(* What the call in progress does is nothing to the others, which are idle. *)
LEMMA CallSerial ==
    ASSUME Inv, TypeOK', Alone, Alone', SerialInv, NEW c \in Callers,
           pc[c] # "idle" \/ pc'[c] # "idle",
           \A d \in Callers : d # c => pc'[d] = pc[d] /\ mine'[d] = mine[d],
           Phase(c)', Owned',
           pc'[c] = "idle" => status' \in {"stopped", "running", "error"} /\ (status' # "running" => fields' = NoPair)
    PROVE  SerialInv'
<1>1. ASSUME NEW d \in Callers, d # c PROVE pc'[d] = "idle" /\ mine'[d] = NoPair
  <2>1. pc'[d] = "idle"
    BY <1>1 DEF Alone
  <2>. QED
    BY <1>1, <2>1 DEF SerialInv, Phase
<1>2. \A d \in Callers : Phase(d)'
  BY <1>1 DEF Phase, Starting, Stopping
<1>3. Resting'
  BY DEF Resting, AtRest
<1>. QED
  BY <1>2, <1>3 DEF SerialInv

LEMMA StartSerial ==
    ASSUME Inv, TypeOK', Alone, Alone', SerialInv, NEW c \in Callers,
           StartBegins(c) \/ StartStep(c)
    PROVE  SerialInv'
<1>. USE DEF Goto, Hold, Close
<1>0. TypeOK /\ Phase(c) /\ Owned /\ Resting
  BY DEF Inv, SerialInv
<1>1. CASE StartBegins(c)
  <2>1. AtRest
    BY <1>1 DEF StartBegins, Alone, AtRest, Inv, TypeOK
  <2>2. Phase(c)' /\ Owned' /\ pc'[c] = "listenHTTP"
    BY <1>0, <1>1, <2>1 DEF StartBegins, TypeOK, Phase, Starting, Stopping, Resting, Owned, IsOpen
  <2>. QED
    BY <1>1, <2>2, CallSerial DEF StartBegins, Inv, TypeOK
<1>2. CASE ListenHTTP(c)
  <2>1. Phase(c)' /\ pc'[c] = "listenSOCKS"
    BY <1>0, <1>2 DEF ListenHTTP, TypeOK, Phase, Starting, Stopping
  <2>2. Owned'
    BY <1>0, <1>2 DEF ListenHTTP, TypeOK, Phase, Owned, IsOpen, Of, NoPair, Pair, Fresh
  <2>. QED
    BY <1>2, <2>1, <2>2, CallSerial DEF ListenHTTP, Inv, TypeOK
<1>3. CASE HTTPRefused(c)
  <2>1. Phase(c)' /\ Owned' /\ pc'[c] = "failed"
    BY <1>0, <1>3 DEF HTTPRefused, TypeOK, Phase, Starting, Stopping, Owned, IsOpen
  <2>. QED
    BY <1>3, <2>1, CallSerial DEF HTTPRefused, Inv, TypeOK
<1>4. CASE ListenSOCKS(c)
  <2>1. Phase(c)' /\ pc'[c] = "publish"
    BY <1>0, <1>4 DEF ListenSOCKS, TypeOK, Phase, Starting, Stopping
  <2>2. Owned'
    BY <1>0, <1>4 DEF ListenSOCKS, TypeOK, Phase, Owned, IsOpen, Of, Pair, Fresh, Inv, HalfOpen
  <2>. QED
    BY <1>4, <2>1, <2>2, CallSerial DEF ListenSOCKS, Inv, TypeOK
<1>5. CASE SOCKSRefused(c)
  <2>1. Phase(c)' /\ pc'[c] = "failed"
    BY <1>0, <1>5 DEF SOCKSRefused, TypeOK, Phase, Starting, Stopping
  <2>2. Owned'
    BY <1>0, <1>5 DEF SOCKSRefused, TypeOK, Phase, Owned, IsOpen, Of, Pair, NoPair, Inv, HalfOpen
  <2>. QED
    BY <1>5, <2>1, <2>2, CallSerial DEF SOCKSRefused, Inv, TypeOK
<1>6. CASE Fail(c)
  <2>1. Phase(c)' /\ Owned' /\ pc'[c] = "idle" /\ status' = "error" /\ fields' = NoPair
    BY <1>0, <1>6 DEF Fail, TypeOK, Phase, Starting, Stopping, Owned, IsOpen
  <2>. QED
    BY <1>6, <2>1, CallSerial DEF Fail, Inv, TypeOK
<1>7. CASE Publish(c)
  <2>1. Phase(c)' /\ Owned' /\ pc'[c] = "serve"
    BY <1>0, <1>7 DEF Publish, TypeOK, Phase, Starting, Stopping, Owned, IsOpen, Of, NoPair
  <2>. QED
    BY <1>7, <2>1, CallSerial DEF Publish, Inv, TypeOK
<1>8. CASE Serve(c)
  <2>1. Phase(c)' /\ pc'[c] = "idle" /\ status' = "running"
    BY <1>0, <1>8 DEF Serve, TypeOK, Phase, Starting, Stopping
  <2>2. Owned'
    BY <1>0, <1>8 DEF Serve, TypeOK, Phase, Owned, IsOpen, Of, NoPair
  <2>. QED
    BY <1>8, <2>1, <2>2, CallSerial DEF Serve, Inv, TypeOK
<1>. QED
  BY <1>1, <1>2, <1>3, <1>4, <1>5, <1>6, <1>7, <1>8 DEF StartStep

LEMMA StopSerial ==
    ASSUME Inv, TypeOK', Alone, Alone', SerialInv, NEW c \in Callers,
           StopBegins(c) \/ StopStep(c)
    PROVE  SerialInv'
<1>. USE DEF Goto, Hold, Close
<1>0. TypeOK /\ Phase(c) /\ Owned /\ WaitGroupCounts
  BY DEF Inv, SerialInv
<1>1. wg = 0 <=> loops = {}
  BY <1>0, FS_EmptySet, FS_Subset DEF TypeOK, WaitGroupCounts
<1>2. CASE StopBegins(c)
  <2>1. Phase(c)' /\ pc'[c] = "closeHTTP"
    BY <1>0, <1>2 DEF StopBegins, TypeOK, Phase, Starting, Stopping
  <2>2. mine[c] = NoPair
    BY <1>0, <1>2 DEF StopBegins, Phase
  <2>3. Owned'
    BY <1>0, <1>2, <2>2 DEF StopBegins, TypeOK, Owned, IsOpen, Of, NoPair
  <2>. QED
    BY <1>2, <2>1, <2>3, CallSerial DEF StopBegins, Inv, TypeOK
<1>3. CASE CloseHTTP(c)
  <2>1. Phase(c)' /\ Owned' /\ pc'[c] = "closeSOCKS"
    BY <1>0, <1>3 DEF CloseHTTP, TypeOK, Phase, Starting, Stopping, Shut, Owned, IsOpen, Pair
  <2>. QED
    BY <1>3, <2>1, CallSerial DEF CloseHTTP, Inv, TypeOK
<1>4. CASE CloseSOCKS(c)
  <2>1. Phase(c)' /\ Owned' /\ pc'[c] = "wait"
    BY <1>0, <1>4 DEF CloseSOCKS, TypeOK, Phase, Starting, Stopping, Shut, Owned, IsOpen, Pair
  <2>. QED
    BY <1>4, <2>1, CallSerial DEF CloseSOCKS, Inv, TypeOK
<1>5. CASE Wait(c)
  <2>1. Phase(c)' /\ Owned' /\ pc'[c] # "idle"
    BY <1>0, <1>1, <1>5 DEF Wait, TypeOK, Phase, Starting, Stopping, Shut, Owned, IsOpen
  <2>. QED
    BY <1>5, <2>1, CallSerial DEF Wait, Inv, TypeOK
<1>6. CASE Wake(c)
  <2>1. wg = 0
    BY <1>0, <1>1, <1>6 DEF Wake, Phase
  <2>2. Phase(c)' /\ Owned' /\ pc'[c] = "stopped"
    BY <1>0, <1>6, <2>1 DEF Wake, TypeOK, Phase, Starting, Stopping, Shut, Owned, IsOpen
  <2>. QED
    BY <1>6, <2>2, CallSerial DEF Wake, Inv, TypeOK
<1>7. CASE SetStopped(c)
  <2>1. Phase(c)' /\ pc'[c] = "idle" /\ status' = "stopped" /\ fields' = NoPair
    BY <1>0, <1>7 DEF SetStopped, TypeOK, Phase, Starting, Stopping
  <2>2. Owned'
    BY <1>0, <1>7 DEF SetStopped, TypeOK, Phase, Stopping, Shut, Owned, IsOpen, Of, NoPair
  <2>. QED
    BY <1>7, <2>1, <2>2, CallSerial DEF SetStopped, Inv, TypeOK
<1>. QED
  BY <1>2, <1>3, <1>4, <1>5, <1>6, <1>7 DEF StopStep

(* An accept loop that returns wakes a caller only when it was the last.   *)
LEMMA LoopSerial ==
    ASSUME Inv, Inv', SerialInv, NEW l \in Listeners, AcceptLoopEnds(l) \/ AcceptFails(l)
    PROVE  SerialInv'
<1>. USE DEF AcceptLoopEnds, AcceptFails, Return
<1>1. wg' = 0 => loops' = {}
  BY FS_EmptySet, FS_Subset DEF Inv, TypeOK, WaitGroupCounts
<1>2. \A c \in Callers : pc'[c] = pc[c] \/ (pc[c] = "waiting" /\ pc'[c] = "woken" /\ wg' = 0)
  OBVIOUS
<1>3. \A c \in Callers : Phase(c)'
  BY <1>1, <1>2 DEF SerialInv, Phase, Starting, Stopping, Shut, IsOpen
<1>4. Resting' /\ Owned'
  BY <1>2 DEF SerialInv, Resting, AtRest, Owned, IsOpen
<1>. QED
  BY <1>3, <1>4 DEF SerialInv

LEMMA SerialStep ==
    ASSUME Inv, Inv', Alone, Alone', SerialInv, [Next]_vars PROVE SerialInv'
<1>1. ASSUME NEW c \in Callers, StartBegins(c) \/ StartStep(c) PROVE SerialInv'
  BY <1>1, StartSerial DEF Inv
<1>2. ASSUME NEW c \in Callers, StopBegins(c) \/ StopStep(c) PROVE SerialInv'
  BY <1>2, StopSerial DEF Inv
<1>3. ASSUME NEW l \in Listeners, AcceptLoopEnds(l) \/ AcceptFails(l) PROVE SerialInv'
  BY <1>3, LoopSerial
<1>4. CASE Configure
  BY <1>4 DEF Configure, SerialInv, Resting, AtRest, Owned, Phase, Starting, Stopping, Shut, IsOpen
<1>5. CASE Restart
  BY <1>5 DEF Restart, SerialInv, Resting, Owned, Phase, Starting, Stopping, IsOpen
<1>6. CASE UNCHANGED vars
  BY <1>6 DEF vars, SerialInv, Resting, AtRest, Owned, Phase, Starting, Stopping, Shut, IsOpen
<1>. QED
  BY <1>1, <1>2, <1>3, <1>4, <1>5, <1>6 DEF Next, Life

(* Finitely many calls are in progress, as each begins in a step.          *)
Busy     == {c \in Callers : pc[c] # "idle"}
FewCalls == IsFiniteSet(Busy)

LEMMA BusyFinite == Spec => []FewCalls
<1>1. Init => FewCalls
  <2>1. Init => Busy = {}
    BY DEF Init, Busy
  <2>. QED
    BY <2>1, FS_EmptySet DEF FewCalls
<1>2. ASSUME TypeOK, FewCalls, [Next]_vars PROVE FewCalls'
  <2>1. ASSUME NEW c \in Callers, Busy' \subseteq Busy \cup {c} PROVE FewCalls'
    BY <1>2, <2>1, FS_AddElement, FS_Subset DEF FewCalls
  <2>2. ASSUME NEW c \in Callers, StartBegins(c) \/ StopBegins(c) \/ StartStep(c) \/ StopStep(c)
        PROVE  Busy' \subseteq Busy \cup {c}
    <3>1. \A d \in Callers \ {c} : pc'[d] = pc[d]
      BY <1>2, <2>2 DEF TypeOK, StartBegins, StopBegins, StartStep, StopStep, ListenHTTP, HTTPRefused,
         ListenSOCKS, SOCKSRefused, Fail, Publish, Serve, CloseHTTP, CloseSOCKS, Wait, Wake, SetStopped, Goto
    <3>. QED
      BY <3>1 DEF Busy
  <2>3. CASE (\E l \in Listeners : AcceptLoopEnds(l) \/ AcceptFails(l)) \/ Configure \/ Restart \/ UNCHANGED vars
    <3>1. Busy' \subseteq Busy
      BY <2>3 DEF Busy, AcceptLoopEnds, AcceptFails, Return, Configure, Restart, vars
    <3>. QED
      BY <1>2, <3>1, FS_Subset DEF FewCalls
  <2>. QED
    BY <1>2, <2>1, <2>2, <2>3 DEF Next, Life
<1>. QED
  BY <1>1, <1>2, TypeCorrect, PTL DEF Spec

LEMMA AtMostOne ==
    ASSUME NEW S, IsFiniteSet(S), Cardinality(S) <= 1, NEW c \in S, NEW d \in S PROVE c = d
<1>. SUFFICES ASSUME c # d PROVE FALSE
  OBVIOUS
<1>1. IsFiniteSet(S \ {c}) /\ Cardinality(S \ {c}) = Cardinality(S) - 1 /\ Cardinality(S) \in Nat
  BY FS_RemoveElement, FS_CardinalityType
<1>2. Cardinality(S \ {c}) = 0
  BY <1>1, FS_CardinalityType
<1>. QED
  BY <1>1, <1>2, FS_EmptySet

LEMMA SerialInvHolds == Spec /\ []OneCallAtATime => [](Inv /\ Alone /\ SerialInv)
<1>1. FewCalls /\ OneCallAtATime => Alone
  BY AtMostOne DEF FewCalls, Busy, OneCallAtATime, Alone
<1>. QED
  BY <1>1, BusyFinite, SerialInit, SerialStep, Invariance, PTL DEF Spec

(* While calls do not overlap, Stop does what its comment says, but for    *)
(* its end, which is liveness: a server at rest that says it is stopped    *)
(* has no open listener, and the accept loops of the listeners that a Stop *)
(* closed are over when it reports.                                        *)
THEOREM StopIsThorough ==
    Spec => ([]OneCallAtATime => [](StoppedIsClosed /\ StopWaits))
<1>1. ASSUME Inv, Alone, SerialInv PROVE StoppedIsClosed
  BY <1>1 DEF Inv, TypeOK, SerialInv, Resting, Owned, Phase, StoppedIsClosed, AtRest, Of, NoPair
<1>2. ASSUME Inv, Alone, SerialInv PROVE StopWaits
  BY <1>2 DEF Inv, TypeOK, SerialInv, Phase, Alone, StopWaits
<1>. QED
  BY <1>1, <1>2, SerialInvHolds, PTL

=============================================================================
