--------------------------- MODULE DownloadProofs ---------------------------
(***************************************************************************)
(* A download that says done is whole and its progress is true, for any    *)
(* size, number of parts and interleaving of parts, Reads, failures and    *)
(* Cancels, if the server grants ranges; a job that has ended stays so.    *)
(***************************************************************************)
EXTENDS Download, LoopTheorems, FiniteSetTheorems

USE DownloadAssumption DEF single
-----------------------------------------------------------------------------
(* The parts tile the file                                                 *)

LEMMA Quotient ==
    ASSUME NEW x \in Nat, NEW d \in Nat \ {0}
    PROVE  x \div d \in Nat /\ d * (x \div d) <= x /\ x < d * (x \div d) + d
<1> DEFINE q == x \div d
<1>1. q \in Int /\ d * q <= x /\ x < d * q + d
  OBVIOUS
<1> HIDE DEF q
<1>2. q >= 0
  <2> SUFFICES ASSUME q <= -1 PROVE FALSE
    BY <1>1
  <2>1. d * q <= -d /\ d * q \in Int
    BY <1>1
  <2> QED BY <2>1, <1>1
<1> QED BY <1>1, <1>2 DEF q

LEMMA Multiples ==
    ASSUME NEW c \in Nat, NEW i \in Nat, NEW j \in Nat, i <= j
    PROVE  i * c \in Nat /\ i * c <= j * c
<1>1. PICK d \in Nat : j = i + d
  <2>1. j - i \in Nat /\ j = i + (j - i)
    OBVIOUS
  <2> QED BY <2>1
<1>2. j * c = i * c + d * c
  BY <1>1
<1>3. d * c \in Nat /\ i * c \in Nat
  OBVIOUS
<1> QED BY <1>2, <1>3

LEMMA ChunkShape ==
    ASSUME total = Size, NEW n \in Nat \ {0}, NEW i \in 1..n
    PROVE  /\ Chunk(n, i).first \in Nat /\ Chunk(n, i).last \in Int
           /\ Chunk(n, i).first <= Chunk(n, i).last + 1 /\ Chunk(n, i).last < Size
<1> DEFINE c == total \div n
<1>1. c \in Nat /\ n * c <= Size
  BY Quotient
<1>2. Chunk(n, i) = [first |-> (i - 1) * c, last |-> IF i = n THEN total - 1 ELSE i * c - 1]
  BY DEF Chunk
<1> HIDE DEF c
<1>3. (i - 1) * c \in Nat /\ i * c \in Nat /\ (i - 1) * c <= i * c /\ i * c <= n * c /\ n * c \in Nat
  BY <1>1, Multiples
<1>4. CASE i = n
  BY <1>1, <1>2, <1>3, <1>4
<1>5. CASE i # n
  BY <1>1, <1>2, <1>3, <1>5
<1> QED BY <1>4, <1>5

LEMMA ChunksTile ==
    ASSUME total = Size, NEW n \in Nat \ {0}, NEW x \in 0..(Size - 1)
    PROVE  \E i \in 1..n : x \in Chunk(n, i).first..Chunk(n, i).last
<1> DEFINE c == total \div n
<1>1. c \in Nat
  BY Quotient
<1>2. \A i \in 1..n :
        Chunk(n, i) = [first |-> (i - 1) * c, last |-> IF i = n THEN total - 1 ELSE i * c - 1]
  BY DEF Chunk
<1> HIDE DEF c
<1>3. CASE c = 0
  <2>1. n \in 1..n
    OBVIOUS
  <2>2. (n - 1) * c = 0
    <3>1. \A m \in Int : m * 0 = 0
      OBVIOUS
    <3> QED BY <3>1, <1>3
  <2>3. Chunk(n, n).first = 0 /\ Chunk(n, n).last = Size - 1
    BY <2>1, <2>2, <1>2
  <2> QED BY <2>1, <2>3
<1>4. CASE c # 0
  <2> DEFINE q == x \div c
  <2>1. q \in Nat /\ c * q <= x /\ x < c * q + c
    BY <1>1, <1>4, Quotient
  <2> HIDE DEF q
  <2>2. c * q = q * c /\ (q + 1) * c = q * c + c /\ q * c \in Nat
    BY <1>1, <2>1
  <2>3. CASE q + 1 < n
    <3>1. q + 1 \in 1..n /\ q + 1 # n /\ (q + 1) - 1 = q
      BY <2>1, <2>3
    <3>2. Chunk(n, q + 1).first = q * c /\ Chunk(n, q + 1).last = (q + 1) * c - 1
      BY <3>1, <1>2
    <3>3. x \in Chunk(n, q + 1).first..Chunk(n, q + 1).last
      BY <3>2, <2>1, <2>2, <1>1
    <3> QED BY <3>1, <3>3
  <2>4. CASE q + 1 >= n
    <3>1. (n - 1) * c \in Nat /\ (n - 1) * c <= q * c
      BY <2>1, <2>4, <1>1, Multiples
    <3>2. n \in 1..n /\ Chunk(n, n).first = (n - 1) * c /\ Chunk(n, n).last = Size - 1
      BY <1>2
    <3>3. x \in Chunk(n, n).first..Chunk(n, n).last
      BY <3>1, <3>2, <2>1, <2>2
    <3> QED BY <3>2, <3>3
  <2> QED BY <2>1, <2>3, <2>4
<1> QED BY <1>3, <1>4
-----------------------------------------------------------------------------
(* Types                                                                   *)

(* A part in flight: its piece of the file and what it has got of its body. *)
InFlight(i) ==
    LET p == parts[i] IN
    /\ p.first = Chunk(concurrency, i).first /\ p.last = Chunk(concurrency, i).last
    /\ p.got <= BodyLen(p)
    /\ p.at \in {"pick", "request"} => p.got = 0

Shape ==
    /\ pc # "none" => concurrency # 0
    /\ pc \in {"split", "parts"} => total = Size
    /\ pc = "parts" => DOMAIN parts = 1..concurrency /\ \A i \in 1..concurrency : InFlight(i)

TypeInv == TypeOK /\ Shape

LEMMA Bodies ==
    ASSUME TypeInv, pc = "parts", NEW i \in DOMAIN parts
    PROVE  /\ total = Size /\ concurrency \in Nat \ {0} /\ i \in 1..concurrency
           /\ parts[i] \in Part /\ InFlight(i)
           /\ parts[i].first \in Nat /\ parts[i].last \in Int
           /\ parts[i].got \in Nat /\ parts[i].done \in Nat
           /\ parts[i].last < Size /\ Need(parts[i]) \in Nat
           /\ parts[i].first + Need(parts[i]) <= Size
           /\ BodyStart(parts[i]) \in Nat /\ BodyLen(parts[i]) \in Nat
           /\ BodyStart(parts[i]) + BodyLen(parts[i]) <= Size
<1>1. /\ total = Size /\ concurrency \in Nat \ {0} /\ i \in 1..concurrency
      /\ parts[i] \in Part /\ InFlight(i)
  BY DEF TypeInv, TypeOK, Shape
<1>2. parts[i].first = Chunk(concurrency, i).first /\ parts[i].last = Chunk(concurrency, i).last
  BY <1>1 DEF InFlight
<1>3. /\ parts[i].first \in Nat /\ parts[i].last \in Int /\ parts[i].got \in Nat /\ parts[i].done \in Nat
      /\ parts[i].whole \in BOOLEAN
  BY <1>1 DEF Part
<1>4. parts[i].first <= parts[i].last + 1 /\ parts[i].last < Size
  BY <1>1, <1>2, ChunkShape
<1>5. Need(parts[i]) \in Nat /\ parts[i].first + Need(parts[i]) <= Size
  BY <1>3, <1>4 DEF Need
<1> QED BY <1>1, <1>3, <1>4, <1>5 DEF BodyStart, BodyLen

LEMMA ProgressType ==
    ASSUME NEW ps, concurrency \in Nat, \A k \in 1..concurrency : ps[k].done \in Nat
    PROVE  Progress(ps) \in Nat
<1> DEFINE f == [k \in 1..concurrency |-> ps[k].done]
           z == [k \in 1..concurrency |-> 0]
<1>1. \A k \in 1..concurrency : f[k] \in Int /\ z[k] \in Int /\ z[k] <= f[k] /\ z[k] = 0
  OBVIOUS
<1>2. Progress(ps) = SumTo(concurrency, f)
  BY DEF Progress
<1> HIDE DEF f, z
<1>3. SumTo(concurrency, z) = 0 /\ SumTo(concurrency, z) <= SumTo(concurrency, f)
      /\ SumTo(concurrency, f) \in Int
  BY <1>1, SumOfNone, SumGrows, SumType
<1> QED BY <1>2, <1>3

(* A part becomes p. *)
LEMMA PartBecomesType ==
    ASSUME TypeInv, NEW i \in DOMAIN parts, pc = "parts", NEW p \in Part, PartBecomes(i, p),
           UNCHANGED <<selection, status, finished, cancelled, concurrency, total, pc, single>>,
           p.first = parts[i].first, p.last = parts[i].last, p.got <= BodyLen(p),
           p.at \in {"pick", "request"} => p.got = 0,
           file' \in [Offsets -> 0..(Size - 1) \cup {None}], downloaded' \in Nat
    PROVE  TypeInv'
<1>1. parts \in Seq(Part) /\ i \in 1..concurrency /\ DOMAIN parts = 1..concurrency /\ concurrency \in Nat
  BY Bodies DEF TypeInv, TypeOK, Shape
<1>2. parts' = [parts EXCEPT ![i] = p]
  BY DEF PartBecomes
<1>3. /\ parts' \in Seq(Part) /\ DOMAIN parts' = 1..concurrency
      /\ parts'[i] = p /\ \A k \in 1..concurrency : k # i => parts'[k] = parts[k]
  BY <1>1, <1>2
<1>4. TypeOK'
  BY <1>3 DEF TypeInv, TypeOK
<1>5. ASSUME NEW k \in 1..concurrency PROVE InFlight(k)'
  <2>1. Chunk(concurrency, k)' = Chunk(concurrency, k)
    BY DEF Chunk
  <2>2. InFlight(k) /\ InFlight(i)
    BY <1>1 DEF TypeInv, Shape
  <2>3. CASE k = i
    BY <2>1, <2>2, <2>3, <1>3 DEF InFlight, BodyLen, Need
  <2>4. CASE k # i
    BY <2>1, <2>2, <2>4, <1>3 DEF InFlight, BodyLen, Need
  <2> QED BY <2>3, <2>4
<1>6. Shape'
  BY <1>3, <1>5 DEF TypeInv, Shape
<1> QED BY <1>4, <1>6 DEF TypeInv

LEMMA PickAdapterType == ASSUME TypeInv, NEW i \in DOMAIN parts, PickAdapter(i) PROVE TypeInv'
<1> DEFINE o == IF selection = <<>> THEN None ELSE selection[((i - 1) % Len(selection)) + 1]
           p == [parts[i] EXCEPT !.at = "request", !.on = o]
<1>1. pc = "parts" /\ parts[i].at = "pick" /\ PartBecomes(i, p) /\ UNCHANGED <<selection, jobVars, file, pc, single>>
  BY DEF PickAdapter, PartAt
<1>2. parts[i] \in Part /\ i \in Nat \ {0} /\ InFlight(i)
  BY <1>1, Bodies
<1>3. o \in Adapters \cup {None}
  <2>1. selection \in Seq(Adapters)
    BY DEF TypeInv, TypeOK
  <2>2. CASE selection # <<>>
    <3>1. Len(selection) \in Nat \ {0} /\ i - 1 \in Nat
      BY <2>1, <2>2, <1>2
    <3>2. ((i - 1) % Len(selection)) + 1 \in 1..Len(selection)
      BY <3>1
    <3> QED BY <2>1, <2>2, <3>2
  <2> QED BY <2>2
<1> HIDE DEF o
<1>4. /\ p \in Part /\ p.first = parts[i].first /\ p.last = parts[i].last /\ p.got = parts[i].got
      /\ p.at = "request" /\ p.whole = parts[i].whole
  BY <1>2, <1>3 DEF Part
<1> HIDE DEF p
<1>5. p.got <= BodyLen(p) /\ p.got = 0
  BY <1>1, <1>2, <1>4 DEF InFlight, BodyLen, Need
<1>6. file' \in [Offsets -> 0..(Size - 1) \cup {None}] /\ downloaded' \in Nat
  BY <1>1 DEF TypeInv, TypeOK, jobVars
<1> QED BY <1>1, <1>4, <1>5, <1>6, PartBecomesType DEF jobVars

LEMMA AnsweredType == ASSUME TypeInv, NEW i \in DOMAIN parts, Answered(i) PROVE TypeInv'
<1>1. pc = "parts" /\ parts[i].at = "request" /\ UNCHANGED <<selection, jobVars, file, pc, single>>
  BY DEF Answered, PartAt
<1>2. PICK answer \in Answers :
        PartBecomes(i, [parts[i] EXCEPT !.at = "read", !.whole = (answer = "whole")])
  BY DEF Answered
<1> DEFINE w == (answer = "whole")
           p == [parts[i] EXCEPT !.at = "read", !.whole = w]
<1>3. parts[i] \in Part /\ InFlight(i) /\ Need(parts[i]) \in Nat /\ w \in BOOLEAN
  BY <1>1, Bodies
<1>4. PartBecomes(i, p)
  BY <1>2
<1> HIDE DEF w
<1>5. /\ p \in Part /\ p.first = parts[i].first /\ p.last = parts[i].last /\ p.got = parts[i].got
      /\ p.at = "read" /\ p.whole = w
  BY <1>3 DEF Part
<1> HIDE DEF p
<1>6. p.got <= BodyLen(p)
  <2>1. p.got = 0
    BY <1>1, <1>3, <1>5 DEF InFlight
  <2>2. Need(p) \in Nat
    BY <1>3, <1>5 DEF Need
  <2> QED BY <2>1, <2>2 DEF BodyLen
<1>7. file' \in [Offsets -> 0..(Size - 1) \cup {None}] /\ downloaded' \in Nat
  BY <1>1 DEF TypeInv, TypeOK, jobVars
<1> QED BY <1>1, <1>4, <1>5, <1>6, <1>7, PartBecomesType DEF jobVars

LEMMA PartStopsType ==
    ASSUME TypeInv, NEW i \in DOMAIN parts, PartEnds(i) \/ PartFails(i) PROVE TypeInv'
<1>1. pc = "parts" /\ UNCHANGED <<selection, jobVars, file, pc, single>>
  BY DEF PartEnds, PartFails, PartAt
<1>2. PICK f \in BOOLEAN : PartBecomes(i, [parts[i] EXCEPT !.at = "ended", !.failed = f])
  <2>1. parts[i] \in Part
    BY <1>1, Bodies
  <2>2. [parts[i] EXCEPT !.at = "ended"] = [parts[i] EXCEPT !.at = "ended", !.failed = parts[i].failed]
        /\ parts[i].failed \in BOOLEAN
    BY <2>1 DEF Part
  <2> QED BY <2>2 DEF PartEnds, PartFails
<1> DEFINE p == [parts[i] EXCEPT !.at = "ended", !.failed = f]
<1>3. parts[i] \in Part /\ InFlight(i)
  BY <1>1, Bodies
<1>4. /\ p \in Part /\ p.first = parts[i].first /\ p.last = parts[i].last /\ p.got = parts[i].got
      /\ p.at = "ended" /\ p.whole = parts[i].whole
  BY <1>3 DEF Part
<1> HIDE DEF p
<1>5. p.got <= BodyLen(p)
  BY <1>3, <1>4 DEF InFlight, BodyLen, Need
<1>6. file' \in [Offsets -> 0..(Size - 1) \cup {None}] /\ downloaded' \in Nat
  BY <1>1 DEF TypeInv, TypeOK, jobVars
<1>7. PartBecomes(i, p)
  BY <1>2 DEF p
<1> QED BY <1>1, <1>4, <1>5, <1>6, <1>7, PartBecomesType DEF jobVars

LEMMA WriteType ==
    ASSUME TypeInv, NEW n \in Nat, NEW from \in Nat, NEW at \in Nat, from + n <= Size, Write(n, from, at)
    PROVE  file' \in [Offsets -> 0..(Size - 1) \cup {None}]
<1>1. ASSUME NEW x \in Offsets, x \in at..(at + n - 1) PROVE from + (x - at) \in 0..(Size - 1)
  BY <1>1
<1>2. \A x \in Offsets : file[x] \in 0..(Size - 1) \cup {None}
  BY DEF TypeInv, TypeOK
<1> QED BY <1>1, <1>2 DEF Write

LEMMA ReadPartType == ASSUME TypeInv, NEW i \in DOMAIN parts, ReadPart(i) PROVE TypeInv'
<1> DEFINE p == parts[i]
<1>1. PICK n \in 1..MaxRead, fails \in BOOLEAN :
        /\ p.got + n <= BodyLen(p)
        /\ Write(n, BodyStart(p) + p.got, p.first + p.got)
        /\ PartBecomes(i, [p EXCEPT !.got = @ + n, !.failed = fails,
                                    !.at = IF fails THEN "ended" ELSE "report"])
  BY DEF ReadPart
<1>2. pc = "parts" /\ UNCHANGED <<selection, jobVars, pc, single>>
  BY DEF ReadPart, PartAt
<1>3. /\ p \in Part /\ p.got \in Nat /\ p.first \in Nat /\ BodyStart(p) \in Nat /\ BodyLen(p) \in Nat
      /\ BodyStart(p) + BodyLen(p) <= Size
  BY <1>2, Bodies
<1> DEFINE g == p.got + n
           to == IF fails THEN "ended" ELSE "report"
           q == [p EXCEPT !.got = g, !.failed = fails, !.at = to]
<1>4. g \in Nat /\ g <= BodyLen(p) /\ PartBecomes(i, q) /\ to \in {"ended", "report"}
  BY <1>1, <1>3
<1> HIDE DEF p, to
<1>5. file' \in [Offsets -> 0..(Size - 1) \cup {None}]
  <2>1. n \in Nat /\ BodyStart(p) + p.got \in Nat /\ p.first + p.got \in Nat
        /\ BodyStart(p) + p.got + n <= Size
    <3>1. n \in Nat
      OBVIOUS
    <3>2. p.got + n <= BodyLen(p)
      BY <1>1
    <3> QED BY <3>1, <3>2, <1>3, SMTT(30)
  <2> QED BY <2>1, <1>1, WriteType
<1> HIDE DEF g
<1>6. /\ q \in Part /\ q.first = p.first /\ q.last = p.last /\ q.got = g /\ q.at = to
      /\ q.whole = p.whole
  BY <1>3, <1>4 DEF Part
<1> HIDE DEF q
<1>7. q.got <= BodyLen(q)
  BY <1>4, <1>6 DEF BodyLen, Need
<1>8. downloaded' \in Nat
  BY <1>2 DEF TypeInv, TypeOK, jobVars
<1> QED BY <1>2, <1>4, <1>5, <1>6, <1>7, <1>8, PartBecomesType DEF p, jobVars

LEMMA ReportType == ASSUME TypeInv, NEW i \in DOMAIN parts, Report(i) PROVE TypeInv'
<1> DEFINE q == [parts[i] EXCEPT !.at = "read", !.done = parts[i].got]
<1>1. /\ pc = "parts" /\ PartBecomes(i, q) /\ downloaded' = Progress(parts')
      /\ UNCHANGED <<selection, status, finished, cancelled, concurrency, total, file, pc, single>>
  BY DEF Report, PartAt
<1>2. parts[i] \in Part /\ parts[i].got \in Nat /\ InFlight(i) /\ concurrency \in Nat
  BY <1>1, Bodies
<1>3. /\ q \in Part /\ q.first = parts[i].first /\ q.last = parts[i].last /\ q.got = parts[i].got
      /\ q.at = "read" /\ q.whole = parts[i].whole
  BY <1>2 DEF Part
<1> HIDE DEF q
<1>4. q.got <= BodyLen(q)
  BY <1>2, <1>3 DEF InFlight, BodyLen, Need
<1>5. downloaded' \in Nat
  <2>1. parts \in Seq(Part) /\ DOMAIN parts = 1..concurrency /\ parts' = [parts EXCEPT ![i] = q]
    <3>1. parts \in Seq(Part) /\ DOMAIN parts = 1..concurrency
      BY <1>1 DEF TypeInv, TypeOK, Shape
    <3>2. parts' = [parts EXCEPT ![i] = q]
      BY <1>1 DEF PartBecomes
    <3> QED BY <3>1, <3>2
  <2>2. ASSUME NEW k \in 1..concurrency PROVE parts'[k] \in Part
    <3>1. k \in DOMAIN parts
      BY <2>1
    <3>2. parts[k] \in Part
      BY <1>1, <3>1, Bodies
    <3>3. parts'[k] = IF k = i THEN q ELSE parts[k]
      BY <2>1, <3>1
    <3> QED BY <3>2, <3>3, <1>3
  <2>3. \A k \in 1..concurrency : parts'[k].done \in Nat
    BY <2>2 DEF Part
  <2>4. Progress(parts') \in Nat
    BY <2>3, <1>2, ProgressType
  <2> QED BY <2>4, <1>1
<1>6. file' \in [Offsets -> 0..(Size - 1) \cup {None}]
  BY <1>1 DEF TypeInv, TypeOK
<1> QED BY <1>1, <1>3, <1>4, <1>5, <1>6, PartBecomesType

(* A step of the job's goroutine, or of a user, that leaves parts alone. *)
LEMMA QuietType ==
    ASSUME TypeInv, TypeOK', parts' = parts,
           pc' # "none" => concurrency' # 0,
           pc' \in {"split", "parts"} => total' = Size,
           pc' = "parts" => pc = "parts" /\ concurrency' = concurrency /\ total' = total
    PROVE  TypeInv'
<1>1. ASSUME pc' = "parts", NEW i \in 1..concurrency PROVE InFlight(i)'
  <2>1. InFlight(i) /\ Chunk(concurrency, i)' = Chunk(concurrency, i)
    BY <1>1 DEF TypeInv, Shape, Chunk
  <2> QED BY <2>1 DEF InFlight, BodyLen, Need
<1>2. Shape'
  BY <1>1 DEF TypeInv, Shape
<1> QED BY <1>2 DEF TypeInv

LEMMA StartType == ASSUME TypeInv, NEW request \in Requests, Start(request) PROVE TypeInv'
<1> DEFINE a == Len(selection)
<1>1. a \in Nat /\ request \in Int
  BY DEF TypeInv, TypeOK
<1> HIDE DEF a
<1>2. Clamp(request, a) \in 1..MaxParts
  BY <1>1 DEF Clamp
<1>3. /\ concurrency' \in 1..MaxParts /\ pc' = "queued" /\ status' = "queued"
      /\ UNCHANGED <<selection, finished, cancelled, total, downloaded, parts, file, single>>
  BY <1>2 DEF Start, Goto, a
<1>4. TypeOK'
  BY <1>3 DEF TypeInv, TypeOK
<1> QED BY <1>3, <1>4, QuietType

LEMMA SplitType == ASSUME TypeInv, Split PROVE TypeInv'
<1> DEFINE new == [i \in 1..concurrency |-> NewPart(concurrency, i)]
<1>1. /\ pc = "split" /\ pc' = "parts" /\ parts' = new /\ total = Size
      /\ UNCHANGED <<selection, jobVars, file, single>>
  BY DEF Split, Goto, TypeInv, Shape
<1>2. concurrency \in Nat \ {0}
  BY <1>1 DEF TypeInv, TypeOK, Shape
<1>3. ASSUME NEW i \in 1..concurrency
      PROVE  /\ new[i] \in Part /\ new[i].got = 0 /\ new[i].at = "pick"
             /\ new[i].first = Chunk(concurrency, i).first /\ new[i].last = Chunk(concurrency, i).last
             /\ new[i].got <= BodyLen(new[i])
  <2>1. /\ Chunk(concurrency, i).first \in Nat /\ Chunk(concurrency, i).last \in Int
        /\ Chunk(concurrency, i).first <= Chunk(concurrency, i).last + 1
    BY <1>1, <1>2, ChunkShape
  <2>2. new[i] = NewPart(concurrency, i)
    OBVIOUS
  <2> HIDE DEF new
  <2>3. /\ new[i] \in Part /\ new[i].got = 0 /\ new[i].at = "pick" /\ ~new[i].whole
        /\ new[i].first = Chunk(concurrency, i).first /\ new[i].last = Chunk(concurrency, i).last
    BY <2>1, <2>2 DEF NewPart, Part
  <2> QED BY <2>1, <2>3 DEF BodyLen, Need
<1>4. parts' \in Seq(Part) /\ DOMAIN parts' = 1..concurrency
  BY <1>1, <1>2, <1>3
<1>5. TypeOK'
  BY <1>1, <1>4 DEF TypeInv, TypeOK, jobVars
<1>6. ASSUME NEW i \in 1..concurrency PROVE InFlight(i)'
  <2>1. Chunk(concurrency, i)' = Chunk(concurrency, i)
    BY <1>1 DEF Chunk, jobVars
  <2> HIDE DEF new
  <2> QED BY <1>1, <1>3, <2>1 DEF InFlight, BodyLen, Need
<1>7. Shape'
  BY <1>1, <1>2, <1>4, <1>6 DEF Shape, jobVars
<1> QED BY <1>5, <1>7 DEF TypeInv

LEMMA ReadSingleType == ASSUME TypeInv, ReadSingle \/ ReportSingle PROVE TypeInv'
<1>1. CASE ReadSingle
  <2>1. PICK n \in 1..MaxRead :
          written + n <= Size /\ Write(n, written, written) /\ written' = written + n
    BY <1>1 DEF ReadSingle
  <2>2. /\ pc = "stream" /\ pc' \in {"report", "fail"}
        /\ UNCHANGED <<selection, jobVars, parts, length>>
    BY <1>1 DEF ReadSingle
  <2>3. written \in Nat /\ n \in Nat /\ written' \in 0..Size
    BY <2>1 DEF TypeInv, TypeOK
  <2>4. file' \in [Offsets -> 0..(Size - 1) \cup {None}]
    BY <2>1, <2>3, WriteType
  <2>5. TypeOK'
    BY <2>2, <2>3, <2>4 DEF TypeInv, TypeOK, jobVars
  <2> QED BY <2>2, <2>5, QuietType DEF TypeInv, Shape, jobVars
<1>2. CASE ReportSingle
  <2>1. /\ pc = "report" /\ pc' = "stream" /\ downloaded' = written /\ total' \in {total, Size}
        /\ UNCHANGED <<selection, status, finished, cancelled, concurrency, parts, file, single>>
    BY <1>2 DEF ReportSingle, Goto
  <2>2. TypeOK'
    BY <2>1 DEF TypeInv, TypeOK
  <2> QED BY <2>1, <2>2, QuietType DEF TypeInv, Shape
<1> QED BY <1>1, <1>2

LEMMA RunType == ASSUME TypeInv, RunStep PROVE TypeInv'
<1>1. CASE RunBegins
  BY <1>1, QuietType DEF RunBegins, Goto, TypeInv, TypeOK, Shape
<1>2. CASE Probe
  <2>1. PICK found \in Probes :
          /\ pc = "probe" /\ total' = found.size
          /\ pc' = IF found.size > 0 /\ found.ranges /\ concurrency > 1 THEN "split" ELSE "single"
    BY <1>2 DEF Probe, Goto
  <2>2. found.size \in {0, Size}
    OBVIOUS
  <2>3. UNCHANGED <<selection, status, finished, cancelled, concurrency, downloaded, parts, file, single>>
    BY <1>2 DEF Probe
  <2>4. TypeOK'
    BY <2>1, <2>2, <2>3 DEF TypeInv, TypeOK
  <2> QED BY <2>1, <2>2, <2>3, <2>4, QuietType DEF TypeInv, Shape
<1>3. CASE Fails
  <2>1. TypeOK'
    BY <1>3 DEF Fails, TypeInv, TypeOK, jobVars
  <2> QED BY <1>3, <2>1, QuietType DEF Fails, TypeInv, Shape, jobVars
<1>4. CASE Split
  BY <1>4, SplitType
<1>5. CASE Join
  <2>1. TypeOK'
    BY <1>5 DEF Join, Goto, TypeInv, TypeOK, jobVars
  <2> QED BY <1>5, <2>1, QuietType DEF Join, Goto, TypeInv, Shape, jobVars
<1>6. CASE SingleAnswered
  <2>1. TypeOK'
    BY <1>6 DEF SingleAnswered, Goto, TypeInv, TypeOK, jobVars
  <2> QED BY <1>6, <2>1, QuietType DEF SingleAnswered, Goto, TypeInv, Shape, jobVars
<1>7. CASE ReadSingle \/ ReportSingle
  BY <1>7, ReadSingleType
<1>8. CASE SingleEnds
  <2>1. TypeOK'
    BY <1>8 DEF SingleEnds, Goto, TypeInv, TypeOK, jobVars
  <2> QED BY <1>8, <2>1, QuietType DEF SingleEnds, Goto, TypeInv, Shape, jobVars
<1>9. CASE SetFail \/ SetCanceled \/ SetDone
  <2>1. downloaded' \in {downloaded, total} /\ downloaded' \in Nat
    BY <1>9 DEF SetFail, SetCanceled, SetDone, TypeInv, TypeOK
  <2>2. /\ pc' = "end" /\ status' \in {"done", "failed", "canceled"} /\ finished' = TRUE
        /\ UNCHANGED <<selection, cancelled, concurrency, total, parts, file, single>>
        /\ pc # "none"
    BY <1>9 DEF SetFail, SetCanceled, SetDone, Finish, Goto
  <2>3. TypeOK'
    BY <2>1, <2>2 DEF TypeInv, TypeOK
  <2> QED BY <2>2, <2>3, QuietType DEF TypeInv, Shape
<1> QED BY <1>1, <1>2, <1>3, <1>4, <1>5, <1>6, <1>7, <1>8, <1>9 DEF RunStep

LEMMA NextType == ASSUME TypeInv, [Next]_vars PROVE TypeInv'
<1>1. ASSUME NEW request \in Requests, Start(request) PROVE TypeInv'
  BY <1>1, StartType
<1>2. CASE Cancel
  <2>1. TypeOK'
    BY <1>2 DEF Cancel, TypeInv, TypeOK
  <2> QED BY <1>2, <2>1, QuietType DEF Cancel, TypeInv, Shape
<1>3. CASE RunStep
  BY <1>3, RunType
<1>4. ASSUME NEW i \in DOMAIN parts, PartStep(i) PROVE TypeInv'
  BY <1>4, PickAdapterType, AnsweredType, ReadPartType, ReportType, PartStopsType DEF PartStep
<1>5. CASE Reselect \/ UNCHANGED vars
  <2>1. TypeOK'
    BY <1>5 DEF Reselect, vars, jobVars, TypeInv, TypeOK
  <2> QED BY <1>5, <2>1, QuietType DEF Reselect, vars, jobVars, TypeInv, Shape
<1> QED BY <1>1, <1>2, <1>3, <1>4, <1>5 DEF Next

LEMMA InitType == Init => TypeInv
<1> SUFFICES ASSUME Init PROVE TypeInv
  OBVIOUS
<1>1. parts \in Seq(Part)
  BY DEF Init
<1>2. file \in [Offsets -> 0..(Size - 1) \cup {None}]
  BY DEF Init
<1>3. concurrency \in 0..MaxParts /\ total \in {0, Size} /\ downloaded \in Nat /\ written \in 0..Size
  BY DEF Init
<1>4. TypeOK
  BY <1>1, <1>2, <1>3 DEF Init, TypeOK
<1> QED BY <1>4 DEF Init, TypeInv, Shape

(* The type invariant of a job: each part keeps the piece of the file that *)
(* run gave it and never gets more than its body has.                      *)
THEOREM JobType == Spec => []TypeOK
<1>1. TypeInv /\ [Next]_vars => TypeInv'
  BY NextType
<1>2. TypeInv => TypeOK
  BY DEF TypeInv
<1> QED BY InitType, <1>1, <1>2, PTL DEF Spec
-----------------------------------------------------------------------------
(* The file is whole                                                       *)

(* Every byte that is in the file is in its place. *)
Placed == \A x \in Offsets : file[x] \in {x, None} /\ (x >= Size => file[x] = None)

(* What a part has got is in the file, and it has all it needs if it ended well. *)
Stored(i) ==
    LET p == parts[i] IN
    /\ ~p.whole
    /\ p.at = "ended" /\ ~p.failed => p.got >= Need(p)
    /\ \A x \in p.first..(p.first + p.got - 1) : x \in Offsets => file[x] = x

Whole == \A x \in Offsets : file[x] = IF x < Size THEN x ELSE None

Outcome ==
    /\ pc \in {"none", "queued", "probe", "split", "single"} => downloaded = 0 /\ written = 0
    /\ pc = "parts" => \A i \in DOMAIN parts : Stored(i)
    /\ pc \in {"stream", "report"} => /\ total > 0 => length
                                      /\ \A x \in Offsets : x < written => file[x] = x
    /\ pc = "done" /\ total > 0 => Whole
    /\ status = "done" => pc = "end" /\ (total > 0 => Whole)

WholeInv == Placed /\ Outcome

LEMMA WriteKeeps ==
    ASSUME TypeInv, Placed, NEW n \in Nat, NEW at \in Nat, at + n <= Size, Write(n, at, at)
    PROVE  /\ Placed'
           /\ \A x \in Offsets : file[x] = x => file'[x] = x
           /\ \A x \in Offsets : x \in at..(at + n - 1) => file'[x] = x
<1>1. ASSUME NEW x \in Offsets
      PROVE  /\ x \in at..(at + n - 1) => x < Size /\ file'[x] = x
             /\ x \notin at..(at + n - 1) => file'[x] = file[x]
  <2>1. x \in Int /\ at + (x - at) = x
    BY DEF Offsets
  <2>2. file'[x] = IF x \in at..(at + n - 1) THEN at + (x - at) ELSE file[x]
    BY DEF Write
  <2> QED BY <2>1, <2>2
<1>2. ASSUME NEW x \in Offsets PROVE file'[x] \in {x, None} /\ (x >= Size => file'[x] = None)
  <2>1. x \in Int
    BY DEF Offsets
  <2> QED BY <2>1, <1>1 DEF Placed
<1>3. ASSUME NEW x \in Offsets, file[x] = x PROVE file'[x] = x
  BY <1>1, <1>3
<1> QED BY <1>1, <1>2, <1>3 DEF Placed

LEMMA ReadPartStores ==
    ASSUME TypeInv, WholeInv, NEW i \in DOMAIN parts, ReadPart(i)
    PROVE  WholeInv'
<1>1. PICK n \in 1..MaxRead, fails \in BOOLEAN :
        /\ parts[i].got + n <= BodyLen(parts[i])
        /\ Write(n, BodyStart(parts[i]) + parts[i].got, parts[i].first + parts[i].got)
        /\ PartBecomes(i, [parts[i] EXCEPT !.got = @ + n, !.failed = fails,
                                           !.at = IF fails THEN "ended" ELSE "report"])
  BY DEF ReadPart
<1>2. /\ pc = "parts" /\ parts[i].at = "read"
      /\ UNCHANGED <<status, total, pc, single>> /\ status # "done"
  BY DEF ReadPart, PartAt, WholeInv, Outcome, jobVars
<1>3. /\ parts[i] \in Part /\ parts[i].got \in Nat /\ parts[i].first \in Nat
      /\ parts[i].first + Need(parts[i]) <= Size /\ Need(parts[i]) \in Nat /\ Stored(i)
  BY <1>2, Bodies DEF WholeInv, Outcome
<1>4. BodyStart(parts[i]) = parts[i].first /\ BodyLen(parts[i]) = Need(parts[i])
  BY <1>3 DEF Stored, BodyStart, BodyLen
<1> DEFINE at == parts[i].first + parts[i].got
           to == IF fails THEN "ended" ELSE "report"
           r  == [parts[i] EXCEPT !.got = @ + n, !.failed = fails, !.at = to]
<1>5. at \in Nat /\ n \in Nat /\ at + n <= Size /\ Write(n, at, at)
  <2>1. n \in Nat
    OBVIOUS
  <2>2. parts[i].got + n <= Need(parts[i])
    BY <1>1, <1>4
  <2>3. Write(n, at, at)
    BY <1>1, <1>4
  <2> QED BY <2>1, <2>2, <2>3, <1>3
<1> HIDE DEF at
<1>6. /\ Placed'
      /\ \A x \in Offsets : file[x] = x => file'[x] = x
      /\ \A x \in Offsets : x \in at..(at + n - 1) => file'[x] = x
  BY <1>5, WriteKeeps DEF WholeInv
<1>7. /\ r.first = parts[i].first /\ (r.at = "ended" => r.failed) /\ ~r.whole
      /\ r.got = parts[i].got + n /\ parts' = [parts EXCEPT ![i] = r]
  BY <1>1, <1>2, <1>3 DEF Part, PartBecomes, Stored
<1> HIDE DEF r
<1>8. ASSUME NEW k \in DOMAIN parts' PROVE Stored(k)'
  <2>1. k \in DOMAIN parts /\ parts'[k] = IF k = i THEN r ELSE parts[k]
    BY <1>7
  <2>2. Stored(k)
    BY <2>1, <1>2 DEF WholeInv, Outcome
  <2>3. CASE k # i
    BY <2>1, <2>2, <2>3, <1>6 DEF Stored, Need
  <2>4. CASE k = i
    <3>1. ASSUME NEW x \in r.first..(r.first + r.got - 1), x \in Offsets PROVE file'[x] = x
      <4>1. CASE x \in parts[i].first..(parts[i].first + parts[i].got - 1)
        BY <4>1, <3>1, <1>3, <1>6 DEF Stored
      <4>2. CASE x \notin parts[i].first..(parts[i].first + parts[i].got - 1)
        <5>1. x \in at..(at + n - 1)
          <6>1. /\ x \in Int /\ r.first = parts[i].first /\ r.got = parts[i].got + n
                /\ parts[i].first \in Nat /\ parts[i].got \in Nat /\ n \in Nat
            BY <1>3, <1>5, <1>7 DEF Offsets
          <6>2. x >= parts[i].first /\ x <= parts[i].first + parts[i].got + n - 1
            BY <3>1, <6>1
          <6>3. x >= parts[i].first + parts[i].got
            BY <4>2, <6>1, <6>2
          <6> QED BY <6>1, <6>2, <6>3 DEF at
        <5> QED BY <5>1, <3>1, <1>6
      <4> QED BY <4>1, <4>2
    <3> QED BY <2>1, <2>4, <3>1, <1>7 DEF Stored, Need
  <2> QED BY <2>3, <2>4
<1>9. Outcome'
  BY <1>2, <1>8 DEF WholeInv, Outcome
<1> QED BY <1>6, <1>9 DEF WholeInv

(* A step of a part that reads nothing. *)
LEMMA PartBecomesStores ==
    ASSUME TypeInv, WholeInv, NEW i \in DOMAIN parts, NEW p, pc = "parts", PartBecomes(i, p),
           UNCHANGED <<status, total, file, pc, single>>,
           p.first = parts[i].first, p.last = parts[i].last, p.got = parts[i].got, ~p.whole,
           p.at = "ended" /\ ~p.failed => p.got >= Need(p)
    PROVE  WholeInv'
<1>1. Placed' /\ status' # "done" /\ \A k \in DOMAIN parts : Stored(k)
  BY DEF WholeInv, Placed, Outcome
<1>2. ASSUME NEW k \in DOMAIN parts' PROVE Stored(k)'
  <2>1. k \in DOMAIN parts /\ parts'[k] = IF k = i THEN p ELSE parts[k]
    BY DEF PartBecomes
  <2>2. Stored(k) /\ Stored(i)
    BY <2>1, <1>1
  <2>3. CASE k = i
    BY <2>1, <2>2, <2>3 DEF Stored, Need
  <2>4. CASE k # i
    BY <2>1, <2>2, <2>4 DEF Stored, Need
  <2> QED BY <2>3, <2>4
<1> QED BY <1>1, <1>2 DEF WholeInv, Outcome, jobVars

LEMMA PartStores ==
    ASSUME Answers \subseteq {"partial"}, TypeInv, WholeInv, NEW i \in DOMAIN parts, PartStep(i)
    PROVE  WholeInv'
<1>1. pc = "parts"
  BY DEF PartStep, PickAdapter, Answered, ReadPart, Report, PartEnds, PartFails, PartAt
<1>2. parts[i] \in Part /\ Stored(i)
  BY <1>1, Bodies DEF WholeInv, Outcome
<1>3. CASE PickAdapter(i)
  <2> DEFINE o == IF selection = <<>> THEN None ELSE selection[((i - 1) % Len(selection)) + 1]
             p == [parts[i] EXCEPT !.at = "request", !.on = o]
  <2>1. PartBecomes(i, p) /\ UNCHANGED <<status, total, file, pc, single>>
    BY <1>3 DEF PickAdapter, jobVars
  <2> HIDE DEF o
  <2>2. /\ p.first = parts[i].first /\ p.last = parts[i].last /\ p.got = parts[i].got
        /\ p.whole = parts[i].whole /\ p.at = "request"
    BY <1>2 DEF Part
  <2> QED BY <1>1, <1>2, <2>1, <2>2, PartBecomesStores DEF Stored
<1>4. CASE Answered(i)
  <2>1. PICK answer \in Answers :
          PartBecomes(i, [parts[i] EXCEPT !.at = "read", !.whole = (answer = "whole")])
    BY <1>4 DEF Answered
  <2> DEFINE w == (answer = "whole")
             p == [parts[i] EXCEPT !.at = "read", !.whole = w]
  <2>2. PartBecomes(i, p) /\ UNCHANGED <<status, total, file, pc, single>> /\ ~w
    BY <1>4, <2>1 DEF Answered, jobVars
  <2> HIDE DEF w
  <2>3. /\ p.first = parts[i].first /\ p.last = parts[i].last /\ p.got = parts[i].got
        /\ p.whole = w /\ p.at = "read"
    BY <1>2 DEF Part
  <2> QED BY <1>1, <1>2, <2>2, <2>3, PartBecomesStores
<1>5. CASE ReadPart(i)
  BY <1>5, ReadPartStores
<1>6. CASE PartEnds(i)
  <2> DEFINE p == [parts[i] EXCEPT !.at = "ended"]
  <2>1. PartBecomes(i, p) /\ UNCHANGED <<status, total, file, pc, single>> /\ parts[i].got >= Need(parts[i])
    BY <1>6 DEF PartEnds, jobVars
  <2>2. /\ p.first = parts[i].first /\ p.last = parts[i].last /\ p.got = parts[i].got
        /\ p.whole = parts[i].whole
    BY <1>2 DEF Part
  <2>3. p.got >= Need(p)
    BY <2>1, <2>2 DEF Need
  <2> QED BY <1>1, <1>2, <2>1, <2>2, <2>3, PartBecomesStores DEF Stored
<1>7. CASE PartFails(i)
  <2> DEFINE p == [parts[i] EXCEPT !.at = "ended", !.failed = TRUE]
  <2>1. PartBecomes(i, p) /\ UNCHANGED <<status, total, file, pc, single>>
    BY <1>7 DEF PartFails, jobVars
  <2>2. /\ p.first = parts[i].first /\ p.last = parts[i].last /\ p.got = parts[i].got
        /\ p.whole = parts[i].whole /\ p.failed
    BY <1>2 DEF Part
  <2> QED BY <1>1, <1>2, <2>1, <2>2, PartBecomesStores DEF Stored
<1>8. CASE Report(i)
  <2> DEFINE p == [parts[i] EXCEPT !.at = "read", !.done = parts[i].got]
  <2>1. PartBecomes(i, p) /\ UNCHANGED <<status, total, file, pc, single>>
    BY <1>8 DEF Report
  <2>2. /\ p.first = parts[i].first /\ p.last = parts[i].last /\ p.got = parts[i].got
        /\ p.whole = parts[i].whole /\ p.at = "read"
    BY <1>2 DEF Part
  <2> QED BY <1>1, <1>2, <2>1, <2>2, PartBecomesStores DEF Stored
<1> QED BY <1>3, <1>4, <1>5, <1>6, <1>7, <1>8 DEF PartStep

(* If every part ended well, the pieces they stored make up the file. *)
LEMMA JoinStores == ASSUME TypeInv, WholeInv, Join PROVE WholeInv'
<1>1. /\ pc = "parts" /\ Ended = DOMAIN parts /\ UNCHANGED <<jobVars, parts, file, single>>
      /\ pc' \in {"cancel", "fail", "done"} /\ (pc' = "done" => Failed = {})
      /\ status # "done" /\ Placed'
  BY DEF Join, Goto, WholeInv, Outcome, Placed
<1>2. ASSUME pc' = "done" PROVE Whole
  <2>1. total = Size /\ concurrency \in Nat \ {0} /\ DOMAIN parts = 1..concurrency
    BY <1>1 DEF TypeInv, TypeOK, Shape
  <2>2. ASSUME NEW x \in Offsets, x < Size PROVE file[x] = x
    <3>1. x \in 0..(Size - 1)
      BY <2>2 DEF Offsets
    <3>2. PICK i \in 1..concurrency : x \in Chunk(concurrency, i).first..Chunk(concurrency, i).last
      BY <2>1, <3>1, ChunksTile
    <3>3. i \in DOMAIN parts /\ parts[i].at = "ended" /\ ~parts[i].failed
      BY <1>1, <1>2, <2>1 DEF Ended, Failed
    <3>4. /\ InFlight(i) /\ Stored(i)
          /\ parts[i].first \in Nat /\ parts[i].last \in Int /\ parts[i].got \in Nat
      BY <1>1, <3>3, Bodies DEF WholeInv, Outcome
    <3>5. x \in parts[i].first..parts[i].last
      BY <3>2, <3>4 DEF InFlight
    <3>6. x \in parts[i].first..(parts[i].first + parts[i].got - 1)
      BY <3>3, <3>4, <3>5 DEF Stored, Need
    <3> QED BY <2>2, <3>4, <3>6 DEF Stored
  <2>3. ASSUME NEW x \in Offsets, ~(x < Size) PROVE file[x] = None
    <3>1. x >= Size
      BY <2>3 DEF Offsets
    <3> QED BY <3>1, <2>3 DEF WholeInv, Placed
  <2> QED BY <2>2, <2>3 DEF Whole
<1>3. pc' = "done" => Whole'
  BY <1>1, <1>2 DEF Whole
<1> QED BY <1>1, <1>3 DEF WholeInv, Outcome, jobVars

LEMMA ReadSingleStores == ASSUME TypeInv, WholeInv, ReadSingle PROVE WholeInv'
<1>1. PICK n \in 1..MaxRead :
        written + n <= Size /\ Write(n, written, written) /\ written' = written + n
  BY DEF ReadSingle
<1>2. /\ pc = "stream" /\ pc' \in {"report", "fail"}
      /\ UNCHANGED <<status, total, length>>
  BY DEF ReadSingle, jobVars
<1>3. written \in Nat /\ n \in Nat /\ Placed /\ status # "done" /\ (total > 0 => length)
      /\ \A x \in Offsets : x < written => file[x] = x
  BY <1>1, <1>2 DEF TypeInv, TypeOK, WholeInv, Outcome
<1>4. /\ Placed'
      /\ \A x \in Offsets : file[x] = x => file'[x] = x
      /\ \A x \in Offsets : x \in written..(written + n - 1) => file'[x] = x
  BY <1>1, <1>3, WriteKeeps
<1>5. ASSUME NEW x \in Offsets, x < written' PROVE file'[x] = x
  <2>1. x \in Int
    BY DEF Offsets
  <2>2. CASE x < written
    BY <2>2, <1>3, <1>4
  <2>3. CASE ~(x < written)
    <3>1. x \in written..(written + n - 1)
      BY <2>1, <2>3, <1>1, <1>3, <1>5
    <3> QED BY <3>1, <1>4
  <2> QED BY <2>2, <2>3
<1>6. total' > 0 => length'
  BY <1>2, <1>3
<1> QED BY <1>1, <1>2, <1>3, <1>4, <1>5, <1>6 DEF WholeInv, Outcome

LEMMA Unmoved ==
    ASSUME WholeInv, status' \in {status, "canceled"},
           UNCHANGED <<total, downloaded, parts, file, pc, single>>
    PROVE  WholeInv'
<1>1. Placed' /\ (Whole => Whole')
  BY DEF WholeInv, Placed, Whole
<1>2. ASSUME NEW i \in DOMAIN parts', Stored(i) PROVE Stored(i)'
  BY <1>2 DEF Stored, Need
<1>3. ASSUME NEW x \in Offsets, x < written', x < written => file[x] = x PROVE file'[x] = x
  BY <1>3
<1>4. status' = "done" => status = "done"
  OBVIOUS
<1>5. pc = "parts" => \A i \in DOMAIN parts' : Stored(i)'
  BY <1>2 DEF WholeInv, Outcome
<1> QED BY <1>1, <1>3, <1>4, <1>5 DEF WholeInv, Outcome

LEMMA RunStores ==
    ASSUME Announced \subseteq {TRUE}, TypeInv, WholeInv, RunStep
    PROVE  WholeInv'
<1> USE DEF WholeInv
<1>1. CASE RunBegins
  BY <1>1 DEF RunBegins, Goto, Placed, Outcome
<1>2. CASE Probe
  <2>1. pc = "probe" /\ pc' \in {"split", "single"}
        /\ UNCHANGED <<status, downloaded, parts, file, single>>
    BY <1>2 DEF Probe, Goto
  <2> QED BY <2>1 DEF Placed, Outcome
<1>3. CASE Fails
  BY <1>3 DEF Fails, Placed, Outcome, jobVars
<1>4. CASE Split
  <2>1. /\ pc = "split" /\ pc' = "parts" /\ UNCHANGED <<jobVars, file, single>>
        /\ parts' = [i \in 1..concurrency |-> NewPart(concurrency, i)]
        /\ total = Size /\ concurrency \in Nat \ {0}
    BY <1>4 DEF Split, Goto, TypeInv, TypeOK, Shape
  <2>2. ASSUME NEW i \in DOMAIN parts' PROVE Stored(i)'
    <3>1. /\ parts'[i].got = 0 /\ parts'[i].at = "pick" /\ ~parts'[i].whole
          /\ parts'[i].first = Chunk(concurrency, i).first /\ i \in 1..concurrency
      BY <2>1 DEF NewPart
    <3>2. parts'[i].first \in Nat
      BY <2>1, <3>1, ChunkShape
    <3> QED BY <3>1, <3>2 DEF Stored
  <2> QED BY <2>1, <2>2 DEF Placed, Outcome, jobVars
<1>5. CASE Join
  BY <1>5, JoinStores
<1>6. CASE SingleAnswered
  <2>1. /\ pc = "single" /\ pc' = "stream" /\ UNCHANGED <<jobVars, parts, file, written>>
        /\ (total > 0 => length') /\ written = 0 /\ status # "done"
    BY <1>6 DEF SingleAnswered, Goto, Outcome
  <2>2. \A x \in Offsets : ~(x < 0)
    BY DEF Offsets
  <2> QED BY <2>1, <2>2 DEF Placed, Outcome, jobVars
<1>7. CASE ReadSingle
  BY <1>7, ReadSingleStores
<1>8. CASE SingleEnds
  <2>1. /\ pc = "stream" /\ pc' = "done" /\ UNCHANGED <<jobVars, parts, file, single>>
        /\ (written = Size \/ ~length) /\ (total > 0 => length) /\ Placed /\ status # "done"
        /\ \A x \in Offsets : x < written => file[x] = x
    BY <1>8 DEF SingleEnds, Goto, Outcome
  <2>2. ASSUME total > 0, NEW x \in Offsets PROVE file[x] = IF x < Size THEN x ELSE None
    <3>1. x \in Int /\ written = Size
      BY <2>1, <2>2 DEF Offsets
    <3>2. CASE x < Size
      BY <3>1, <3>2, <2>1
    <3>3. CASE ~(x < Size)
      BY <3>1, <3>3, <2>1 DEF Placed
    <3> QED BY <3>2, <3>3
  <2>3. total > 0 => Whole
    BY <2>2 DEF Whole
  <2> QED BY <2>1, <2>3 DEF Placed, Outcome, jobVars, Whole
<1>9. CASE SetFail \/ SetCanceled \/ SetDone
  <2>1. /\ pc \in {"fail", "cancel", "done"} /\ pc' = "end" /\ UNCHANGED <<total, parts, file, single>>
        /\ status' \in {"done", "failed", "canceled"} /\ (status' = "done" => pc = "done")
    BY <1>9 DEF SetFail, SetCanceled, SetDone, Finish, Goto
  <2> QED BY <2>1 DEF Placed, Outcome, Whole
<1>10. CASE ReportSingle
  <2>1. /\ pc = "report" /\ pc' = "stream" /\ UNCHANGED <<status, parts, file, single>>
        /\ total' = (IF length THEN Size ELSE total) /\ status # "done"
    BY <1>10 DEF ReportSingle, Goto, Outcome
  <2>2. \A x \in Offsets : x < written => file[x] = x
    BY <2>1 DEF Outcome
  <2> QED BY <2>1, <2>2 DEF Placed, Outcome
<1> QED BY <1>1, <1>2, <1>3, <1>4, <1>5, <1>6, <1>7, <1>8, <1>9, <1>10 DEF RunStep

LEMMA WholeNext ==
    ASSUME Answers \subseteq {"partial"}, Announced \subseteq {TRUE}, TypeInv, WholeInv, [Next]_vars
    PROVE  WholeInv'
<1>1. ASSUME NEW request \in Requests, Start(request) PROVE WholeInv'
  <2>1. pc = "none" /\ pc' = "queued" /\ status' = "queued" /\ file' = file
        /\ downloaded' = downloaded /\ written' = written
    BY <1>1 DEF Start, Goto
  <2> QED BY <2>1 DEF WholeInv, Placed, Outcome
<1>2. CASE Cancel
  <2>1. /\ status' \in {status, "canceled"}
        /\ UNCHANGED <<total, downloaded, parts, file, pc, single>>
    BY <1>2 DEF Cancel
  <2> QED BY <2>1, Unmoved
<1>3. CASE RunStep
  BY <1>3, RunStores
<1>4. ASSUME NEW i \in DOMAIN parts, PartStep(i) PROVE WholeInv'
  BY <1>4, PartStores
<1>5. CASE Reselect \/ UNCHANGED vars
  <2>1. UNCHANGED <<status, total, downloaded, parts, file, pc, single>>
    BY <1>5 DEF Reselect, vars, jobVars
  <2> QED BY <2>1, Unmoved
<1> QED BY <1>1, <1>2, <1>3, <1>4, <1>5 DEF Next

(* "Assembled into one complete file" (README.md:23): if the server grants *)
(* ranges, and one that has told the size announces the length of a single *)
(* answer, then however parts, Reads, failures, Cancels and the end of the *)
(* job interleave, a job of known size that says done has left every byte  *)
(* of the resource in its place and no others.                             *)
THEOREM DownloadIsWhole ==
    ASSUME Answers \subseteq {"partial"}, Announced \subseteq {TRUE} PROVE Spec => []DoneIsWhole
<1> DEFINE Inv == TypeInv /\ WholeInv
<1>1. Init => Inv
  <2>1. Init => WholeInv
    BY DEF Init, WholeInv, Placed, Outcome
  <2> QED BY <2>1, InitType
<1>2. Inv /\ [Next]_vars => Inv'
  BY NextType, WholeNext
<1>3. Inv => DoneIsWhole
  BY DEF WholeInv, Outcome, Whole, DoneIsWhole
<1> QED BY <1>1, <1>2, <1>3, PTL DEF Spec
-----------------------------------------------------------------------------
(* The progress is what is on disk                                         *)

(* What the parts have written. *)
Landed(ps) == SumTo(concurrency, [k \in 1..concurrency |-> ps[k].got])

(* A part has written no byte outside its piece. *)
InPiece(x, i) == x \in parts[i].first..(parts[i].first + parts[i].got - 1)

(* A part has reported what it has written, but for a last Read. *)
Lagging(p) ==
    /\ p.done <= p.got /\ p.got <= p.done + Behind(p)
    /\ p.at = "read" => p.got = p.done
    /\ p.at = "report" => p.done < p.got

Counted ==
    /\ pc \in {"none", "queued", "probe", "split", "single"} => OnDisk = {}
    /\ pc = "parts" => /\ Cardinality(OnDisk) = Landed(parts)
                       /\ downloaded = Progress(parts)
                       /\ \A x \in OnDisk : \E i \in DOMAIN parts : InPiece(x, i)
                       /\ \A i \in DOMAIN parts : Lagging(parts[i])
    /\ pc \in {"stream", "report"} => /\ Cardinality(OnDisk) = written
                                      /\ \A x \in OnDisk : x < written
    /\ pc = "stream" => downloaded = written
    /\ pc = "report" => downloaded < written /\ written <= downloaded + MaxRead

LEMMA ChunksApart ==
    ASSUME total = Size, NEW n \in Nat \ {0}, NEW i \in 1..n, NEW k \in 1..n, i < k
    PROVE  Chunk(n, i).last < Chunk(n, k).first
<1> DEFINE c == total \div n
<1>1. c \in Nat
  BY Quotient
<1>2. Chunk(n, k).first = (k - 1) * c /\ Chunk(n, i).last = i * c - 1
  BY DEF Chunk
<1> HIDE DEF c
<1>3. i * c \in Nat /\ (k - 1) * c \in Nat /\ i * c <= (k - 1) * c
  BY <1>1, Multiples
<1> QED BY <1>2, <1>3

(* Writing n bytes where there were none adds n bytes to those on disk. *)
LEMMA WriteCounts ==
    ASSUME TypeInv, NEW n \in Nat, NEW from \in Nat, NEW at \in Nat, from + n <= Size, at + n <= Size,
           Write(n, from, at), \A x \in OnDisk : x \notin at..(at + n - 1)
    PROVE  /\ OnDisk' = OnDisk \cup at..(at + n - 1)
           /\ Cardinality(OnDisk)' = Cardinality(OnDisk) + n
<1> DEFINE New == at..(at + n - 1)
<1>1. ASSUME NEW x \in New PROVE x \in Offsets
  BY DEF Offsets
<1>2. ASSUME NEW x \in Offsets PROVE x \in OnDisk' <=> x \in OnDisk \/ x \in New
  <2>1. file'[x] = IF x \in New THEN from + (x - at) ELSE file[x]
    BY DEF Write
  <2>2. ASSUME x \in New PROVE from + (x - at) # None
    <3>1. from + (x - at) \in 0..Size
      BY <2>2
    <3> QED BY <3>1
  <2> QED BY <2>1, <2>2 DEF OnDisk
<1>3. OnDisk' = OnDisk \cup New
  BY <1>1, <1>2 DEF OnDisk
<1>4. IsFiniteSet(OnDisk)
  <2>1. IsFiniteSet(Offsets) /\ OnDisk \in SUBSET Offsets
    BY FS_Interval DEF Offsets, OnDisk
  <2> QED BY <2>1, FS_Subset
<1>5. IsFiniteSet(New) /\ Cardinality(New) = n
  <2>1. at \in Int /\ at + n - 1 \in Int
    OBVIOUS
  <2>2. /\ IsFiniteSet(at..(at + n - 1))
        /\ Cardinality(at..(at + n - 1)) = IF at > at + n - 1 THEN 0 ELSE (at + n - 1) - at + 1
    BY <2>1, FS_Interval
  <2> QED BY <2>2
<1>6. OnDisk \cap New = {} /\ Cardinality({}) = 0
  BY FS_EmptySet
<1>7. Cardinality(OnDisk \cap New) = 0
  BY <1>6, Zenon
<1> HIDE DEF New
<1>8. Cardinality(OnDisk \cup New) = Cardinality(OnDisk) + n
  <2>1. Cardinality(OnDisk) \in Nat
    BY <1>4, FS_CardinalityType
  <2>2. Cardinality(OnDisk \cup New)
          = Cardinality(OnDisk) + Cardinality(New) - Cardinality(OnDisk \cap New)
    BY <1>4, <1>5, FS_Union
  <2> QED BY <2>1, <2>2, <1>5, <1>7
<1>9. Cardinality(OnDisk)' = Cardinality(OnDisk')
  OBVIOUS
<1> QED BY <1>3, <1>8, <1>9 DEF New

(* If one term grows by n, so does the sum. *)
LEMMA OneAdvances ==
    ASSUME NEW m \in Nat, NEW i \in 1..m, NEW n \in Int, NEW f, NEW h,
           \A k \in 1..m : f[k] \in Int, h[i] = f[i] + n, \A k \in 1..m : k # i => h[k] = f[k]
    PROVE  SumTo(m, h) = SumTo(m, f) + n
<1> DEFINE g == [k \in 1..m |-> IF k = i THEN n ELSE 0]
<1>1. \A k \in 1..m : f[k] \in Int /\ g[k] \in Int /\ h[k] = f[k] + g[k]
  OBVIOUS
<1>2. g[i] = n /\ g[i] \in Int /\ \A k \in 1..m : k # i => g[k] = 0
  OBVIOUS
<1> HIDE DEF g
<1>3. SumTo(m, h) = SumTo(m, f) + SumTo(m, g)
  BY <1>1, SumAdds
<1>4. SumTo(m, g) = n
  BY <1>2, SumOfOne
<1> QED BY <1>3, <1>4

(* A part that becomes q has written n bytes more and reported d more. *)
LEMMA SumsMove ==
    ASSUME TypeInv, pc = "parts", concurrency' = concurrency, NEW i \in DOMAIN parts, NEW q,
           PartBecomes(i, q), NEW n \in Int, NEW d \in Int,
           q.got = parts[i].got + n, q.done = parts[i].done + d
    PROVE  /\ Landed(parts)' = Landed(parts) + n
           /\ Progress(parts)' = Progress(parts) + d
           /\ Progress(parts') = Progress(parts)'
<1> DEFINE m   == concurrency
           new == parts'
           fg  == [k \in 1..m |-> parts[k].got]
           hg  == [k \in 1..m |-> new[k].got]
           fd  == [k \in 1..m |-> parts[k].done]
           hd  == [k \in 1..m |-> new[k].done]
<1>1. m \in Nat /\ i \in 1..m /\ DOMAIN parts = 1..m
  BY Bodies DEF TypeInv, Shape
<1>2. ASSUME NEW k \in 1..m
      PROVE  /\ parts[k].got \in Nat /\ parts[k].done \in Nat
             /\ new[k] = IF k = i THEN q ELSE parts[k]
  BY <1>1, Bodies DEF PartBecomes
<1>3. /\ \A k \in 1..m : fg[k] \in Int
      /\ hg[i] = fg[i] + n /\ \A k \in 1..m : k # i => hg[k] = fg[k]
  BY <1>1, <1>2
<1>4. /\ \A k \in 1..m : fd[k] \in Int
      /\ hd[i] = fd[i] + d /\ \A k \in 1..m : k # i => hd[k] = fd[k]
  BY <1>1, <1>2
<1>5. /\ Landed(parts) = SumTo(m, fg) /\ Landed(parts)' = SumTo(m, hg)
      /\ Progress(parts) = SumTo(m, fd) /\ Progress(parts)' = SumTo(m, hd)
      /\ Progress(parts') = SumTo(m, hd)
  BY DEF Landed, Progress
<1> HIDE DEF m, fg, hg, fd, hd
<1>6. SumTo(m, hg) = SumTo(m, fg) + n
  BY <1>1, <1>3, OneAdvances
<1>7. SumTo(m, hd) = SumTo(m, fd) + d
  BY <1>1, <1>4, OneAdvances
<1> QED BY <1>5, <1>6, <1>7

LEMMA ReadPartCounts ==
    ASSUME TypeInv, WholeInv, Counted, NEW i \in DOMAIN parts, ReadPart(i)
    PROVE  Counted' /\ OnDisk \subseteq OnDisk' /\ OnDisk' # OnDisk
<1> DEFINE p  == parts[i]
           at == p.first + p.got
<1>1. PICK n \in 1..MaxRead, fails \in BOOLEAN :
        /\ p.got + n <= BodyLen(p)
        /\ Write(n, BodyStart(p) + p.got, at)
        /\ PartBecomes(i, [p EXCEPT !.got = @ + n, !.failed = fails,
                                    !.at = IF fails THEN "ended" ELSE "report"])
  BY DEF ReadPart
<1>2. /\ pc = "parts" /\ pc' = "parts" /\ concurrency' = concurrency
      /\ downloaded' = downloaded /\ p.at = "read"
  BY DEF ReadPart, PartAt, jobVars
<1>3. /\ p \in Part /\ p.got \in Nat /\ p.done \in Nat /\ p.first \in Nat /\ p.last \in Int /\ p.last < Size
      /\ Need(p) \in Nat /\ p.first + Need(p) <= Size /\ Stored(i) /\ InFlight(i)
      /\ total = Size /\ concurrency \in Nat \ {0} /\ DOMAIN parts = 1..concurrency
  BY <1>2, Bodies DEF WholeInv, Outcome, TypeInv, Shape
<1>4. n \in Nat /\ BodyStart(p) = p.first /\ p.got + n <= Need(p)
  BY <1>1, <1>3 DEF Stored, BodyStart, BodyLen
<1> DEFINE to == IF fails THEN "ended" ELSE "report"
           r  == [p EXCEPT !.got = @ + n, !.failed = fails, !.at = to]
<1>5. DOMAIN parts' = DOMAIN parts /\ PartBecomes(i, r)
  BY <1>1 DEF PartBecomes
<1>16. /\ r.first = p.first /\ r.got = p.got + n /\ r.done = p.done /\ r.failed = fails
       /\ r.at = to /\ (fails \/ r.at = "report") /\ r.at # "read"
  BY <1>3, <1>4 DEF Part
<1> HIDE DEF r, to
<1>6. ASSUME NEW k \in DOMAIN parts
      PROVE  /\ parts[k].got \in Nat /\ parts[k].first \in Nat
             /\ parts'[k].first = parts[k].first
             /\ parts'[k].got = parts[k].got + (IF k = i THEN n ELSE 0)
             /\ parts'[k] = IF k = i THEN r ELSE parts[k]
  <2>1. parts[k] \in Part
    BY <1>2, Bodies
  <2>2. parts' = [parts EXCEPT ![i] = r]
    BY <1>5 DEF PartBecomes
  <2> QED BY <2>1, <2>2, <1>4, <1>16 DEF Part, p
<1> HIDE DEF p
<1>7. ASSUME NEW x \in OnDisk PROVE x \notin at..(at + n - 1)
  <2> SUFFICES ASSUME x \in at..(at + n - 1) PROVE FALSE
    OBVIOUS
  <2>1. PICK k \in DOMAIN parts : InPiece(x, k)
    BY <1>2 DEF Counted
  <2>2. /\ x \in Int /\ x >= p.first + p.got /\ x <= p.first + p.got + n - 1
        /\ x <= p.last /\ x >= p.first
    <3>1. x \in Int /\ x >= p.first + p.got /\ x <= p.first + p.got + n - 1
      BY <1>3, <1>4
    <3>2. Need(p) = p.last - p.first + 1 /\ p.got + n <= Need(p)
      BY <1>4 DEF Need
    <3>3. p.first \in Nat /\ p.got \in Nat /\ p.last \in Int /\ n \in Nat
      BY <1>3, <1>4
    <3> QED BY <3>1, <3>2, <3>3
  <2>3. /\ parts[k].first \in Nat /\ parts[k].last \in Int /\ parts[k].got \in Nat
        /\ InFlight(k) /\ Stored(k) /\ Need(parts[k]) = parts[k].last - parts[k].first + 1
    BY <1>2, Bodies DEF WholeInv, Outcome, Need
  <2>4. x >= parts[k].first /\ x <= parts[k].first + parts[k].got - 1
    BY <2>1, <2>2, <2>3 DEF InPiece
  <2>5. x <= parts[k].last
    <3>1. parts[k].got <= Need(parts[k])
      BY <2>3 DEF InFlight, Stored, BodyLen
    <3> QED BY <3>1, <2>2, <2>3, <2>4
  <2>6. CASE k = i
    BY <2>2, <2>4, <2>6, <1>3 DEF p
  <2>7. CASE k < i
    <3>1. parts[k].last < p.first
      BY <2>3, <2>7, <1>3, ChunksApart DEF InFlight, p
    <3> QED BY <3>1, <2>2, <2>3, <2>5, <1>3
  <2>8. CASE i < k
    <3>1. p.last < parts[k].first
      BY <2>3, <2>8, <1>3, ChunksApart DEF InFlight, p
    <3> QED BY <3>1, <2>2, <2>3, <2>4, <1>3, SMTT(30)
  <2> QED BY <2>6, <2>7, <2>8, <1>3
<1>8. at \in Nat /\ at + n <= Size /\ Write(n, at, at)
  BY <1>1, <1>3, <1>4
<1> HIDE DEF at
<1>9. OnDisk' = OnDisk \cup at..(at + n - 1) /\ Cardinality(OnDisk)' = Cardinality(OnDisk) + n
  BY <1>4, <1>7, <1>8, WriteCounts
<1>10. Landed(parts)' = Landed(parts) + n /\ Progress(parts)' = Progress(parts)
  <2>1. r.got = parts[i].got + n /\ r.done = parts[i].done + 0
    BY <1>3, <1>16 DEF p
  <2>2. Landed(parts)' = Landed(parts) + n /\ Progress(parts)' = Progress(parts) + 0
    BY <2>1, <1>2, <1>4, <1>5, SumsMove
  <2>3. Progress(parts) \in Nat
    BY <1>2, <1>3, Bodies, ProgressType
  <2> QED BY <2>2, <2>3
<1>11. ASSUME NEW k \in DOMAIN parts' PROVE Lagging(parts[k])'
  <2>1. k \in DOMAIN parts /\ Lagging(parts[k]) /\ Lagging(p)
    BY <1>2, <1>5 DEF Counted, p
  <2>2. CASE k # i
    BY <2>1, <2>2, <1>6 DEF Lagging, Behind
  <2>3. CASE k = i
    <3>1. p.got = p.done
      BY <2>1, <1>2 DEF Lagging
    <3>2. Behind(r) = MaxRead
      BY <1>16 DEF Behind
    <3>3. r.done < r.got /\ r.got <= r.done + MaxRead
      BY <3>1, <1>3, <1>4, <1>16
    <3>4. Lagging(r)
      BY <3>2, <3>3, <1>3, <1>4, <1>16 DEF Lagging
    <3> QED BY <2>3, <3>4, <1>6 DEF Lagging, Behind
  <2> QED BY <2>2, <2>3
<1>12. ASSUME NEW x \in OnDisk' PROVE \E k \in DOMAIN parts' : InPiece(x, k)'
  <2>1. CASE x \in OnDisk
    <3>1. PICK k \in DOMAIN parts : InPiece(x, k)
      BY <2>1, <1>2 DEF Counted
    <3>2. InPiece(x, k)'
      BY <3>1, <1>4, <1>6 DEF InPiece
    <3> QED BY <3>2, <1>5
  <2>2. CASE x \in at..(at + n - 1)
    <3>1. InPiece(x, i)'
      BY <2>2, <1>3, <1>4, <1>6, SMTT(30) DEF InPiece, at, p
    <3> QED BY <3>1, <1>5
  <2> QED BY <2>1, <2>2, <1>9
<1>13. Cardinality(OnDisk)' = Landed(parts)' /\ downloaded' = Progress(parts)'
  BY <1>2, <1>9, <1>10 DEF Counted
<1>14. Counted'
  BY <1>2, <1>11, <1>12, <1>13 DEF Counted
<1>15. at \in at..(at + n - 1)
  BY <1>8
<1> QED BY <1>7, <1>9, <1>14, <1>15

(* A report shows more, and what it shows is on disk. *)
LEMMA ReportCounts ==
    ASSUME TypeInv, WholeInv, Counted, NEW i \in DOMAIN parts, Report(i)
    PROVE  Counted' /\ OnDisk' = OnDisk /\ downloaded' > downloaded
<1> DEFINE p == parts[i]
           r == [p EXCEPT !.at = "read", !.done = p.got]
           d == p.got - p.done
<1>1. /\ pc = "parts" /\ p.at = "report" /\ PartBecomes(i, r) /\ downloaded' = Progress(parts')
      /\ UNCHANGED <<concurrency, file, pc, single>>
  BY DEF Report, PartAt
<1>2. /\ p \in Part /\ p.got \in Nat /\ p.done \in Nat /\ Lagging(p)
      /\ concurrency \in Nat /\ DOMAIN parts = 1..concurrency
  BY <1>1, Bodies DEF Counted, TypeInv, Shape
<1>3. r.first = p.first /\ r.got = p.got /\ r.done = p.got /\ r.at = "read" /\ r.failed = p.failed
  BY <1>2 DEF Part
<1>4. p.done < p.got
  BY <1>1, <1>2 DEF Lagging
<1> HIDE DEF p, r
<1>5. /\ DOMAIN parts' = DOMAIN parts
      /\ \A k \in DOMAIN parts : parts'[k] = IF k = i THEN r ELSE parts[k]
  BY <1>1 DEF PartBecomes
<1>6. OnDisk' = OnDisk
  BY <1>1 DEF OnDisk
<1>7. /\ Landed(parts)' = Landed(parts) + 0 /\ Progress(parts)' = Progress(parts) + d
      /\ Progress(parts') = Progress(parts)'
  <2>1. /\ r.got = parts[i].got + 0 /\ r.done = parts[i].done + d /\ d \in Int
    BY <1>2, <1>3 DEF p
  <2> HIDE DEF d
  <2> QED BY <2>1, <1>1, SumsMove
<1>8. Lagging(r)
  BY <1>2, <1>3 DEF Lagging, Behind
<1>9. \A k \in DOMAIN parts' : Lagging(parts[k])'
  BY <1>1, <1>5, <1>8 DEF Counted, Lagging, Behind
<1>10. \A x \in OnDisk' : \E k \in DOMAIN parts' : InPiece(x, k)'
  <2>1. \A x, k : k \in DOMAIN parts => (InPiece(x, k) => InPiece(x, k)')
    BY <1>3, <1>5 DEF InPiece, p
  <2> QED BY <2>1, <1>1, <1>5, <1>6 DEF Counted
<1>11. Cardinality(OnDisk)' = Cardinality(OnDisk) /\ Cardinality(OnDisk) \in Nat
  <2>1. IsFiniteSet(OnDisk)
    <3>1. IsFiniteSet(Offsets) /\ OnDisk \in SUBSET Offsets
      BY FS_Interval DEF Offsets, OnDisk
    <3> QED BY <3>1, FS_Subset
  <2> QED BY <2>1, <1>6, FS_CardinalityType
<1>12. Progress(parts) \in Nat /\ d \in Nat /\ d > 0
  <2>1. Progress(parts) \in Nat
    BY <1>1, <1>2, Bodies, ProgressType
  <2> QED BY <2>1, <1>2, <1>4
<1>13. Cardinality(OnDisk)' = Landed(parts)' /\ downloaded' = Progress(parts)'
  BY <1>1, <1>7, <1>11 DEF Counted
<1>14. Counted'
  BY <1>1, <1>9, <1>10, <1>13 DEF Counted
<1> HIDE DEF d
<1>15. downloaded' > downloaded
  BY <1>1, <1>7, <1>12 DEF Counted
<1> QED BY <1>6, <1>14, <1>15

(* A part that does neither keeps its first offset and what it has. *)
LEMMA PartCounts ==
    ASSUME TypeInv, WholeInv, Counted, NEW i \in DOMAIN parts, PartStep(i)
    PROVE  Counted'
<1>1. pc = "parts"
  BY DEF PartStep, PickAdapter, Answered, ReadPart, Report, PartEnds, PartFails, PartAt
<1>2. ASSUME ~ReadPart(i), ~Report(i) PROVE Counted'
  <2>1. UNCHANGED <<concurrency, downloaded, file, pc>>
    BY <1>2 DEF PartStep, PickAdapter, Answered, PartEnds, PartFails, jobVars
  <2> DEFINE p == parts[i]
             Keeps(q) == q.first = p.first /\ q.got = p.got /\ q.done = p.done /\ Lagging(q)
  <2>2. /\ p \in Part /\ p.got \in Nat /\ p.done \in Nat /\ InFlight(i) /\ Lagging(p)
        /\ concurrency \in Nat /\ DOMAIN parts = 1..concurrency
    BY <1>1, Bodies DEF Counted, TypeInv, Shape
  <2>3. p.at \in {"request", "read"} => p.got = p.done
    BY <2>2 DEF Lagging, InFlight
  <2>4. ASSUME PickAdapter(i) PROVE \E to : PartBecomes(i, to) /\ Keeps(to)
    <3> DEFINE o == IF selection = <<>> THEN None ELSE selection[((i - 1) % Len(selection)) + 1]
               q == [p EXCEPT !.at = "request", !.on = o]
    <3>1. PartBecomes(i, q) /\ p.at = "pick"
      BY <2>4 DEF PickAdapter, PartAt
    <3> HIDE DEF o
    <3>2. Keeps(q)
      BY <2>2, <3>1 DEF Part, Lagging, Behind
    <3> HIDE DEF q, Keeps
    <3> QED BY <3>1, <3>2
  <2>5. ASSUME Answered(i) PROVE \E to : PartBecomes(i, to) /\ Keeps(to)
    <3>1. PICK answer \in Answers :
            PartBecomes(i, [p EXCEPT !.at = "read", !.whole = (answer = "whole")])
      BY <2>5 DEF Answered
    <3> DEFINE w == (answer = "whole")
               q == [p EXCEPT !.at = "read", !.whole = w]
    <3>2. PartBecomes(i, q) /\ p.at = "request"
      BY <2>5, <3>1 DEF Answered, PartAt
    <3> HIDE DEF w
    <3>3. Keeps(q)
      BY <2>2, <2>3, <3>2 DEF Part, Lagging, Behind
    <3> HIDE DEF q, Keeps
    <3> QED BY <3>2, <3>3
  <2>6. ASSUME PartEnds(i) PROVE \E to : PartBecomes(i, to) /\ Keeps(to)
    <3> DEFINE q == [p EXCEPT !.at = "ended"]
    <3>1. PartBecomes(i, q) /\ p.at = "read"
      BY <2>6 DEF PartEnds, PartAt
    <3>2. Keeps(q)
      BY <2>2, <2>3, <3>1 DEF Part, Lagging, Behind
    <3> HIDE DEF q, Keeps
    <3> QED BY <3>1, <3>2
  <2>7. ASSUME PartFails(i) PROVE \E to : PartBecomes(i, to) /\ Keeps(to)
    <3> DEFINE q == [p EXCEPT !.at = "ended", !.failed = TRUE]
    <3>1. PartBecomes(i, q) /\ p.at \in {"request", "read"}
      BY <2>7 DEF PartFails, PartAt
    <3>2. Keeps(q)
      BY <2>2, <2>3, <3>1 DEF Part, Lagging, Behind
    <3> HIDE DEF q, Keeps
    <3> QED BY <3>1, <3>2
  <2> HIDE DEF Keeps
  <2>8. PICK q : PartBecomes(i, q) /\ Keeps(q)
    BY <2>4, <2>5, <2>6, <2>7, <1>2 DEF PartStep
  <2>9. /\ DOMAIN parts' = DOMAIN parts
        /\ \A k \in DOMAIN parts : parts'[k] = IF k = i THEN q ELSE parts[k]
    BY <2>8 DEF PartBecomes
  <2>10. Landed(parts)' = Landed(parts) /\ Progress(parts)' = Progress(parts)
    <3> DEFINE new == parts'
    <3>1. \A k \in 1..concurrency : new[k].got = parts[k].got /\ new[k].done = parts[k].done
      BY <2>2, <2>8, <2>9 DEF Keeps
    <3>2. /\ [k \in 1..concurrency |-> new[k].got] = [k \in 1..concurrency |-> parts[k].got]
          /\ [k \in 1..concurrency |-> new[k].done] = [k \in 1..concurrency |-> parts[k].done]
      BY <3>1
    <3>3. /\ Landed(parts)' = SumTo(concurrency, [k \in 1..concurrency |-> new[k].got])
          /\ Progress(parts)' = SumTo(concurrency, [k \in 1..concurrency |-> new[k].done])
      BY <2>1 DEF Landed, Progress
    <3> HIDE DEF new
    <3> QED BY <3>2, <3>3 DEF Landed, Progress
  <2>11. OnDisk' = OnDisk
    BY <2>1 DEF OnDisk
  <2>12. Cardinality(OnDisk)' = Cardinality(OnDisk)
    BY <2>11
  <2>13. \A x, k : k \in DOMAIN parts => (InPiece(x, k) => InPiece(x, k)')
    BY <2>8, <2>9 DEF InPiece, Keeps
  <2>14. \A k \in DOMAIN parts' : Lagging(parts[k])'
    BY <1>1, <2>8, <2>9 DEF Counted, Lagging, Behind, Keeps
  <2> QED BY <1>1, <2>1, <2>9, <2>10, <2>11, <2>12, <2>13, <2>14 DEF Counted
<1> QED BY <1>2, ReadPartCounts, ReportCounts

(* A step that leaves the file and the progress alone. *)
LEMMA QuietCounts ==
    ASSUME Counted, UNCHANGED <<concurrency, downloaded, parts, file>>,
           pc' \in {"queued", "probe", "split", "single"} =>
               pc \in {"none", "queued", "probe", "split", "single"},
           pc' \in {"none", "parts", "stream", "report"} => pc' = pc /\ written' = written
    PROVE  Counted'
<1>1. OnDisk' = OnDisk /\ Progress(parts)' = Progress(parts) /\ Landed(parts)' = Landed(parts)
  BY DEF OnDisk, Progress, Landed
<1>2. Cardinality(OnDisk)' = Cardinality(OnDisk)
  BY <1>1
<1>3. \A x, i : InPiece(x, i)' = InPiece(x, i)
  BY DEF InPiece
<1>4. \A i : Lagging(parts[i])' = Lagging(parts[i])
  BY DEF Lagging, Behind
<1> QED BY <1>1, <1>2, <1>3, <1>4 DEF Counted

LEMMA ReadSingleCounts ==
    ASSUME TypeInv, WholeInv, Counted, ReadSingle
    PROVE  Counted' /\ OnDisk \subseteq OnDisk' /\ OnDisk' # OnDisk
<1>1. PICK n \in 1..MaxRead :
        written + n <= Size /\ Write(n, written, written) /\ written' = written + n
  BY DEF ReadSingle
<1>2. /\ pc = "stream" /\ pc' \in {"report", "fail"} /\ written \in Nat /\ n \in Nat
      /\ downloaded' = downloaded /\ downloaded = written
  BY DEF ReadSingle, TypeInv, TypeOK, Counted, jobVars
<1>3. \A x \in OnDisk : x < written
  BY <1>2 DEF Counted
<1>4. \A x \in OnDisk : x \notin written..(written + n - 1)
  BY <1>2, <1>3 DEF OnDisk, Offsets
<1>5. /\ OnDisk' = OnDisk \cup written..(written + n - 1)
      /\ Cardinality(OnDisk)' = Cardinality(OnDisk) + n
  BY <1>1, <1>2, <1>4, WriteCounts
<1>6. ASSUME NEW x \in OnDisk' PROVE x < written'
  <2>1. x \in Int
    BY DEF OnDisk, Offsets
  <2> QED BY <2>1, <1>1, <1>2, <1>3, <1>5
<1>7. downloaded' < written' /\ written' <= downloaded' + MaxRead
  BY <1>1, <1>2
<1>8. Counted'
  BY <1>1, <1>2, <1>5, <1>6, <1>7 DEF Counted
<1>9. written \in written..(written + n - 1)
  BY <1>2
<1> QED BY <1>4, <1>5, <1>8, <1>9

LEMMA ReportSingleCounts ==
    ASSUME Counted, ReportSingle
    PROVE  Counted' /\ OnDisk' = OnDisk /\ downloaded' > downloaded /\ downloaded' = Cardinality(OnDisk)
<1>1. pc = "report" /\ pc' = "stream" /\ downloaded' = written /\ UNCHANGED <<parts, file, single>>
  BY DEF ReportSingle, Goto
<1>2. OnDisk' = OnDisk
  BY <1>1 DEF OnDisk
<1>3. Cardinality(OnDisk)' = Cardinality(OnDisk)
  BY <1>2
<1> QED BY <1>1, <1>2, <1>3 DEF Counted

LEMMA RunCounts == ASSUME TypeInv, WholeInv, Counted, RunStep PROVE Counted'
<1>1. CASE RunBegins \/ Probe \/ Fails \/ Join \/ SingleEnds \/ SetFail \/ SetCanceled
  <2>1. /\ UNCHANGED <<concurrency, downloaded, parts, file>>
        /\ pc' \in {"queued", "probe", "split", "single"} =>
               pc \in {"none", "queued", "probe", "split", "single"}
        /\ pc' \notin {"none", "parts", "stream", "report"}
    BY <1>1 DEF RunBegins, Probe, Fails, Join, SingleEnds, SetFail, SetCanceled, Finish, Goto, jobVars
  <2> QED BY <2>1, QuietCounts
<1>2. CASE SetDone
  BY <1>2 DEF SetDone, Finish, Goto, Counted
<1>3. CASE Split \/ SingleAnswered
  <2>1. /\ pc \in {"split", "single"} /\ UNCHANGED <<concurrency, downloaded, file>>
        /\ downloaded = 0 /\ written = 0 /\ written' = 0 /\ OnDisk = {}
        /\ pc' \in {"parts", "stream"}
    BY <1>3 DEF Split, SingleAnswered, Goto, jobVars, WholeInv, Outcome, Counted
  <2>2. OnDisk' = {} /\ Cardinality(OnDisk)' = 0
    <3>1. OnDisk' = {}
      BY <2>1 DEF OnDisk
    <3> QED BY <3>1, FS_EmptySet
  <2>3. pc' = "parts" => /\ Progress(parts)' = 0 /\ Landed(parts)' = 0
                         /\ \A i \in DOMAIN parts' : Lagging(parts[i])'
    <3> SUFFICES ASSUME pc' = "parts"
                 PROVE  /\ Progress(parts)' = 0 /\ Landed(parts)' = 0
                        /\ \A i \in DOMAIN parts' : Lagging(parts[i])'
      OBVIOUS
    <3>1. /\ concurrency' = concurrency /\ concurrency \in Nat
          /\ parts' = [i \in 1..concurrency |-> NewPart(concurrency, i)]
      BY <1>3 DEF Split, SingleAnswered, Goto, jobVars, TypeInv, TypeOK
    <3> DEFINE f == [k \in 1..concurrency |-> parts'[k].done]
               g == [k \in 1..concurrency |-> parts'[k].got]
    <3>2. \A k \in 1..concurrency : f[k] = 0 /\ g[k] = 0
      BY <3>1 DEF NewPart
    <3>3. Progress(parts)' = SumTo(concurrency, f) /\ Landed(parts)' = SumTo(concurrency, g)
      BY <3>1 DEF Progress, Landed
    <3>4. \A i \in DOMAIN parts' : Lagging(parts[i])'
      BY <3>1 DEF NewPart, Lagging, Behind
    <3> HIDE DEF f, g
    <3>5. SumTo(concurrency, f) = 0 /\ SumTo(concurrency, g) = 0
      BY <3>1, <3>2, SumOfNone
    <3> QED BY <3>3, <3>4, <3>5
  <2> QED BY <2>1, <2>2, <2>3 DEF Counted
<1>4. CASE ReadSingle
  BY <1>4, ReadSingleCounts
<1>5. CASE ReportSingle
  BY <1>5, ReportSingleCounts
<1> QED BY <1>1, <1>2, <1>3, <1>4, <1>5 DEF RunStep

LEMMA JobInit == Init => TypeInv /\ WholeInv /\ Counted
<1> SUFFICES ASSUME Init PROVE WholeInv /\ Counted
  BY InitType
<1>1. /\ pc = "none" /\ status = "none" /\ downloaded = 0 /\ written = 0
      /\ file = [x \in Offsets |-> None]
  BY DEF Init
<1> QED BY <1>1 DEF WholeInv, Placed, Outcome, Counted, OnDisk

LEMMA CountedNext ==
    ASSUME Answers \subseteq {"partial"}, Announced \subseteq {TRUE}, TypeInv, WholeInv, Counted, [Next]_vars
    PROVE  Counted'
<1>1. ASSUME NEW request \in Requests, Start(request) PROVE Counted'
  <2>1. pc = "none" /\ pc' = "queued" /\ UNCHANGED file
    BY <1>1 DEF Start, Goto
  <2> QED BY <2>1 DEF Counted, OnDisk
<1>2. CASE Cancel \/ Reselect \/ UNCHANGED vars
  <2>1. UNCHANGED <<concurrency, downloaded, parts, file, pc, single>>
    BY <1>2 DEF Cancel, Reselect, vars, jobVars
  <2> QED BY <2>1, QuietCounts
<1>3. CASE RunStep
  BY <1>3, RunCounts
<1>4. ASSUME NEW i \in DOMAIN parts, PartStep(i) PROVE Counted'
  BY <1>4, PartCounts
<1> QED BY <1>1, <1>2, <1>3, <1>4 DEF Next

(* The sum of the reports is at most that of the writes, which is at most  *)
(* one Read more for each part that has one to report or has failed.       *)
LEMMA SumsLag ==
    ASSUME TypeInv, Counted, pc = "parts"
    PROVE  /\ downloaded \in Nat /\ Cardinality(OnDisk) \in Int /\ Lag \in Int
           /\ downloaded <= Cardinality(OnDisk) /\ Cardinality(OnDisk) <= downloaded + Lag
<1> DEFINE m == concurrency
           f == [k \in 1..m |-> parts[k].done]
           g == [k \in 1..m |-> parts[k].got]
           b == [k \in 1..m |-> Behind(parts[k])]
           h == [k \in 1..m |-> f[k] + b[k]]
<1>1. m \in Nat /\ DOMAIN parts = 1..m
  BY DEF TypeInv, TypeOK, Shape
<1>2. ASSUME NEW k \in 1..m
      PROVE  /\ f[k] \in Int /\ g[k] \in Int /\ b[k] \in Int /\ h[k] \in Int
             /\ h[k] = f[k] + b[k] /\ f[k] <= g[k] /\ g[k] <= h[k]
  <2>1. parts[k].done \in Nat /\ parts[k].got \in Nat /\ Lagging(parts[k])
    BY <1>1, Bodies DEF Counted
  <2>2. Behind(parts[k]) \in Int
    BY DEF Behind
  <2>3. f[k] = parts[k].done /\ g[k] = parts[k].got /\ b[k] = Behind(parts[k]) /\ h[k] = f[k] + b[k]
    OBVIOUS
  <2> HIDE DEF f, g, b, h
  <2> QED BY <2>1, <2>2, <2>3 DEF Lagging
<1>3. /\ downloaded = SumTo(m, f) /\ Cardinality(OnDisk) = SumTo(m, g) /\ Lag = SumTo(m, b)
  BY DEF Counted, Progress, Landed, Lag
<1> HIDE DEF m, f, g, b, h
<1>4. /\ SumTo(m, f) \in Int /\ SumTo(m, g) \in Int /\ SumTo(m, b) \in Int
      /\ SumTo(m, f) <= SumTo(m, g) /\ SumTo(m, g) <= SumTo(m, h)
  BY <1>1, <1>2, SumType, SumGrows
<1>5. SumTo(m, h) = SumTo(m, f) + SumTo(m, b)
  <2>1. \A k \in 1..m : f[k] \in Int /\ b[k] \in Int /\ h[k] = f[k] + b[k]
    BY <1>2
  <2> QED BY <2>1, <1>1, SumAdds
<1> QED BY <1>3, <1>4, <1>5 DEF TypeInv, TypeOK

(* If the server grants ranges, and one that has told the size announces   *)
(* the length of a single answer, then however parts, their writes and     *)
(* their reports interleave, the progress that is shown is never more than *)
(* the number of bytes on disk, and less by no more than one Read for each *)
(* report that is on its way and each part that has failed.                *)
THEOREM ProgressIsTrue ==
    ASSUME Answers \subseteq {"partial"}, Announced \subseteq {TRUE}
    PROVE  Spec => []ProgressIsOnDisk
<1> DEFINE Inv == TypeInv /\ WholeInv /\ Counted
<1>1. Inv /\ [Next]_vars => Inv'
  BY NextType, WholeNext, CountedNext
<1>2. Inv => ProgressIsOnDisk
  <2> SUFFICES ASSUME Inv, pc \in {"parts", "stream", "report"}
               PROVE  Cardinality(OnDisk) \in downloaded..(downloaded + Lag)
    BY DEF ProgressIsOnDisk
  <2>1. CASE pc = "parts"
    BY <2>1, SumsLag
  <2>2. CASE pc # "parts"
    BY <2>2 DEF Counted, Lag, TypeInv, TypeOK
  <2> QED BY <2>1, <2>2
<1> QED BY JobInit, <1>1, <1>2, PTL DEF Spec
-----------------------------------------------------------------------------
(* The end is final                                                        *)

Over == finished => pc = "end" /\ status \in {"done", "failed", "canceled"}

LEMMA FinishedStays == Over /\ [Next]_vars /\ finished => UNCHANGED <<status, finished, downloaded, file, pc>>
<1> SUFFICES ASSUME Over, [Next]_vars, finished PROVE UNCHANGED <<status, finished, downloaded, file, pc>>
  OBVIOUS
<1>1. pc = "end" /\ status \notin {"running", "queued"}
  BY DEF Over
<1>2. ~RunStep /\ \A request \in Requests : ~Start(request)
  BY <1>1 DEF RunStep, RunBegins, Probe, Fails, Split, Join, SingleAnswered, ReadSingle, ReportSingle,
              SingleEnds, SetFail, SetCanceled, SetDone, Finish, Start, Goto
<1>3. \A i \in DOMAIN parts : ~PartStep(i)
  BY <1>1 DEF PartStep, PickAdapter, Answered, ReadPart, Report, PartEnds, PartFails, PartAt
<1>4. Cancel \/ Reselect \/ UNCHANGED vars
  BY <1>2, <1>3 DEF Next
<1> QED BY <1>1, <1>4 DEF Cancel, Reselect, vars, jobVars

LEMMA OverNext == Over /\ [Next]_vars => Over'
<1> SUFFICES ASSUME Over, [Next]_vars, ~finished, finished' PROVE Over'
  BY FinishedStays DEF Over
<1>1. SetFail \/ SetCanceled \/ SetDone
  BY DEF Next, Start, Cancel, RunStep, RunBegins, Probe, Fails, Split, Join, SingleAnswered, ReadSingle,
         ReportSingle, SingleEnds, PartStep, PickAdapter, Answered, ReadPart, Report, PartEnds, PartFails, Reselect, vars, jobVars
<1> QED BY <1>1 DEF SetFail, SetCanceled, SetDone, Finish, Goto, Over

(* No late Cancel, and no part that is still in flight, changes what a     *)
(* user sees of a job that has finished.                                   *)
THEOREM EndIsFinal == Spec => FinishedIsFinal
<1>1. Init => Over
  BY DEF Init, Over
<1>2. Over /\ [Next]_vars => [finished => UNCHANGED <<status, finished, downloaded, file>>]_vars
  BY FinishedStays
<1> QED BY <1>1, OverNext, <1>2, PTL DEF Spec, FinishedIsFinal
-----------------------------------------------------------------------------
(* A download is a job                                                     *)

(* What the user is told fits what the job's goroutine is about to do. *)
Told ==
    /\ pc # "none" /\ ~finished => status \in {"queued", "running", "canceled"}
    /\ pc = "cancel" => cancelled

JobInv == TypeInv /\ WholeInv /\ Counted /\ Over /\ Told

Sight    == <<Stage, status, cancelled, total, Got, downloaded>>
Promised == [Promise!Next]_Sight

LEMMA SameCount == \A S : Promise!Cardinality(S) = Cardinality(S)
  BY DEF Promise!Cardinality, Cardinality

LEMMA ToldNext == Told /\ Over /\ [Next]_vars => Told'
<1> SUFFICES ASSUME Told, Over, [Next]_vars PROVE Told'
  OBVIOUS
<1>1. ASSUME NEW request \in Requests, Start(request) PROVE Told'
  BY <1>1 DEF Start, Goto, Told
<1>2. CASE Cancel
  BY <1>2 DEF Cancel, Told
<1>3. CASE RunBegins \/ Probe \/ Fails \/ Split \/ Join
  BY <1>3 DEF RunBegins, Probe, Fails, Split, Join, Goto, jobVars, Told
<1>4. CASE SingleAnswered \/ ReadSingle \/ ReportSingle \/ SingleEnds
  BY <1>4 DEF SingleAnswered, ReadSingle, ReportSingle, SingleEnds, Goto, jobVars, Told
<1>5. CASE SetFail \/ SetCanceled \/ SetDone
  BY <1>5 DEF SetFail, SetCanceled, SetDone, Finish, Goto, Told
<1>6. ASSUME NEW i \in DOMAIN parts, PartStep(i) PROVE Told'
  BY <1>6 DEF PartStep, PickAdapter, Answered, ReadPart, Report, PartEnds, PartFails, jobVars, Told
<1>7. CASE Reselect \/ UNCHANGED vars
  BY <1>7 DEF Reselect, vars, jobVars, Told
<1> QED BY <1>1, <1>2, <1>3, <1>4, <1>5, <1>6, <1>7 DEF Next, RunStep

(* As no byte is out of its place, a byte is in its place if it is there. *)
LEMMA GotIsOnDisk ==
    ASSUME TypeInv, Placed
    PROVE  Got = OnDisk /\ Got \subseteq 0..(Size - 1)
<1>1. ASSUME NEW x \in Got PROVE x \in OnDisk
  BY <1>1 DEF Got, OnDisk, Offsets
<1>2. ASSUME NEW x \in OnDisk PROVE x \in Got
  BY <1>2 DEF Got, OnDisk, Offsets, Placed
<1> QED BY <1>1, <1>2 DEF Got

(* What a Read brings was not in the file before. *)
LEMMA ReadFetches ==
    ASSUME TypeInv, TypeInv', Placed, Placed', OnDisk \subseteq OnDisk', OnDisk' # OnDisk,
           pc \notin {"none", "queued"}, pc' \notin {"none", "queued"}, ~finished,
           UNCHANGED jobVars
    PROVE  Promise!Fetch
<1>1. Got = OnDisk /\ Got' = OnDisk' /\ Got' \subseteq 0..(Size - 1)
  <2>1. (Got = OnDisk /\ Got \subseteq 0..(Size - 1))'
    BY GotIsOnDisk, PTL
  <2> QED BY <2>1, GotIsOnDisk
<1>2. Stage = "running" /\ Stage' = "running"
  BY DEF Stage, jobVars
<1> DEFINE new == Got' \ Got
<1>3. new \in SUBSET (0..(Size - 1) \ Got) /\ new # {} /\ Got' = Got \cup new
  BY <1>1
<1> HIDE DEF new
<1> QED BY <1>2, <1>3 DEF Promise!Fetch, Promise!Bytes, jobVars

(* What a report shows is more, and there. *)
LEMMA ReportShows ==
    ASSUME TypeInv, TypeInv', Placed, OnDisk' = OnDisk, file' = file,
           downloaded' > downloaded, downloaded' <= Cardinality(OnDisk),
           pc \notin {"none", "queued"}, pc' \notin {"none", "queued"}, ~finished,
           total' \in {total, Size}, UNCHANGED <<status, cancelled, finished>>
    PROVE  Promise!Report
<1>1. Got = OnDisk /\ Got' = Got
  BY GotIsOnDisk DEF Got
<1>2. Stage = "running" /\ Stage' = "running"
  BY DEF Stage
<1>3. Cardinality(OnDisk) \in Nat
  <2>1. IsFiniteSet(Offsets) /\ OnDisk \in SUBSET Offsets
    BY FS_Interval DEF Offsets, OnDisk
  <2> QED BY <2>1, FS_Subset, FS_CardinalityType
<1>4. downloaded' \in (downloaded + 1)..Promise!Cardinality(Got)
  <2>1. downloaded \in Nat /\ downloaded' \in Nat
    BY DEF TypeInv, TypeOK
  <2>2. downloaded' \in (downloaded + 1)..Cardinality(OnDisk)
    BY <2>1, <1>3
  <2> QED BY <2>2, <1>1, SameCount
<1> QED BY <1>1, <1>2, <1>4 DEF Promise!Report

(* A step that neither writes nor changes what the user is told. *)
LEMMA HiddenStep ==
    ASSUME UNCHANGED <<jobVars, file>>, Stage' = Stage
    PROVE  Promised
  BY DEF Promised, Sight, Got, jobVars

LEMMA ShownIsThere == TypeInv /\ Counted /\ pc = "parts" => downloaded <= Cardinality(OnDisk)
  BY SumsLag

LEMMA PartPromised ==
    ASSUME JobInv, TypeInv', WholeInv', NEW i \in DOMAIN parts, PartStep(i)
    PROVE  Promised
<1>1. pc = "parts" /\ pc' = "parts" /\ UNCHANGED finished
  BY DEF PartStep, PickAdapter, Answered, ReadPart, Report, PartEnds, PartFails, PartAt, jobVars
<1>2. CASE ReadPart(i)
  <2>1. OnDisk \subseteq OnDisk' /\ OnDisk' # OnDisk /\ UNCHANGED jobVars
    BY <1>2, ReadPartCounts DEF JobInv, ReadPart
  <2>2. Promise!Fetch
    BY <1>1, <2>1, ReadFetches DEF JobInv, WholeInv, Over
  <2> QED BY <2>2 DEF Promised, Promise!Next
<1>3. CASE Report(i)
  <2>1. Counted' /\ OnDisk' = OnDisk /\ downloaded' > downloaded
    BY <1>3, ReportCounts DEF JobInv
  <2>2. downloaded' <= Cardinality(OnDisk)
    <3>1. Cardinality(OnDisk)' = Cardinality(OnDisk)
      BY <2>1
    <3>2. (TypeInv /\ Counted /\ pc = "parts" => downloaded <= Cardinality(OnDisk))'
      BY ShownIsThere, PTL
    <3> QED BY <3>1, <3>2, <2>1, <1>1
  <2>3. UNCHANGED <<file, status, cancelled, finished, total>>
    BY <1>3 DEF Report
  <2>4. Promise!Report
    BY <1>1, <2>1, <2>2, <2>3, ReportShows DEF JobInv, WholeInv, Over
  <2> QED BY <2>4 DEF Promised, Promise!Next
<1>4. CASE ~ReadPart(i) /\ ~Report(i)
  <2>1. UNCHANGED <<jobVars, file>>
    BY <1>4 DEF PartStep, PickAdapter, Answered, PartEnds, PartFails
  <2>2. Stage' = Stage
    BY <1>1 DEF Stage
  <2> QED BY <2>1, <2>2, HiddenStep
<1> QED BY <1>2, <1>3, <1>4

LEMMA EndPromised ==
    ASSUME JobInv, SetFail \/ SetCanceled \/ SetDone
    PROVE  Promised
<1>1. /\ pc \in {"fail", "cancel", "done"} /\ ~finished /\ finished'
      /\ UNCHANGED <<cancelled, total, file>>
  BY DEF SetFail, SetCanceled, SetDone, Finish, Goto, JobInv, Over
<1>2. Stage = "running" /\ Stage' = "over" /\ Got' = Got
  BY <1>1 DEF Stage, Got
<1>3. CASE SetFail
  <2>1. Promise!EndsFailed
    BY <1>1, <1>2, <1>3 DEF SetFail, Finish, Promise!EndsFailed, Promise!End
  <2> QED BY <2>1 DEF Promised, Promise!Next, Promise!Ends
<1>4. CASE SetCanceled
  <2>1. Promise!EndsCanceled
    BY <1>1, <1>2, <1>4 DEF SetCanceled, Finish, Goto, Promise!EndsCanceled, Promise!End, JobInv, Told
  <2> QED BY <2>1 DEF Promised, Promise!Next, Promise!Ends
<1>5. CASE SetDone
  <2>1. pc = "done" /\ status' = "done" /\ downloaded' = total
    BY <1>5 DEF SetDone, Finish, Goto
  <2>2. ASSUME total > 0 PROVE Got = 0..(Size - 1)
    BY <2>1, <2>2 DEF JobInv, WholeInv, Outcome, Whole, Got, Offsets
  <2>3. Promise!EndsDone
    BY <1>1, <1>2, <2>1, <2>2 DEF Promise!EndsDone, Promise!End, Promise!Bytes
  <2> QED BY <2>3 DEF Promised, Promise!Next, Promise!Ends
<1> QED BY <1>3, <1>4, <1>5

LEMMA RunPromised ==
    ASSUME JobInv, TypeInv', WholeInv', RunStep
    PROVE  Promised
<1>1. CASE RunBegins
  <2>1. Promise!Begin
    BY <1>1 DEF RunBegins, Goto, Promise!Begin, Stage, Got, JobInv, Over
  <2> QED BY <2>1 DEF Promised, Promise!Next
<1>2. CASE Probe
  <2>1. /\ pc = "probe" /\ pc' \in {"split", "single"} /\ ~cancelled /\ total' \in {0, Size}
        /\ UNCHANGED <<status, finished, cancelled, downloaded, file>>
    BY <1>2 DEF Probe, Goto
  <2>2. Got = {}
    BY <2>1, GotIsOnDisk DEF JobInv, WholeInv, Counted
  <2>3. Stage = "running" /\ Stage' = "running" /\ Got' = Got
    BY <2>1 DEF Stage, Got, JobInv, Over
  <2>4. Promise!Learn
    BY <2>1, <2>2, <2>3 DEF Promise!Learn
  <2> QED BY <2>4 DEF Promised, Promise!Next
<1>3. CASE ReadSingle
  <2>1. /\ pc = "stream" /\ pc' \in {"report", "fail"} /\ UNCHANGED jobVars
        /\ OnDisk \subseteq OnDisk' /\ OnDisk' # OnDisk
    BY <1>3, ReadSingleCounts DEF ReadSingle, JobInv
  <2>2. Promise!Fetch
    BY <2>1, ReadFetches DEF JobInv, WholeInv, Over
  <2> QED BY <2>2 DEF Promised, Promise!Next
<1>6. CASE ReportSingle
  <2>1. /\ pc = "report" /\ pc' = "stream" /\ total' \in {total, Size}
        /\ UNCHANGED <<status, finished, cancelled, file>>
    BY <1>6 DEF ReportSingle, Goto
  <2>2. OnDisk' = OnDisk /\ downloaded' > downloaded /\ downloaded' = Cardinality(OnDisk)
    BY <1>6, ReportSingleCounts DEF JobInv
  <2>3. downloaded' <= Cardinality(OnDisk)
    BY <2>2 DEF TypeInv, TypeOK
  <2>4. Promise!Report
    BY <2>1, <2>2, <2>3, ReportShows DEF JobInv, WholeInv, Over
  <2> QED BY <2>4 DEF Promised, Promise!Next
<1>4. CASE Fails \/ Split \/ Join \/ SingleAnswered \/ SingleEnds
  <2>1. UNCHANGED <<jobVars, file>> /\ pc \notin {"none", "queued"} /\ pc' \notin {"none", "queued"}
    BY <1>4 DEF Fails, Split, Join, SingleAnswered, SingleEnds, Goto
  <2> QED BY <2>1, HiddenStep DEF Stage, jobVars
<1>5. CASE SetFail \/ SetCanceled \/ SetDone
  BY <1>5, EndPromised
<1> QED BY <1>1, <1>2, <1>3, <1>4, <1>5, <1>6 DEF RunStep

LEMMA JobStep ==
    ASSUME Answers \subseteq {"partial"}, Announced \subseteq {TRUE}, JobInv, [Next]_vars
    PROVE  JobInv' /\ Promised
<1>1. JobInv'
  BY NextType, WholeNext, CountedNext, OverNext, ToldNext DEF JobInv
<1>2. ASSUME NEW request \in Requests, Start(request) PROVE Promised
  <2>1. Promise!Submit
    BY <1>2 DEF Start, Goto, Promise!Submit, Stage, Got, JobInv, Over
  <2> QED BY <2>1 DEF Promised, Promise!Next
<1>3. ASSUME Cancel PROVE Promised
  <2>1. UNCHANGED <<finished, total, downloaded, file, pc>> /\ pc # "none" /\ cancelled' = TRUE
    BY <1>3 DEF Cancel
  <2>2. Stage # "none" /\ Stage' = Stage /\ Got' = Got /\ (Stage = "over" <=> finished)
    BY <2>1 DEF Stage, Got, JobInv, Over
  <2>3. status' = IF finished THEN status ELSE "canceled"
    BY <1>3 DEF Cancel, JobInv, Over, Told
  <2>4. Promise!Cancel
    BY <2>1, <2>2, <2>3 DEF Promise!Cancel
  <2> QED BY <2>4 DEF Promised, Promise!Next
<1>4. ASSUME RunStep PROVE Promised
  BY <1>1, <1>4, RunPromised DEF JobInv
<1>5. ASSUME NEW i \in DOMAIN parts, PartStep(i) PROVE Promised
  BY <1>1, <1>5, PartPromised DEF JobInv
<1>6. ASSUME Reselect \/ UNCHANGED vars PROVE Promised
  BY <1>6, HiddenStep DEF Reselect, vars, jobVars, Stage
<1> QED BY <1>1, <1>2, <1>3, <1>4, <1>5, <1>6 DEF Next

(* A download is the job its user counts on, if the server grants ranges   *)
(* and one that has told the size announces the length of a single answer: *)
(* every byte is fetched once and stays, the progress only grows and is    *)
(* never more than the bytes fetched, done means all of them, canceled     *)
(* that it was cancelled, and an end is an end.                            *)
THEOREM DownloadActsAsJob ==
    ASSUME Answers \subseteq {"partial"}, Announced \subseteq {TRUE}
    PROVE  Spec => ActsAsJobSafely
<1>1. Init => JobInv /\ Promise!Init
  <2> SUFFICES ASSUME Init PROVE JobInv /\ Promise!Init
    OBVIOUS
  <2>1. Over /\ Told
    BY DEF Init, Over, Told
  <2>2. Stage = "none" /\ Got = {}
    BY DEF Init, Stage, Got, Offsets
  <2> QED BY <2>1, <2>2, JobInit DEF JobInv, Init, Promise!Init
<1>2. JobInv /\ [Next]_vars => JobInv' /\ [Promise!Next]_(Promise!vars)
  <2>1. [Promise!Next]_Sight = [Promise!Next]_(Promise!vars)
    BY DEF Sight, Promise!vars
  <2> QED BY <2>1, JobStep DEF Promised
<1> QED BY <1>1, <1>2, PTL DEF Spec, ActsAsJobSafely, Promise!Safety
=============================================================================
