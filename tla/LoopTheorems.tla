---------------------------- MODULE LoopTheorems ----------------------------
(***************************************************************************)
(* What holds of the loops of module Loops, for loops of any length.       *)
(***************************************************************************)
EXTENDS Loops, Sequences, WellFoundedInduction, TLAPS

(* Induction on the natural numbers, for a set in place of a predicate: a  *)
(* least number outside S would have a predecessor in S.                   *)
LEMMA Induction ==
    ASSUME NEW S, 0 \in S, \A n \in Nat : n \in S => n + 1 \in S
    PROVE  Nat \subseteq S
<1>. DEFINE T == Nat \ S
<1>1. SUFFICES ASSUME T # {} PROVE FALSE
  OBVIOUS
<1>2. PICK x \in T : \A y \in T : ~(<<y, x>> \in OpToRel(<, Nat))
  <2>1. IsWellFoundedOn(OpToRel(<, Nat), Nat)
    BY NatLessThanWellFounded
  <2>2. T \subseteq Nat
    OBVIOUS
  <2>. HIDE DEF T
  <2>. QED
    BY <2>1, <2>2, <1>1, WFMin
<1>3. x - 1 \in T
  OBVIOUS
<1>4. <<x - 1, x>> \in OpToRel(<, Nat)
  BY <1>3 DEF OpToRel
<1>. QED
  BY <1>2, <1>3, <1>4

(* The history of a loop up to n: the accumulator after each turn.         *)
IsHistory(after, n, init, step) ==
    after = [k \in 0..n |-> IF k = 0 THEN init ELSE step[k][after[k-1]]]

LEMMA HistoryExists ==
    ASSUME NEW n \in Nat, NEW init, NEW step
    PROVE  \E after : IsHistory(after, n, init, step)
<1>. DEFINE S == {m \in Nat : \E after : IsHistory(after, m, init, step)}
<1>1. 0 \in S
  <2>1. IsHistory([k \in 0..0 |-> init], 0, init, step)
    BY DEF IsHistory
  <2>. QED
    BY <2>1
<1>2. ASSUME NEW m \in Nat, m \in S PROVE m + 1 \in S
  <2>1. PICK after : IsHistory(after, m, init, step)
    BY <1>2
  <2>. DEFINE longer == [k \in 0..(m+1) |-> IF k = m + 1 THEN step[m+1][after[m]] ELSE after[k]]
  <2>2. \A k \in 0..(m+1) : longer[k] = IF k = 0 THEN init ELSE step[k][longer[k-1]]
    <3>. TAKE k \in 0..(m+1)
    <3>1. CASE k = m + 1
      BY <3>1
    <3>2. CASE k # m + 1
      <4>1. k \in 0..m /\ (k # 0 => k - 1 \in 0..m)
        BY <3>2
      <4>2. after[k] = IF k = 0 THEN init ELSE step[k][after[k-1]]
        BY <4>1, <2>1 DEF IsHistory
      <4>. QED
        BY <4>1, <4>2, <3>2
    <3>. QED
      BY <3>1, <3>2
  <2>3. IsHistory(longer, m + 1, init, step)
    BY <2>2 DEF IsHistory
  <2>. QED
    BY <2>3
<1>. HIDE DEF S
<1>3. Nat \subseteq S
  BY <1>1, <1>2, Induction
<1>. QED
  BY <1>3 DEF S

(* A loop has a history, and ends with what the history ends with.         *)
LEMMA LoopHistory ==
    ASSUME NEW n \in Nat, NEW init, NEW step
    PROVE  \E after : /\ after[0] = init
                      /\ \A k \in 1..n : after[k] = step[k][after[k-1]]
                      /\ Loop(n, init, step) = after[n]
<1>. DEFINE after == CHOOSE h : IsHistory(h, n, init, step)
<1>1. IsHistory(after, n, init, step)
  BY HistoryExists
<1>2. Loop(n, init, step) = after[n]
  BY DEF Loop, IsHistory
<1>3. after[0] = init /\ \A k \in 1..n : after[k] = step[k][after[k-1]]
  <2>. HIDE DEF after
  <2>1. \A k \in 0..n : after[k] = IF k = 0 THEN init ELSE step[k][after[k-1]]
    BY <1>1 DEF IsHistory
  <2>. QED
    BY <2>1
<1>. QED
  BY <1>2, <1>3

(* A loop invariant: what is in P[0] at the beginning, and stays in P from *)
(* turn to turn, is in P[n] at the end.                                    *)
THEOREM LoopInvariant ==
    ASSUME NEW n \in Nat, NEW init, NEW step, NEW P,
           init \in P[0],
           \A k \in 1..n : \A acc \in P[k-1] : step[k][acc] \in P[k]
    PROVE  Loop(n, init, step) \in P[n]
<1>1. PICK after : /\ after[0] = init
                   /\ \A k \in 1..n : after[k] = step[k][after[k-1]]
                   /\ Loop(n, init, step) = after[n]
  BY LoopHistory
<1>. DEFINE S == {m \in Nat : m <= n => after[m] \in P[m]}
<1>2. 0 \in S
  BY <1>1
<1>3. ASSUME NEW m \in Nat, m \in S PROVE m + 1 \in S
  <2>1. SUFFICES ASSUME m + 1 <= n PROVE after[m+1] \in P[m+1]
    OBVIOUS
  <2>2. m + 1 \in 1..n /\ (m + 1) - 1 = m
    BY <2>1
  <2>3. after[m] \in P[m]
    BY <1>3, <2>1
  <2>. QED
    BY <1>1, <2>2, <2>3
<1>. HIDE DEF S
<1>4. Nat \subseteq S
  BY <1>2, <1>3, Induction
<1>. QED
  BY <1>1, <1>4 DEF S

(* A loop that appends the items of some turns collects these items.       *)
Collected(seq) == {seq[i] : i \in 1..Len(seq)}

LEMMA AppendCollects ==
    ASSUME NEW S, NEW seq \in Seq(S), NEW x \in S
    PROVE  Append(seq, x) \in Seq(S) /\ Collected(Append(seq, x)) = Collected(seq) \cup {x}
<1>. DEFINE longer == Append(seq, x)
<1>1. /\ Len(seq) \in Nat /\ longer \in Seq(S) /\ Len(longer) = Len(seq) + 1
      /\ \A i \in 1..Len(seq) : longer[i] = seq[i]
      /\ longer[Len(seq) + 1] = x
  OBVIOUS
<1>. HIDE DEF longer
<1>2. ASSUME NEW i \in 1..Len(longer) PROVE longer[i] \in Collected(seq) \cup {x}
  BY <1>1 DEF Collected
<1>3. ASSUME NEW i \in 1..Len(seq) PROVE seq[i] \in Collected(longer)
  <2>1. i \in 1..Len(longer) /\ longer[i] = seq[i]
    BY <1>1
  <2>. QED
    BY <2>1 DEF Collected
<1>4. x \in Collected(longer)
  <2>1. Len(seq) + 1 \in 1..Len(longer)
    BY <1>1
  <2>. QED
    BY <1>1, <2>1 DEF Collected
<1>5. Collected(longer) = Collected(seq) \cup {x}
  BY <1>2, <1>3, <1>4 DEF Collected
<1>. QED
  BY <1>1, <1>5 DEF longer

IsCollector(n, S, taken, item, step) ==
    /\ \A k \in taken : k \in 1..n /\ item[k] \in S
    /\ \A k \in 1..n : \A acc \in Seq(S) :
           step[k][acc] = IF k \in taken THEN Append(acc, item[k]) ELSE acc

LEMMA LoopCollects ==
    ASSUME NEW n \in Nat, NEW S, NEW taken, NEW item, NEW step,
           IsCollector(n, S, taken, item, step)
    PROVE  /\ Loop(n, <<>>, step) \in Seq(S)
           /\ Collected(Loop(n, <<>>, step)) = {item[k] : k \in taken}
<1>. USE DEF IsCollector
<1>. DEFINE UpTo(k) == {item[m] : m \in {j \in taken : j <= k}}
            P == [k \in 0..n |-> {acc \in Seq(S) : Collected(acc) = UpTo(k)}]
<1>0. \A j \in taken : j \in Int /\ 1 <= j /\ j <= n
  OBVIOUS
<1>1. <<>> \in P[0]
  <2>1. <<>> \in Seq(S) /\ Collected(<<>>) = {}
    BY DEF Collected
  <2>2. UpTo(0) = {}
    BY <1>0
  <2>. QED
    BY <2>1, <2>2
<1>2. ASSUME NEW k \in 1..n, NEW acc \in P[k-1] PROVE step[k][acc] \in P[k]
  <2>1. k - 1 \in 0..n /\ k \in 0..n /\ k \in Int
    OBVIOUS
  <2>2. acc \in Seq(S) /\ Collected(acc) = UpTo(k-1)
    BY <2>1
  <2>3. CASE k \in taken
    <3>1. step[k][acc] = Append(acc, item[k]) /\ item[k] \in S
      BY <2>2, <2>3
    <3>2. Collected(Append(acc, item[k])) = Collected(acc) \cup {item[k]} /\ Append(acc, item[k]) \in Seq(S)
      BY <2>2, <3>1, AppendCollects
    <3>3. \A j \in taken : j <= k <=> (j <= k-1 \/ j = k)
      BY <1>0, <2>1
    <3>4. UpTo(k) = UpTo(k-1) \cup {item[k]}
      <4>1. ASSUME NEW x PROVE x \in UpTo(k) <=> \E j \in taken : (j <= k-1 \/ j = k) /\ x = item[j]
        BY <3>3
      <4>2. ASSUME NEW x PROVE x \in UpTo(k-1) <=> \E j \in taken : j <= k-1 /\ x = item[j]
        OBVIOUS
      <4>. HIDE DEF UpTo
      <4>3. ASSUME NEW x PROVE x \in UpTo(k) <=> x \in UpTo(k-1) \cup {item[k]}
        BY <2>3, <4>1, <4>2
      <4>. QED
        BY <4>3
    <3>5. Collected(step[k][acc]) = UpTo(k) /\ step[k][acc] \in Seq(S)
      BY <2>2, <3>1, <3>2, <3>4
    <3>. HIDE DEF UpTo
    <3>. QED
      BY <2>1, <3>5
  <2>4. CASE k \notin taken
    <3>1. step[k][acc] = acc
      BY <2>2, <2>4
    <3>2. \A j \in taken : j <= k <=> j <= k-1
      BY <1>0, <2>1, <2>4
    <3>3. UpTo(k) = UpTo(k-1)
      BY <3>2, Zenon
    <3>. HIDE DEF UpTo
    <3>. QED
      BY <2>1, <2>2, <3>1, <3>3
  <2>. QED
    BY <2>3, <2>4
<1>3. UpTo(n) = {item[k] : k \in taken}
  <2>1. {j \in taken : j <= n} = taken
    BY <1>0
  <2>. QED
    BY <2>1
<1>4. Loop(n, <<>>, step) \in P[n]
  <2>. HIDE DEF P
  <2>. QED
    BY <1>1, <1>2, LoopInvariant
<1>. HIDE DEF UpTo
<1>. QED
  BY <1>3, <1>4
-----------------------------------------------------------------------------
(* Sums.  Each fact compares partial sums turn by turn.                    *)

Terms(n, f) == \A k \in 1..n : f[k] \in Int
IsSum(s, n, f) ==
    /\ s \in [0..n -> Int] /\ s[0] = 0
    /\ \A k \in 1..n : s[k] = s[k-1] + f[k]
    /\ SumTo(n, f) = s[n]

LEMMA SumHistory ==
    ASSUME NEW n \in Nat, NEW f, Terms(n, f)
    PROVE  \E s : IsSum(s, n, f)
<1>. USE DEF Terms
<1>. DEFINE step == [k \in 1..n |-> [acc \in Int |-> acc + f[k]]]
<1>1. PICK after : /\ after[0] = 0
                   /\ \A k \in 1..n : after[k] = step[k][after[k-1]]
                   /\ Loop(n, 0, step) = after[n]
  <2>. HIDE DEF step
  <2>. QED
    BY LoopHistory
<1>. DEFINE S == {m \in Nat : m <= n => after[m] \in Int}
<1>2. 0 \in S
  BY <1>1
<1>3. ASSUME NEW m \in Nat, m \in S PROVE m + 1 \in S
  <2>1. SUFFICES ASSUME m + 1 <= n PROVE after[m+1] \in Int
    OBVIOUS
  <2>2. m + 1 \in 1..n /\ (m + 1) - 1 = m /\ after[m] \in Int
    BY <1>3, <2>1
  <2>3. after[m+1] = step[m+1][after[m]]
    BY <1>1, <2>2 DEF IsSum
  <2>. QED
    BY <2>2, <2>3
<1>. HIDE DEF S
<1>4. Nat \subseteq S
  BY <1>2, <1>3, Induction
<1>5. \A k \in 0..n : after[k] \in Int
  BY <1>4 DEF S
<1>. DEFINE s == [k \in 0..n |-> after[k]]
<1>6. \A k \in 1..n : s[k] = s[k-1] + f[k]
  <2>. TAKE k \in 1..n
  <2>1. k \in 0..n /\ k - 1 \in 0..n
    OBVIOUS
  <2>2. after[k] = step[k][after[k-1]] /\ after[k-1] \in Int
    BY <1>1, <1>5, <2>1
  <2>. QED
    BY <2>1, <2>2
<1>7. s \in [0..n -> Int] /\ s[0] = 0 /\ SumTo(n, f) = s[n]
  BY <1>1, <1>5 DEF SumTo
<1>. QED
  BY <1>6, <1>7 DEF IsSum

(* A sum of integers is an integer. *)
LEMMA SumType ==
    ASSUME NEW n \in Nat, NEW f, \A k \in 1..n : f[k] \in Int
    PROVE  SumTo(n, f) \in Int
<1>1. PICK s : IsSum(s, n, f)
  <2>1. Terms(n, f)
    BY DEF Terms
  <2>. QED
    BY <2>1, SumHistory
<1>. QED
  BY <1>1 DEF IsSum

(* The sum of the sums is the sum of the terms' sums. *)
LEMMA SumAdds ==
    ASSUME NEW n \in Nat, NEW f, NEW g, NEW h,
           \A k \in 1..n : f[k] \in Int /\ g[k] \in Int /\ h[k] = f[k] + g[k]
    PROVE  SumTo(n, h) = SumTo(n, f) + SumTo(n, g)
<1>1. PICK s : IsSum(s, n, f)
  <2>1. Terms(n, f)
    BY DEF Terms
  <2>. QED
    BY <2>1, SumHistory
<1>2. PICK t : IsSum(t, n, g)
  <2>1. Terms(n, g)
    BY DEF Terms
  <2>. QED
    BY <2>1, SumHistory
<1>3. PICK u : IsSum(u, n, h)
  <2>1. Terms(n, h)
    BY DEF Terms
  <2>. QED
    BY <2>1, SumHistory
<1>. DEFINE S == {m \in Nat : m <= n => u[m] = s[m] + t[m]}
<1>4. 0 \in S
  BY <1>1, <1>2, <1>3 DEF IsSum
<1>5. ASSUME NEW m \in Nat, m \in S PROVE m + 1 \in S
  <2>1. SUFFICES ASSUME m + 1 <= n PROVE u[m+1] = s[m+1] + t[m+1]
    OBVIOUS
  <2>2. m \in 0..n /\ m + 1 \in 1..n /\ (m + 1) - 1 = m /\ u[m] = s[m] + t[m]
    BY <1>5, <2>1
  <2>3. /\ s[m+1] = s[m] + f[m+1] /\ t[m+1] = t[m] + g[m+1] /\ u[m+1] = u[m] + h[m+1]
        /\ h[m+1] = f[m+1] + g[m+1] /\ f[m+1] \in Int /\ g[m+1] \in Int
        /\ s[m] \in Int /\ t[m] \in Int
    BY <1>1, <1>2, <1>3, <2>2 DEF IsSum
  <2>4. \A a, b, c, d \in Int : (a + b) + (c + d) = (a + c) + (b + d)
    OBVIOUS
  <2>. QED
    BY <2>2, <2>3, <2>4
<1>. HIDE DEF S
<1>6. Nat \subseteq S
  BY <1>4, <1>5, Induction
<1>. QED
  BY <1>1, <1>2, <1>3, <1>6 DEF S, IsSum

(* Larger terms have a larger sum. *)
LEMMA SumGrows ==
    ASSUME NEW n \in Nat, NEW f, NEW g,
           \A k \in 1..n : f[k] \in Int /\ g[k] \in Int /\ f[k] <= g[k]
    PROVE  SumTo(n, f) <= SumTo(n, g)
<1>1. PICK s : IsSum(s, n, f)
  <2>1. Terms(n, f)
    BY DEF Terms
  <2>. QED
    BY <2>1, SumHistory
<1>2. PICK t : IsSum(t, n, g)
  <2>1. Terms(n, g)
    BY DEF Terms
  <2>. QED
    BY <2>1, SumHistory
<1>. DEFINE S == {m \in Nat : m <= n => s[m] <= t[m]}
<1>4. 0 \in S
  BY <1>1, <1>2 DEF IsSum
<1>5. ASSUME NEW m \in Nat, m \in S PROVE m + 1 \in S
  <2>1. SUFFICES ASSUME m + 1 <= n PROVE s[m+1] <= t[m+1]
    OBVIOUS
  <2>2. m \in 0..n /\ m + 1 \in 1..n /\ (m + 1) - 1 = m /\ s[m] <= t[m]
    BY <1>5, <2>1
  <2>3. /\ s[m+1] = s[m] + f[m+1] /\ t[m+1] = t[m] + g[m+1]
        /\ f[m+1] <= g[m+1] /\ f[m+1] \in Int /\ g[m+1] \in Int
        /\ s[m] \in Int /\ t[m] \in Int
    BY <1>1, <1>2, <2>2 DEF IsSum
  <2>. QED
    BY <2>2, <2>3
<1>. HIDE DEF S
<1>6. Nat \subseteq S
  BY <1>4, <1>5, Induction
<1>. QED
  BY <1>1, <1>2, <1>6 DEF S, IsSum

(* Equal terms have equal sums. *)
LEMMA SumSame ==
    ASSUME NEW n \in Nat, NEW f, NEW g, \A k \in 1..n : f[k] \in Int /\ g[k] = f[k]
    PROVE  SumTo(n, g) = SumTo(n, f)
<1>1. SumTo(n, f) <= SumTo(n, g) /\ SumTo(n, g) <= SumTo(n, f)
  BY SumGrows
<1>2. SumTo(n, f) \in Int /\ SumTo(n, g) \in Int
  BY SumType
<1>. QED
  BY <1>1, <1>2

(* A sum of zeros. *)
LEMMA SumOfNone ==
    ASSUME NEW n \in Nat, NEW f, \A k \in 1..n : f[k] = 0
    PROVE  SumTo(n, f) = 0
<1>1. \A k \in 1..n : f[k] \in Int /\ f[k] \in Int /\ f[k] = f[k] + f[k]
  OBVIOUS
<1>2. SumTo(n, f) = SumTo(n, f) + SumTo(n, f)
  BY <1>1, SumAdds
<1>3. SumTo(n, f) \in Int
  BY <1>1, SumType
<1>. QED
  BY <1>2, <1>3, \A x \in Int : x = x + x => x = 0

(* The sum of a single term. *)
LEMMA SumOfOne ==
    ASSUME NEW n \in Nat, NEW i \in 1..n, NEW f, f[i] \in Int,
           \A k \in 1..n : k # i => f[k] = 0
    PROVE  SumTo(n, f) = f[i]
<1>1. PICK s : IsSum(s, n, f)
  <2>1. Terms(n, f)
    BY DEF Terms
  <2>. QED
    BY <2>1, SumHistory
<1>. DEFINE S == {m \in Nat : m <= n => s[m] = IF m < i THEN 0 ELSE f[i]}
<1>4. 0 \in S
  BY <1>1 DEF IsSum
<1>5. ASSUME NEW m \in Nat, m \in S PROVE m + 1 \in S
  <2>1. SUFFICES ASSUME m + 1 <= n PROVE s[m+1] = IF m + 1 < i THEN 0 ELSE f[i]
    OBVIOUS
  <2>2. m \in 0..n /\ m + 1 \in 1..n /\ (m + 1) - 1 = m /\ s[m] = IF m < i THEN 0 ELSE f[i]
    BY <1>5, <2>1
  <2>3. s[m+1] = s[m] + f[m+1] /\ s[m] \in Int
    BY <1>1, <2>2 DEF IsSum
  <2>4. f[m+1] = IF m + 1 = i THEN f[i] ELSE 0
    BY <2>2
  <2>. QED
    BY <2>2, <2>3, <2>4
<1>. HIDE DEF S
<1>6. Nat \subseteq S
  BY <1>4, <1>5, Induction
<1>. QED
  BY <1>1, <1>6 DEF S, IsSum

(* A common factor of the terms is one of the sum. *)
LEMMA SumScales ==
    ASSUME NEW n \in Nat, NEW c \in Int, NEW f, NEW g,
           \A k \in 1..n : f[k] \in Int /\ g[k] = c * f[k]
    PROVE  SumTo(n, g) = c * SumTo(n, f)
<1>1. PICK s : IsSum(s, n, f)
  <2>1. Terms(n, f)
    BY DEF Terms
  <2>. QED
    BY <2>1, SumHistory
<1>2. PICK t : IsSum(t, n, g)
  <2>1. Terms(n, g)
    BY DEF Terms
  <2>. QED
    BY <2>1, SumHistory
<1>. DEFINE S == {m \in Nat : m <= n => t[m] = c * s[m]}
<1>3. 0 \in S
  BY <1>1, <1>2 DEF IsSum
<1>4. ASSUME NEW m \in Nat, m \in S PROVE m + 1 \in S
  <2>1. SUFFICES ASSUME m + 1 <= n PROVE t[m+1] = c * s[m+1]
    OBVIOUS
  <2>2. m \in 0..n /\ m + 1 \in 1..n /\ (m + 1) - 1 = m /\ t[m] = c * s[m]
    BY <1>4, <2>1
  <2>3. /\ s[m+1] = s[m] + f[m+1] /\ t[m+1] = t[m] + g[m+1]
        /\ g[m+1] = c * f[m+1] /\ f[m+1] \in Int /\ s[m] \in Int
    BY <1>1, <1>2, <2>2 DEF IsSum
  <2>4. \A a, b \in Int : c * (a + b) = c * a + c * b
    OBVIOUS
  <2>. QED
    BY <2>2, <2>3, <2>4
<1>. HIDE DEF S
<1>5. Nat \subseteq S
  BY <1>3, <1>4, Induction
<1>. QED
  BY <1>1, <1>2, <1>5 DEF S, IsSum
-----------------------------------------------------------------------------
(* The sum over a set of indices, and their number.                        *)
Only(n, S, f) == [k \in 1..n |-> IF k \in S THEN f[k] ELSE 0]
SumOver(n, S, f) == SumTo(n, Only(n, S, f))
Ones(n) == [k \in 1..n |-> 1]
Number(n, S) == SumOver(n, S, Ones(n))

Integral(n, f) == \A k \in 1..n : f[k] \in Int

LEMMA OnlyType ==
    ASSUME NEW n \in Nat, NEW S, NEW f, Integral(n, f)
    PROVE  /\ Integral(n, Only(n, S, f)) /\ SumOver(n, S, f) \in Int
           /\ \A k \in 1..n : Only(n, S, f)[k] = IF k \in S THEN f[k] ELSE 0
<1>1. \A k \in 1..n : Only(n, S, f)[k] = IF k \in S THEN f[k] ELSE 0
  BY DEF Only
<1>2. \A k \in 1..n : Only(n, S, f)[k] \in Int
  BY <1>1 DEF Integral
<1>3. SumOver(n, S, f) \in Int
  BY <1>2, SumType DEF SumOver
<1>. QED
  BY <1>1, <1>2, <1>3 DEF Integral

LEMMA OnesType ==
    ASSUME NEW n \in Nat
    PROVE  Integral(n, Ones(n)) /\ \A k \in 1..n : Ones(n)[k] = 1
  BY DEF Integral, Ones

(* Two sets without a common index. *)
LEMMA OverUnion ==
    ASSUME NEW n \in Nat, NEW S, NEW T, NEW f, Integral(n, f), S \cap T = {}
    PROVE  SumOver(n, S \cup T, f) = SumOver(n, S, f) + SumOver(n, T, f)
<1>. DEFINE h == Only(n, S \cup T, f)
            a == Only(n, S, f)
            b == Only(n, T, f)
<1>1. \A k \in 1..n : a[k] \in Int /\ b[k] \in Int /\ h[k] = a[k] + b[k]
  <2>1. \A k \in 1..n : f[k] \in Int /\ ~(k \in S /\ k \in T)
    BY DEF Integral
  <2>2. /\ \A k \in 1..n : h[k] = IF k \in S \cup T THEN f[k] ELSE 0
        /\ \A k \in 1..n : a[k] = IF k \in S THEN f[k] ELSE 0
        /\ \A k \in 1..n : b[k] = IF k \in T THEN f[k] ELSE 0
    BY OnlyType
  <2>. HIDE DEF h, a, b
  <2>. QED
    BY <2>1, <2>2
<1>. HIDE DEF h, a, b
<1>2. SumTo(n, h) = SumTo(n, a) + SumTo(n, b)
  BY <1>1, SumAdds
<1>. QED
  BY <1>2 DEF SumOver, h, a, b

(* A single index. *)
LEMMA OverOne ==
    ASSUME NEW n \in Nat, NEW i \in 1..n, NEW f, Integral(n, f)
    PROVE  SumOver(n, {i}, f) = f[i]
<1>. DEFINE a == Only(n, {i}, f)
<1>1. a[i] = f[i] /\ a[i] \in Int /\ \A k \in 1..n : k # i => a[k] = 0
  <2>1. \A k \in 1..n : a[k] = IF k \in {i} THEN f[k] ELSE 0
    BY OnlyType
  <2>. HIDE DEF a
  <2>. QED
    BY <2>1 DEF Integral
<1>. HIDE DEF a
<1>2. SumTo(n, a) = a[i]
  BY <1>1, SumOfOne
<1>. QED
  BY <1>1, <1>2 DEF SumOver, a

LEMMA OverOneMore ==
    ASSUME NEW n \in Nat, NEW T, NEW i \in 1..n, NEW f, Integral(n, f), i \notin T
    PROVE  /\ SumOver(n, T \cup {i}, f) = SumOver(n, T, f) + f[i]
           /\ Number(n, T \cup {i}) = Number(n, T) + 1
<1>1. T \cap {i} = {}
  OBVIOUS
<1>2. SumOver(n, T \cup {i}, f) = SumOver(n, T, f) + SumOver(n, {i}, f)
  BY <1>1, OverUnion
<1>3. Number(n, T \cup {i}) = Number(n, T) + SumOver(n, {i}, Ones(n))
  BY <1>1, OverUnion, OnesType DEF Number
<1>4. SumOver(n, {i}, f) = f[i] /\ SumOver(n, {i}, Ones(n)) = 1
  BY OverOne, OnesType
<1>. QED
  BY <1>2, <1>3, <1>4

(* All indices, and none. *)
LEMMA OverAll ==
    ASSUME NEW n \in Nat, NEW f, Integral(n, f)
    PROVE  SumOver(n, 1..n, f) = SumTo(n, f)
<1>. DEFINE a == Only(n, 1..n, f)
<1>1. \A k \in 1..n : f[k] \in Int /\ a[k] = f[k]
  BY OnlyType DEF Integral
<1>. HIDE DEF a
<1>2. SumTo(n, a) = SumTo(n, f)
  BY <1>1, SumSame
<1>. QED
  BY <1>2 DEF SumOver, a

LEMMA OverNone ==
    ASSUME NEW n \in Nat, NEW S, NEW f, \A k \in 1..n : k \in S => f[k] = 0
    PROVE  SumOver(n, S, f) = 0
<1>. DEFINE a == Only(n, S, f)
<1>1. \A k \in 1..n : a[k] = 0
  BY DEF Only
<1>. HIDE DEF a
<1>2. SumTo(n, a) = 0
  BY <1>1, SumOfNone
<1>. QED
  BY <1>2 DEF SumOver, a

(* What holds of the terms in the set holds of the sum. *)
LEMMA OverGrows ==
    ASSUME NEW n \in Nat, NEW S, NEW f, NEW g, Integral(n, f), Integral(n, g),
           \A k \in 1..n : k \in S => f[k] <= g[k]
    PROVE  SumOver(n, S, f) <= SumOver(n, S, g)
<1>. DEFINE a == Only(n, S, f)
            b == Only(n, S, g)
<1>1. \A k \in 1..n : a[k] \in Int /\ b[k] \in Int /\ a[k] <= b[k]
  <2>1. /\ \A k \in 1..n : a[k] = IF k \in S THEN f[k] ELSE 0
        /\ \A k \in 1..n : b[k] = IF k \in S THEN g[k] ELSE 0
    BY OnlyType
  <2>. HIDE DEF a, b
  <2>. QED
    BY <2>1 DEF Integral
<1>. HIDE DEF a, b
<1>2. SumTo(n, a) <= SumTo(n, b)
  BY <1>1, SumGrows
<1>. QED
  BY <1>2 DEF SumOver, a, b

LEMMA OverAdds ==
    ASSUME NEW n \in Nat, NEW S, NEW f, NEW g, NEW h, Integral(n, f), Integral(n, g),
           \A k \in 1..n : h[k] = f[k] + g[k]
    PROVE  SumOver(n, S, h) = SumOver(n, S, f) + SumOver(n, S, g)
<1>. DEFINE a == Only(n, S, f)
            b == Only(n, S, g)
            d == Only(n, S, h)
<1>1. \A k \in 1..n : a[k] \in Int /\ b[k] \in Int /\ d[k] = a[k] + b[k]
  <2>1. /\ \A k \in 1..n : a[k] = IF k \in S THEN f[k] ELSE 0
        /\ \A k \in 1..n : b[k] = IF k \in S THEN g[k] ELSE 0
        /\ \A k \in 1..n : d[k] = IF k \in S THEN h[k] ELSE 0
    BY DEF Only
  <2>. HIDE DEF a, b, d
  <2>. QED
    BY <2>1 DEF Integral
<1>. HIDE DEF a, b, d
<1>2. SumTo(n, d) = SumTo(n, a) + SumTo(n, b)
  BY <1>1, SumAdds
<1>. QED
  BY <1>2 DEF SumOver, a, b, d

(* Terms that are at most c add up to at most c for each index. *)
LEMMA OverAtMost ==
    ASSUME NEW n \in Nat, NEW S, NEW f, NEW c \in Int, Integral(n, f),
           \A k \in 1..n : k \in S => f[k] <= c
    PROVE  SumOver(n, S, f) <= Number(n, S) * c
<1>. DEFINE a == Only(n, S, f)
            b == Only(n, S, Ones(n))
            d == [k \in 1..n |-> c * b[k]]
<1>1. \A k \in 1..n : b[k] \in Int /\ b[k] = (IF k \in S THEN 1 ELSE 0) /\ d[k] = c * b[k]
  BY OnlyType, OnesType DEF Only
<1>2. \A k \in 1..n : a[k] \in Int /\ d[k] \in Int /\ a[k] <= d[k]
  <2>1. \A k \in 1..n : a[k] = IF k \in S THEN f[k] ELSE 0
    BY OnlyType
  <2>2. c * 1 = c /\ c * 0 = 0
    OBVIOUS
  <2>. HIDE DEF a, b, d
  <2>. QED
    BY <1>1, <2>1, <2>2 DEF Integral
<1>. HIDE DEF a, b, d
<1>3. SumTo(n, a) <= SumTo(n, d)
  BY <1>2, SumGrows
<1>4. SumTo(n, d) = c * SumTo(n, b)
  BY <1>1, SumScales
<1>5. SumTo(n, b) \in Int
  BY <1>1, SumType
<1>6. c * SumTo(n, b) = SumTo(n, b) * c
  BY <1>5
<1>. QED
  BY <1>3, <1>4, <1>6 DEF SumOver, Number, a, b

LEMMA NumberType ==
    ASSUME NEW n \in Nat, NEW S
    PROVE  Number(n, S) \in Nat
<1>. DEFINE none == [k \in 1..n |-> 0]
<1>1. Integral(n, none) /\ Integral(n, Ones(n)) /\ \A k \in 1..n : none[k] <= Ones(n)[k]
  BY OnesType DEF Integral
<1>2. SumOver(n, S, none) = 0
  BY OverNone
<1>. HIDE DEF none
<1>3. SumOver(n, S, none) <= SumOver(n, S, Ones(n)) /\ SumOver(n, S, Ones(n)) \in Int
  BY <1>1, OverGrows, OnlyType
<1>. QED
  BY <1>2, <1>3 DEF Number

LEMMA NumberOfAll ==
    ASSUME NEW n \in Nat
    PROVE  Number(n, 1..n) = n
<1>. DEFINE S == {m \in Nat : m <= n => Number(n, 1..m) = m}
<1>1. 0 \in S
  <2>1. \A k \in 1..n : k \in 1..0 => Ones(n)[k] = 0
    OBVIOUS
  <2>. QED
    BY <2>1, OverNone DEF Number
<1>2. ASSUME NEW m \in Nat, m \in S PROVE m + 1 \in S
  <2>. SUFFICES ASSUME m + 1 <= n PROVE Number(n, 1..(m+1)) = m + 1
    OBVIOUS
  <2>1. Number(n, 1..m) = m /\ m + 1 \in 1..n
    BY <1>2
  <2>2. 1..(m+1) = (1..m) \cup {m+1} /\ (1..m) \cap {m+1} = {}
    OBVIOUS
  <2>3. Number(n, (1..m) \cup {m+1}) = Number(n, 1..m) + Number(n, {m+1})
    BY <2>2, OverUnion, OnesType DEF Number
  <2>4. Number(n, {m+1}) = 1
    BY <2>1, OverOne, OnesType DEF Number
  <2>. QED
    BY <2>1, <2>2, <2>3, <2>4
<1>. HIDE DEF S
<1>3. n \in S
  BY <1>1, <1>2, Induction
<1>. QED
  BY <1>3 DEF S
=============================================================================
