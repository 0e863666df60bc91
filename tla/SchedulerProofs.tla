--------------------------- MODULE SchedulerProofs ---------------------------
(***************************************************************************)
(* Proofs about Scheduler for any adapters, entry lists, weights, exclude  *)
(* sets and readings.                                                      *)
(***************************************************************************)
EXTENDS Scheduler, LoopTheorems, FiniteSetTheorems
-----------------------------------------------------------------------------
(* Arithmetic                                                              *)

LEMMA TimesMonotone ==
    \A x, y \in Int : \A z \in Nat : x <= y => z * x <= z * y
  OBVIOUS

LEMMA TimesCancel ==
    \A x, y \in Int : \A z \in Nat : z * x < z * y => x < y
  BY TimesMonotone

LEMMA TimesNonzero ==
    \A x, y \in Int : x # 0 /\ y # 0 => x * y # 0
  OBVIOUS

LEMMA Division ==
    ASSUME NEW x \in Int, NEW d \in Nat \ {0}
    PROVE  x \div d \in Int /\ d * (x \div d) <= x /\ x < d * (x \div d + 1)
  OBVIOUS

(* The quotient that rounds 10 * u * num / den keeps the bounds of the     *)
(* factor num / den.                                                       *)
LEMMA Rounding ==
    ASSUME NEW u \in Nat \ {0}, NEW num \in Nat, NEW den \in Nat \ {0},
           den <= 4 * num, num <= 4 * den
    PROVE  LET w == (20 * u * num + den) \div (2 * den)
           IN  w \in Int /\ 5 * u <= 2 * w /\ w <= 40 * u
<1>. DEFINE w == (20 * u * num + den) \div (2 * den)
<1>1. /\ w \in Int
      /\ (2 * den) * w <= 20 * u * num + den
      /\ 20 * u * num + den < (2 * den) * (w + 1)
  <2>1. 20 * u * num + den \in Int /\ 2 * den \in Nat \ {0}
    OBVIOUS
  <2>. QED
    BY <2>1, Division
<1>2. u * den <= u * (4 * num) /\ u * num <= u * (4 * den)
  BY TimesMonotone
<1>. HIDE DEF w
<1>3. 5 * u <= 2 * w
  <2>1. den * (5 * u + 1) < den * (2 * w + 2)
    <3>1. den * (5 * u + 1) = 5 * (u * den) + den
      OBVIOUS
    <3>2. den * (2 * w + 2) = (2 * den) * (w + 1)
      BY <1>1
    <3>3. 20 * u * num + den = 5 * (u * (4 * num)) + den
      OBVIOUS
    <3>. QED
      BY <1>1, <1>2, <3>1, <3>2, <3>3
  <2>2. 5 * u + 1 < 2 * w + 2
    BY <2>1, <1>1, TimesCancel
  <2>. QED
    BY <2>2, <1>1
<1>4. w <= 40 * u
  <2>1. den * (2 * w) < den * (80 * u + 2)
    <3>1. den * (2 * w) = (2 * den) * w
      BY <1>1
    <3>2. den * (80 * u + 2) = 20 * (u * (4 * den)) + 2 * den
      OBVIOUS
    <3>3. 20 * u * num = 20 * (u * num)
      OBVIOUS
    <3>. QED
      BY <1>1, <1>2, <3>1, <3>2, <3>3
  <2>2. 2 * w < 80 * u + 2
    BY <2>1, <1>1, TimesCancel
  <2>. QED
    BY <2>2, <1>1
<1>. QED
  BY <1>1, <1>3, <1>4 DEF w
-----------------------------------------------------------------------------
(* How far scores can drift: the scores are kept level by a bound on every *)
(* set of entries at once                                                  *)

(* The second difference of k * (n - k), over steps of 1 and of -m.        *)
LEMMA Parabola ==
    \A n, k, m \in Int :
        m * ((k + 1) * (n - (k + 1))) + (k - m) * (n - (k - m))
            = (m + 1) * (k * (n - k)) - m * (m + 1)
<1>. TAKE n, k, m \in Int
<1>. DEFINE d == n - k
<1>1. d \in Int /\ n - (k + 1) = d - 1 /\ n - (k - m) = d + m
  OBVIOUS
<1>. HIDE DEF d
<1>2. (k + 1) * (d - 1) = k * d - k + d - 1
  BY <1>1
<1>3. (k - m) * (d + m) = k * d + k * m - m * d - m * m
  BY <1>1
<1>. DEFINE kd == k * d
<1>4. kd \in Int
  BY <1>1
<1>5. m * (kd - k + d - 1) = m * kd - m * k + m * d - m
  <2>. HIDE DEF kd
  <2>. QED
    BY <1>1, <1>4
<1>6. (m + 1) * kd = m * kd + kd /\ m * (m + 1) = m * m + m
  <2>. HIDE DEF kd
  <2>. QED
    BY <1>4
<1>7. m * k = k * m
  OBVIOUS
<1>8. /\ m * kd \in Int /\ m * k \in Int /\ m * d \in Int /\ m * m \in Int
  <2>. HIDE DEF kd
  <2>. QED
    BY <1>1, <1>4
<1>. QED
  <2>1. m * ((k + 1) * (d - 1)) + (k - m) * (d + m)
            = (m * kd - m * k + m * d - m) + (kd + k * m - m * d - m * m)
    BY <1>2, <1>3, <1>5
  <2>2. (m * kd - m * k + m * d - m) + (kd + k * m - m * d - m * m)
            = (m + 1) * kd - m * (m + 1)
    <3>. HIDE DEF kd
    <3>. QED
      BY <1>4, <1>6, <1>7, <1>8
  <2>3. kd = k * (n - k)
    BY DEF d
  <2>. QED
    BY <1>1, <2>1, <2>2, <2>3

(* Averaging m + 1 bounds. X and GV are what the set S had and got, m of   *)
(* its members with XV were candidates, X0 belongs to the others, and X1   *)
(* to S with the winner.                                                   *)
Quota(n, k) == k * (n - k)

LEMMA TimesCancelStrict ==
    \A x, y \in Int : \A z \in Nat \ {0} : z * x <= z * y => x <= y
<1>. TAKE x, y \in Int
<1>. TAKE z \in Nat \ {0}
<1>. SUFFICES ASSUME z * x <= z * y, y + 1 <= x PROVE FALSE
  OBVIOUS
<1>1. z * (y + 1) <= z * x
  BY TimesMonotone
<1>2. z * (y + 1) = z * y + z /\ z * y \in Int /\ z * x \in Int
  OBVIOUS
<1>. QED
  BY <1>1, <1>2

Bounds(n, k, m, W, D, X0, XV, GV, xb, gb) ==
    /\ n \in Int /\ k \in Int /\ m \in Nat \ {0} /\ W \in Nat /\ D \in Nat
    /\ X0 \in Int /\ XV \in Int /\ GV \in Int /\ xb \in Int /\ gb \in Int
    /\ XV + GV <= m * (xb + gb + D) /\ GV <= m * W /\ gb <= W
    /\ 2 * (X0 + XV + xb) <= (2 * W + D) * Quota(n, k + 1)
    /\ 2 * X0 <= (2 * W + D) * Quota(n, k - m)

LEMMA Averaging ==
    ASSUME NEW n, NEW k, NEW m, NEW W, NEW D, NEW X0, NEW XV, NEW GV, NEW xb, NEW gb,
           Bounds(n, k, m, W, D, X0, XV, GV, xb, gb)
    PROVE  2 * (X0 + XV + GV) <= (2 * W + D) * Quota(n, k)
<1>. USE DEF Bounds
<1>. DEFINE G  == 2 * W + D
            X1 == X0 + XV + xb
            q1 == Quota(n, k + 1)
            q0 == Quota(n, k - m)
            q  == Quota(n, k)
            L  == 2 * (X0 + XV + GV)
<1>1. G \in Nat /\ X1 \in Int /\ q1 \in Int /\ q0 \in Int /\ q \in Int /\ L \in Int
  BY DEF Quota
<1>2. m * q1 + q0 = (m + 1) * q - m * (m + 1)
  BY Parabola DEF Quota
<1>3. 2 * X1 <= G * q1 /\ 2 * X0 <= G * q0
  OBVIOUS
<1>4. m * (xb + gb + D) = m * xb + m * gb + m * D
  OBVIOUS
<1>5. m * X1 = m * X0 + m * XV + m * xb
  OBVIOUS
<1>6. (m + 1) * L = 2 * (m * X0 + m * XV + m * GV) + L
  OBVIOUS
<1>7. /\ m * X0 \in Int /\ m * XV \in Int /\ m * xb \in Int /\ m * gb \in Int /\ m * D \in Int
      /\ m * GV \in Int /\ m * X1 \in Int
  BY <1>1
<1>. HIDE DEF G, X1, q1, q0, q
<1>8. (m + 1) * L <= m * (2 * X1) + 2 * X0 + 2 * (m * gb) + 2 * (m * D) + 2 * (m * GV)
  <2>1. m * (2 * X1) = 2 * (m * X1)
    BY <1>1
  <2>. QED
    BY <1>4, <1>5, <1>6, <1>7, <2>1
<1>9. m * gb <= m * W /\ m * GV <= m * (m * W)
  BY TimesMonotone
<1>10. m * (2 * X1) <= m * (G * q1)
  BY <1>1, <1>3, TimesMonotone
<1>11. m * D + m * D <= (m * (m + 1)) * D
  <2>1. m * D <= (m * m) * D
    <3>1. m <= m * m
      BY TimesMonotone
    <3>2. D * m <= D * (m * m)
      BY <3>1, TimesMonotone
    <3>. QED
      BY <3>2
  <2>2. (m * (m + 1)) * D = (m * m) * D + m * D
    OBVIOUS
  <2>. QED
    BY <2>1, <2>2
<1>12. G * (m * q1 + q0) = m * (G * q1) + G * q0
  BY <1>1
<1>13. (m + 1) * (G * q) = G * (m * q1 + q0) + G * (m * (m + 1))
  <2>1. (m + 1) * (G * q) = G * ((m + 1) * q)
    BY <1>1
  <2>2. (m + 1) * q = (m * q1 + q0) + m * (m + 1)
    BY <1>1, <1>2
  <2>. QED
    BY <1>1, <2>1, <2>2
<1>14. G * (m * (m + 1)) = 2 * (m * (m * W)) + 2 * (m * W) + (m * (m + 1)) * D
  BY DEF G
<1>. DEFINE a == m * (G * q1)
            b == G * q0
            mW == m * W
            mmW == m * (m * W)
            mD == m * D
            mmD == (m * (m + 1)) * D
<1>15. a \in Int /\ b \in Int /\ mW \in Int /\ mmW \in Int /\ mD \in Int /\ mmD \in Int
  BY <1>1
<1>16. (m + 1) * L <= a + b + 2 * mW + 2 * mD + 2 * mmW
  <2>1. m * (2 * X1) \in Int /\ (m + 1) * L \in Int
    BY <1>1
  <2>. HIDE DEF L
  <2>. QED
    BY <1>1, <1>3, <1>7, <1>8, <1>9, <1>10, <1>15, <2>1
<1>17. (m + 1) * (G * q) = a + b + (2 * mmW + 2 * mW + mmD)
  BY <1>12, <1>13, <1>14, <1>15
<1>18. (m + 1) * L <= (m + 1) * (G * q)
  <2>1. mD + mD <= mmD
    BY <1>11
  <2>2. (m + 1) * L \in Int
    BY <1>1
  <2>. HIDE DEF a, b, mW, mmW, mD, mmD, L
  <2>. QED
    BY <1>15, <1>16, <1>17, <2>1, <2>2
<1>19. ~(G * q < L)
  BY <1>1, <1>18, TimesCancelStrict
<1>. QED
  BY <1>1, <1>19 DEF G, q, L

(* No set of indices has more than G for each pair of an index in it and   *)
(* one outside it.                                                         *)
Balanced(n, x, G) ==
    \A S \in SUBSET (1..n) : 2 * SumOver(n, S, x) <= G * Quota(n, Number(n, S))

(* x2 is x after a round: the candidates C have got g, no more than W      *)
(* each, and b, which nobody was ahead of by more than D, has paid it all. *)
Round(n, x, x2, g, C, b, W, D) ==
    /\ C \in SUBSET (1..n) /\ b \in C
    /\ \A k \in 1..n : g[k] \in 0..W /\ (k \notin C => g[k] = 0)
    /\ \A j \in C : (x[j] + g[j]) - (x[b] + g[b]) <= D
    /\ \A k \in 1..n : x2[k] = x[k] + g[k] - (IF k = b THEN SumTo(n, g) ELSE 0)

LEMMA WithoutWinner ==
    ASSUME NEW n \in Nat, NEW x, NEW x2, NEW g, NEW C, NEW b, NEW W \in Nat, NEW D \in Nat,
           Integral(n, x), Round(n, x, x2, g, C, b, W, D),
           NEW S \in SUBSET (1..n), b \notin S
    PROVE  SumOver(n, S, x2) = SumOver(n, S, x) + SumOver(n, S, g)
<1>. DEFINE f == Only(n, S, x2)
            a == Only(n, S, x)
            c == Only(n, S, g)
<1>1. Integral(n, g)
  BY DEF Round, Integral
<1>2. \A k \in 1..n : a[k] \in Int /\ c[k] \in Int /\ f[k] = a[k] + c[k]
  <2>1. /\ \A k \in 1..n : a[k] = IF k \in S THEN x[k] ELSE 0
        /\ \A k \in 1..n : c[k] = IF k \in S THEN g[k] ELSE 0
        /\ \A k \in 1..n : f[k] = IF k \in S THEN x2[k] ELSE 0
    BY DEF Only
  <2>2. \A k \in 1..n : k # b => x2[k] = x[k] + g[k]
    <3>1. \A k \in 1..n : k # b => x2[k] = x[k] + g[k] - 0
      BY DEF Round
    <3>. QED
      BY <1>1, <3>1 DEF Integral
  <2>. HIDE DEF f, a, c
  <2>. QED
    BY <1>1, <2>1, <2>2 DEF Integral
<1>. HIDE DEF f, a, c
<1>3. SumTo(n, f) = SumTo(n, a) + SumTo(n, c)
  BY <1>2, SumAdds
<1>. QED
  BY <1>3 DEF SumOver, f, a, c

LEMMA WithWinner ==
    ASSUME NEW n \in Nat, NEW x, NEW x2, NEW g, NEW C, NEW b, NEW W \in Nat, NEW D \in Nat,
           Integral(n, x), Round(n, x, x2, g, C, b, W, D),
           NEW S \in SUBSET (1..n), b \in S
    PROVE  SumOver(n, S, x2) <= SumOver(n, S, x)
<1>. DEFINE total == SumTo(n, g)
            T == S \ {b}
<1>1. Integral(n, g) /\ b \in 1..n /\ total \in Int
  <2>1. Integral(n, g) /\ b \in 1..n
    BY DEF Round, Integral
  <2>2. total \in Int
    BY <2>1, SumType DEF Integral
  <2>. QED
    BY <2>1, <2>2
<1>2. Integral(n, x2) /\ x2[b] = x[b] + g[b] - total
  BY <1>1 DEF Round, Integral
<1>3. S = T \cup {b} /\ T \cap {b} = {}
  OBVIOUS
<1>4. SumOver(n, T, x2) = SumOver(n, T, x) + SumOver(n, T, g)
  <2>1. T \in SUBSET (1..n) /\ b \notin T
    OBVIOUS
  <2>. HIDE DEF T
  <2>. QED
    BY <2>1, WithoutWinner
<1>. HIDE DEF T, total
<1>5. /\ SumOver(n, S, x2) = SumOver(n, T, x2) + x2[b]
      /\ SumOver(n, S, x) = SumOver(n, T, x) + x[b]
      /\ SumOver(n, S, g) = SumOver(n, T, g) + g[b]
  <2>1. b \notin T
    BY <1>3
  <2>2. \A f : Integral(n, f) => SumOver(n, T \cup {b}, f) = SumOver(n, T, f) + f[b]
    <3>. TAKE f
    <3>. SUFFICES ASSUME Integral(n, f) PROVE SumOver(n, T \cup {b}, f) = SumOver(n, T, f) + f[b]
      OBVIOUS
    <3>1. b \in 1..n
      BY <1>1
    <3>. QED
      BY ONLY n \in Nat, <3>1, <2>1, Integral(n, f), OverOneMore
  <2>. QED
    BY <1>1, <1>2, <1>3, <2>2
<1>6. /\ SumOver(n, T, x) \in Int /\ SumOver(n, T, g) \in Int /\ SumOver(n, S, g) \in Int
      /\ x[b] \in Int /\ g[b] \in Int /\ SumOver(n, S, x) \in Int
  BY <1>1, OnlyType DEF Integral
<1>7. SumOver(n, S, g) <= total
  <2>1. \A k \in 1..n : Only(n, S, g)[k] \in Int /\ g[k] \in Int /\ Only(n, S, g)[k] <= g[k]
    <3>1. \A k \in 1..n : Only(n, S, g)[k] = IF k \in S THEN g[k] ELSE 0
      BY <1>1, OnlyType
    <3>2. \A k \in 1..n : g[k] \in Int /\ 0 <= g[k]
      BY DEF Round
    <3>. QED
      BY <3>1, <3>2
  <2>2. SumTo(n, Only(n, S, g)) <= SumTo(n, g)
    BY <2>1, SumGrows
  <2>. QED
    BY <2>2 DEF SumOver, total
<1>. QED
  BY <1>1, <1>2, <1>4, <1>5, <1>6, <1>7

(* The argument: a set that has the winner has not grown. One that does    *)
(* not, and of which m members were candidates, would have had more with   *)
(* the winner or less without those m, which the two bounds forbid.        *)
LEMMA RoundBalances ==
    ASSUME NEW n \in Nat, NEW x, NEW x2, NEW g, NEW C, NEW b, NEW W \in Nat, NEW D \in Nat,
           Integral(n, x), Round(n, x, x2, g, C, b, W, D), Balanced(n, x, 2 * W + D)
    PROVE  Balanced(n, x2, 2 * W + D)
<1>. DEFINE G == 2 * W + D
<1>. SUFFICES ASSUME NEW S \in SUBSET (1..n)
              PROVE  2 * SumOver(n, S, x2) <= G * Quota(n, Number(n, S))
  BY DEF Balanced
<1>1. Integral(n, g) /\ b \in 1..n
  BY DEF Round, Integral
<1>2. Integral(n, x2)
  <2>1. SumTo(n, g) \in Int
    BY <1>1, SumType DEF Integral
  <2>. QED
    BY <1>1, <2>1 DEF Round, Integral
<1>3. /\ SumOver(n, S, x2) \in Int /\ SumOver(n, S, x) \in Int /\ G \in Nat
      /\ Quota(n, Number(n, S)) \in Int /\ G * Quota(n, Number(n, S)) \in Int
  <2>1. SumOver(n, S, x2) \in Int /\ SumOver(n, S, x) \in Int /\ Number(n, S) \in Nat
    BY <1>2, OnlyType, NumberType
  <2>. QED
    BY <2>1 DEF Quota
<1>4. 2 * SumOver(n, S, x) <= G * Quota(n, Number(n, S))
  BY DEF Balanced
<1>5. CASE b \in S
  <2>1. SumOver(n, S, x2) <= SumOver(n, S, x)
    BY <1>5, WithWinner
  <2>. QED
    BY <1>3, <1>4, <2>1
<1>6. CASE b \notin S
  <2>. DEFINE V  == S \cap C
              S0 == S \ C
              S1 == S \cup {b}
              m  == Number(n, V)
              k  == Number(n, S)
              X0 == SumOver(n, S0, x)
              XV == SumOver(n, V, x)
              GV == SumOver(n, V, g)
  <2>1. /\ S = S0 \cup V /\ S0 \cap V = {} /\ S \cap {b} = {}
        /\ S0 \in SUBSET (1..n) /\ S1 \in SUBSET (1..n)
    BY <1>1, <1>6
  <2>2. /\ X0 \in Int /\ XV \in Int /\ GV \in Int /\ m \in Nat /\ k \in Nat
        /\ x[b] \in Int /\ g[b] \in 0..W
    <3>1. x[b] \in Int /\ g[b] \in 0..W
      BY <1>1 DEF Round, Integral
    <3>. QED
      BY <1>1, <3>1, OnlyType, NumberType
  <2>3. SumOver(n, S, x2) = X0 + XV + GV
    <3>. HIDE DEF V, S0
    <3>1. SumOver(n, S, x2) = SumOver(n, S, x) + SumOver(n, S, g)
      BY <1>6, WithoutWinner
    <3>2. SumOver(n, S, x) = X0 + XV /\ SumOver(n, S, g) = SumOver(n, S0, g) + GV
      BY <1>1, <2>1, OverUnion
    <3>3. SumOver(n, S0, g) = 0
      <4>1. \A j \in 1..n : j \in S0 => g[j] = 0
        BY DEF Round, S0
      <4>. QED
        BY <4>1, OverNone
    <3>. QED
      BY <2>2, <3>1, <3>2, <3>3
  <2>4. /\ SumOver(n, S1, x) = X0 + XV + x[b]
        /\ Number(n, S1) = k + 1 /\ Number(n, S0) = k - m
    <3>. HIDE DEF V, S0
    <3>1. SumOver(n, S1, x) = SumOver(n, S, x) + x[b] /\ Number(n, S1) = k + 1
      BY <1>1, <1>6, OverOneMore
    <3>2. SumOver(n, S, x) = X0 + XV
      BY <2>1, OverUnion
    <3>3. k = Number(n, S0) + m
      BY <2>1, OnesType, OverUnion DEF Number
    <3>4. Number(n, S0) \in Nat
      BY NumberType
    <3>. QED
      BY <2>2, <3>1, <3>2, <3>3, <3>4
  <2>5. /\ 2 * (X0 + XV + x[b]) <= G * Quota(n, k + 1)
        /\ 2 * X0 <= G * Quota(n, k - m)
    BY <2>1, <2>4 DEF Balanced
  <2>6. XV + GV <= m * (x[b] + g[b] + D) /\ GV <= m * W
    <3>. DEFINE y == [j \in 1..n |-> x[j] + g[j]]
    <3>1. Integral(n, y) /\ \A j \in 1..n : y[j] = x[j] + g[j]
      BY <1>1 DEF Integral
    <3>. HIDE DEF y
    <3>2. SumOver(n, V, y) = XV + GV
      BY <1>1, <3>1, OverAdds
    <3>3. x[b] + g[b] + D \in Int
      BY <2>2
    <3>4. \A j \in 1..n : j \in V => y[j] <= x[b] + g[b] + D
      <4>1. \A j \in 1..n : j \in V => (x[j] + g[j]) - (x[b] + g[b]) <= D
        BY DEF Round
      <4>2. \A j \in 1..n : x[j] \in Int /\ g[j] \in Int
        BY <1>1 DEF Integral
      <4>. QED
        BY <2>2, <3>1, <4>1, <4>2
    <3>. DEFINE top == x[b] + g[b] + D
    <3>5. SumOver(n, V, y) <= m * top
      <4>. HIDE DEF top, V
      <4>. QED
        BY <3>1, <3>3, <3>4, OverAtMost DEF top
    <3>6. GV <= m * W
      <4>1. \A j \in 1..n : j \in V => g[j] <= W
        BY DEF Round
      <4>. HIDE DEF V
      <4>. QED
        BY <1>1, <4>1, OverAtMost
    <3>. QED
      BY <3>2, <3>5, <3>6
  <2>7. CASE m = 0
    <3>1. 0 <= GV
      <4>. DEFINE none == [j \in 1..n |-> 0]
      <4>1. Integral(n, none) /\ \A j \in 1..n : none[j] <= g[j]
        BY DEF Round, Integral
      <4>2. SumOver(n, V, none) = 0
        BY OverNone
      <4>. HIDE DEF none
      <4>3. SumOver(n, V, none) <= SumOver(n, V, g)
        BY <1>1, <4>1, OverGrows
      <4>. QED
        BY <4>2, <4>3
    <3>2. GV = 0
      BY <2>2, <2>6, <2>7, <3>1
    <3>3. SumOver(n, S, x) = X0 + XV
      <4>. HIDE DEF V, S0
      <4>. QED
        BY <2>1, OverUnion
    <3>. QED
      BY <1>3, <1>4, <2>2, <2>3, <3>2, <3>3
  <2>8. CASE m # 0
    <3>1. m \in Nat \ {0} /\ g[b] \in Int /\ g[b] <= W
      BY <2>2, <2>8
    <3>. HIDE DEF m, k, X0, XV, GV
    <3>2. Bounds(n, k, m, W, D, X0, XV, GV, x[b], g[b])
      BY <2>2, <2>5, <2>6, <3>1 DEF Bounds
    <3>3. 2 * (X0 + XV + GV) <= (2 * W + D) * Quota(n, k)
      BY <3>2, Averaging
    <3>. QED
      BY <2>3, <3>3 DEF k
  <2>. QED
    BY <2>7, <2>8
<1>. QED
  BY <1>5, <1>6

(* What is balanced and adds up to nothing is near zero everywhere. *)
LEMMA BalancedLag ==
    ASSUME NEW n \in Nat, NEW x, NEW G \in Nat, Integral(n, x), Balanced(n, x, G),
           SumTo(n, x) = 0, NEW i \in 1..n
    PROVE  2 * Abs(x[i]) <= (n - 1) * G
<1>1. x[i] \in Int
  BY DEF Integral
<1>2. 2 * x[i] <= G * Quota(n, 1)
  <2>1. SumOver(n, {i}, x) = x[i] /\ Number(n, {i}) = 1
    BY OverOne, OnesType DEF Number
  <2>2. {i} \in SUBSET (1..n)
    OBVIOUS
  <2>. QED
    BY <2>1, <2>2 DEF Balanced
<1>3. 2 * (-x[i]) <= G * Quota(n, n - 1)
  <2>. DEFINE T == (1..n) \ {i}
  <2>1. 1..n = T \cup {i} /\ T \cap {i} = {} /\ T \in SUBSET (1..n)
    OBVIOUS
  <2>. HIDE DEF T
  <2>2. SumOver(n, 1..n, x) = SumOver(n, T, x) + SumOver(n, {i}, x)
    BY <2>1, OverUnion
  <2>3. Number(n, 1..n) = Number(n, T) + Number(n, {i})
    BY <2>1, OverUnion, OnesType DEF Number
  <2>4. SumOver(n, {i}, x) = x[i] /\ Number(n, {i}) = 1
    BY OverOne, OnesType DEF Number
  <2>5. SumOver(n, 1..n, x) = 0 /\ Number(n, 1..n) = n
    BY OverAll, NumberOfAll
  <2>6. SumOver(n, T, x) \in Int /\ Number(n, T) \in Nat
    BY OnlyType, NumberType
  <2>7. SumOver(n, T, x) = -x[i] /\ Number(n, T) = n - 1
    BY <1>1, <2>2, <2>3, <2>4, <2>5, <2>6
  <2>. QED
    BY <2>1, <2>7 DEF Balanced
<1>4. Quota(n, 1) = n - 1 /\ Quota(n, n - 1) = n - 1
  BY DEF Quota
<1>5. G * (n - 1) = (n - 1) * G
  OBVIOUS
<1>. QED
  BY <1>1, <1>2, <1>3, <1>4, <1>5 DEF Abs
-----------------------------------------------------------------------------
USE SchedulerAssumption

(* Weights                                                                 *)

LEMMA AdaptiveBounds ==
    ASSUME NEW u \in Nat \ {0}, NEW r \in Reading, NEW peak \in Nat \ {0}
    PROVE  LET w == AdaptiveWeight(u, r, peak)
           IN  w \in Int /\ 5 * u <= 2 * w /\ w <= 40 * u
<1>. DEFINE load == 100 + 8 * r.active
            fail == 100 + 15 * r.errors
            num  == 500 * (IF 20 * r.rate < peak THEN peak ELSE 20 * r.rate)
            den  == peak * load * fail
<1>1. num \in Nat /\ load \in Int /\ load # 0 /\ fail \in Nat \ {0}
  BY DEF Reading
<1>2. den \in Int /\ den # 0
  <2>. HIDE DEF load, fail, num
  <2>1. peak * load \in Int /\ peak * load # 0
    BY <1>1, TimesNonzero
  <2>. QED
    BY <1>1, <2>1, TimesNonzero
<1>3. AdaptiveWeight(u, r, peak) =
          IF den < 0 \/ 4 * num < den THEN (5 * u + 1) \div 2
          ELSE IF num > 4 * den        THEN 40 * u
          ELSE (20 * u * num + den) \div (2 * den)
  BY DEF AdaptiveWeight
<1>. HIDE DEF num, den
<1>4. CASE den < 0 \/ 4 * num < den
  BY <1>3, <1>4
<1>5. CASE ~(den < 0 \/ 4 * num < den) /\ num > 4 * den
  BY <1>3, <1>5
<1>6. CASE ~(den < 0 \/ 4 * num < den) /\ ~(num > 4 * den)
  <2>1. den \in Nat \ {0} /\ den <= 4 * num /\ num <= 4 * den
    BY <1>1, <1>2, <1>6
  <2>. QED
    BY <1>1, <1>3, <1>6, <2>1, Rounding
<1>. QED
  BY <1>4, <1>5, <1>6

LEMMA ElementOf == ASSUME NEW S, NEW s \in Seq(S), NEW i \in 1..Len(s) PROVE s[i] \in S
  OBVIOUS

LEMMA EntryAt ==
    ASSUME TypeOK
    PROVE  /\ Len(entries) \in Nat
           /\ \A i \in Positions :
                  /\ entries[i] \in Entry
                  /\ entries[i].id \in Adapters /\ entries[i].weight \in Nat \ {0}
                  /\ stats[entries[i].id] \in Reading
<1>1. entries \in Seq(Entry) /\ stats \in [Adapters -> Reading]
  BY DEF TypeOK
<1>2. Len(entries) \in Nat
  BY <1>1
<1>3. \A i \in Positions : entries[i] \in Entry
  BY <1>1, ElementOf DEF Positions
<1>. QED
  BY <1>1, <1>2, <1>3 DEF Entry

LEMMA MaxRateType == TypeOK => MaxRate \in Nat
<1>. SUFFICES ASSUME TypeOK PROVE MaxRate \in Nat
  OBVIOUS
<1>. DEFINE step == [i \in Positions |-> [m \in Nat |->
                IF stats[entries[i].id].rate > m THEN stats[entries[i].id].rate ELSE m]]
            P    == [k \in Nat |-> Nat]
<1>1. Len(entries) \in Nat /\ \A i \in Positions : stats[entries[i].id].rate \in Nat
  BY EntryAt DEF Reading
<1>2. \A k \in 1..Len(entries) : \A acc \in P[k-1] : step[k][acc] \in P[k]
  BY <1>1 DEF Positions
<1>3. 0 \in P[0]
  OBVIOUS
<1>. HIDE DEF step, P
<1>4. Loop(Len(entries), 0, step) \in P[Len(entries)]
  BY <1>1, <1>2, <1>3, LoopInvariant
<1>. QED
  BY <1>1, <1>4 DEF MaxRate, step, P

(* The weight of every entry keeps its bounds. *)
LEMMA WeightOf ==
    ASSUME TypeOK, NEW i \in Positions
    PROVE  LET w == EffectiveWeight(i)
               u == entries[i].weight
           IN  /\ w \in Int /\ w >= 1 /\ w <= 40 * u
               /\ w < u => Demoted(entries[i].id)
               /\ mode = "adaptive" /\ Len(entries) >= 2 /\ MaxRate >= ColdRate
                    /\ ~Demoted(entries[i].id) => 2 * w >= 5 * u
<1>1. /\ entries[i].id \in Adapters /\ entries[i].weight \in Nat \ {0}
      /\ stats[entries[i].id] \in Reading
  BY EntryAt
<1>2. CASE Demoted(entries[i].id)
  BY <1>1, <1>2 DEF EffectiveWeight
<1>3. CASE ~Demoted(entries[i].id) /\ (mode # "adaptive" \/ Len(entries) < 2 \/ MaxRate < ColdRate)
  BY <1>1, <1>3, MaxRateType DEF EffectiveWeight, TypeOK, ColdRate
<1>4. CASE ~Demoted(entries[i].id) /\ ~(mode # "adaptive" \/ Len(entries) < 2 \/ MaxRate < ColdRate)
  <2>1. MaxRate \in Nat \ {0}
    BY <1>4, MaxRateType DEF ColdRate
  <2>2. EffectiveWeight(i) = AdaptiveWeight(entries[i].weight, stats[entries[i].id], MaxRate)
    BY <1>4 DEF EffectiveWeight
  <2>. DEFINE w == AdaptiveWeight(entries[i].weight, stats[entries[i].id], MaxRate)
  <2>3. w \in Int /\ 5 * entries[i].weight <= 2 * w /\ w <= 40 * entries[i].weight
    BY <1>1, <2>1, AdaptiveBounds
  <2>. HIDE DEF w
  <2>. QED
    BY <1>1, <2>2, <2>3 DEF w
<1>. QED
  BY <1>2, <1>3, <1>4

(* Whatever the registry reports, every weight keeps its bounds.           *)
LEMMA WeightsBounded == TypeOK => WeightBounds
  BY WeightOf DEF WeightBounds
-----------------------------------------------------------------------------
(* Types                                                                   *)

(* What the end of a loop changes of a pick. *)
Shaped(p) == p = [stage |-> p.stage, left |-> p.left, exclude |-> p.exclude, skipped |-> p.skipped,
                  added |-> p.added, best |-> p.best, due |-> p.due]

LEMMA OnwardFields ==
    ASSUME NEW p, Shaped(p)
    PROVE  LET q == Onward(p) IN
           /\ Shaped(q)
           /\ q.exclude = p.exclude /\ q.skipped = p.skipped /\ q.added = p.added
           /\ q.best = p.best /\ q.due = p.due
           /\ p.left # {} => q = p
           /\ p.left = {} /\ p.stage = "scan" => q.stage = "pay" /\ q.left = NonExcluded(p.exclude)
           /\ p.left = {} /\ p.stage # "scan" /\ DOMAIN p.added = {} =>
                  q.stage = "again" /\ q.left = NonExcluded(p.exclude)
           /\ p.left = {} /\ p.stage # "scan" /\ DOMAIN p.added # {} =>
                  q.stage = "scan" /\ q.left = DOMAIN p.added
  BY DEF Onward, Shaped

LEMMA ExtendedIs ==
    ASSUME NEW f, f \in [DOMAIN f -> Nat \ {0}], NEW i, NEW w \in Nat \ {0}
    PROVE  /\ Extended(f, i, w) \in [DOMAIN f \cup {i} -> Nat \ {0}]
           /\ DOMAIN Extended(f, i, w) = DOMAIN f \cup {i}
           /\ Extended(f, i, w)[i] = w
           /\ \A j \in DOMAIN f : j # i => Extended(f, i, w)[j] = f[j]
  BY DEF Extended

LEMMA UnlockedOk == pick = NoPick => PickOk
<1>. SUFFICES ASSUME pick = NoPick PROVE PickOk
  OBVIOUS
<1>1. NoPick.added \in [{} -> Nat \ {0}] /\ NoPick.due \in [{} -> Nat \ {0}]
  BY DEF NoPick
<1>2. DOMAIN NoPick.added = {} /\ DOMAIN NoPick.due = {}
  BY DEF NoPick
<1>. QED
  BY <1>1, <1>2 DEF PickOk, PickAmong, NoPick

(* What a step of a pick makes of it, before the loop is found to end. *)
Skipping(p, i)    == [p EXCEPT !.left = @ \ {i}, !.skipped = @ \cup {i}]
Weighing(p, i, w) == [p EXCEPT !.left = @ \ {i}, !.added = Extended(@, i, w)]
Scanning(p, i, b) == [p EXCEPT !.left = @ \ {i}, !.best = b]
Paying(p, i, w)   == [p EXCEPT !.left = @ \ {i}, !.due = Extended(@, i, w)]

(* Each step keeps the shape of the pick. *)
LEMMA SkipKeeps ==
    ASSUME NEW p, NEW i \in p.left, PickAmong(p, NonExcluded(p.exclude)), p.stage = "weigh",
           NEW q, q = Onward(Skipping(p, i))
    PROVE  PickAmong(q, NonExcluded(q.exclude)) /\ q.exclude = p.exclude /\ q.added = p.added
           /\ q.skipped = p.skipped \cup {i} /\ q.due = p.due /\ q.best = p.best
<1>0. PICK m : m = Skipping(p, i)
  OBVIOUS
<1>. DEFINE free == NonExcluded(p.exclude)
<1>1. Shaped(p)
  BY DEF PickAmong, Shaped
<1>2. /\ Shaped(m) /\ m.left = p.left \ {i} /\ m.skipped = p.skipped \cup {i}
      /\ m.stage = p.stage /\ m.exclude = p.exclude /\ m.added = p.added
      /\ m.best = p.best /\ m.due = p.due
  BY <1>0, <1>1 DEF Shaped, Skipping
<1>3. q = Onward(m)
  BY <1>0
<1>. HIDE DEF free
<1>4. /\ Shaped(q) /\ q.exclude = p.exclude /\ q.skipped = p.skipped \cup {i} /\ q.added = p.added
      /\ q.best = p.best /\ q.due = p.due
      /\ \/ q.stage = "weigh" /\ q.left = p.left \ {i} /\ q.left # {}
         \/ q.stage = "again" /\ q.left = free /\ DOMAIN p.added = {} /\ p.left = {i}
         \/ q.stage = "scan" /\ q.left = DOMAIN p.added /\ DOMAIN p.added # {}
  BY <1>2, <1>3, OnwardFields DEF free
<1>5. /\ p.left \subseteq free /\ p.skipped \subseteq free /\ free # {}
      /\ DOMAIN p.added \subseteq free /\ p.exclude \subseteq Adapters
      /\ p.added \in [DOMAIN p.added -> Nat \ {0}] /\ p.due \in [DOMAIN p.due -> Nat \ {0}]
      /\ DOMAIN p.due = {} /\ p.best = 0 /\ free = p.left \cup p.skipped \cup DOMAIN p.added
      /\ p.left \cap DOMAIN p.added = {}
  BY DEF PickAmong, free
<1>6. 0 \notin free
  BY DEF free, NonExcluded, Positions
<1>. HIDE DEF NonExcluded
<1>7. PickAmong(q, free)
  BY <1>4, <1>5, <1>6 DEF PickAmong, Shaped
<1>. QED
  BY <1>4, <1>7 DEF free

LEMMA WeighKeeps ==
    ASSUME NEW p, NEW i \in p.left, NEW w \in Nat \ {0}, PickAmong(p, NonExcluded(p.exclude)),
           p.stage \in {"weigh", "again"},
           NEW q, q = Onward(Weighing(p, i, w))
    PROVE  PickAmong(q, NonExcluded(q.exclude)) /\ q.exclude = p.exclude
           /\ q.added = Extended(p.added, i, w) /\ q.skipped = p.skipped /\ q.due = p.due
           /\ q.best = p.best
           /\ (q.stage = p.stage \/ (q.stage = "scan" /\ p.left = {i}))
<1>0. PICK m : m = Weighing(p, i, w)
  OBVIOUS
<1>. DEFINE free == NonExcluded(p.exclude)
<1>1. Shaped(p)
  BY DEF PickAmong, Shaped
<1>2. /\ Shaped(m) /\ m.left = p.left \ {i} /\ m.added = Extended(p.added, i, w)
      /\ m.stage = p.stage /\ m.exclude = p.exclude /\ m.skipped = p.skipped
      /\ m.best = p.best /\ m.due = p.due
  BY <1>0, <1>1 DEF Shaped, Weighing
<1>3. q = Onward(m)
  BY <1>0
<1>. HIDE DEF free
<1>4. /\ p.left \subseteq free /\ p.skipped \subseteq free /\ free # {}
      /\ DOMAIN p.added \subseteq free /\ p.exclude \subseteq Adapters
      /\ p.added \in [DOMAIN p.added -> Nat \ {0}] /\ p.due \in [DOMAIN p.due -> Nat \ {0}]
      /\ DOMAIN p.due = {} /\ p.best = 0 /\ p.left \cap DOMAIN p.added = {}
      /\ p.stage = "weigh" => free = p.left \cup p.skipped \cup DOMAIN p.added
      /\ p.stage = "again" => free = p.left \cup DOMAIN p.added /\ free = p.skipped
  BY DEF PickAmong, free
<1>5. /\ Extended(p.added, i, w) \in [DOMAIN p.added \cup {i} -> Nat \ {0}]
      /\ DOMAIN Extended(p.added, i, w) = DOMAIN p.added \cup {i}
  BY <1>4 DEF Extended
<1>. m.left = {} => p.left = {i}
  BY <1>2
<1>6. /\ Shaped(q) /\ q.exclude = p.exclude /\ q.skipped = p.skipped
      /\ q.added = Extended(p.added, i, w) /\ q.best = p.best /\ q.due = p.due
      /\ \/ q.stage = p.stage /\ q.left = p.left \ {i} /\ q.left # {}
         \/ q.stage = "scan" /\ q.left = DOMAIN q.added /\ p.left = {i}
  BY <1>2, <1>3, <1>5, OnwardFields
<1>7. 0 \notin free
  BY DEF free, NonExcluded, Positions
<1>8. /\ q.added \in [DOMAIN q.added -> Nat \ {0}] /\ DOMAIN q.added = DOMAIN p.added \cup {i}
      /\ i \in free
  BY <1>4, <1>5, <1>6
<1>. HIDE DEF NonExcluded
<1>9. PickAmong(q, free)
  BY <1>4, <1>6, <1>7, <1>8 DEF PickAmong, Shaped
<1>. QED
  BY <1>6, <1>9 DEF free

LEMMA ScanKeeps ==
    ASSUME NEW p, NEW i \in p.left, NEW b \in {i, p.best}, b # 0, PickAmong(p, NonExcluded(p.exclude)),
           p.stage = "scan", NEW q, q = Onward(Scanning(p, i, b))
    PROVE  /\ PickAmong(q, NonExcluded(q.exclude)) /\ q.exclude = p.exclude /\ q.added = p.added
           /\ q.skipped = p.skipped /\ q.best = b /\ q.due = p.due
           /\ \/ q.stage = "scan" /\ q.left = p.left \ {i}
              \/ q.stage = "pay" /\ p.left = {i}
<1>0. PICK m : m = Scanning(p, i, b)
  OBVIOUS
<1>. DEFINE free == NonExcluded(p.exclude)
<1>1. Shaped(p)
  BY DEF PickAmong, Shaped
<1>2. /\ Shaped(m) /\ m.left = p.left \ {i} /\ m.best = b
      /\ m.stage = p.stage /\ m.exclude = p.exclude /\ m.skipped = p.skipped
      /\ m.added = p.added /\ m.due = p.due
  BY <1>0, <1>1 DEF Shaped, Scanning
<1>3. q = Onward(m)
  BY <1>0
<1>. HIDE DEF free
<1>4. /\ Shaped(q) /\ q.exclude = p.exclude /\ q.skipped = p.skipped /\ q.added = p.added
      /\ q.best = b /\ q.due = p.due
      /\ \/ q.stage = "scan" /\ q.left = p.left \ {i} /\ q.left # {}
         \/ q.stage = "pay" /\ q.left = free /\ p.left = {i}
  BY <1>2, <1>3, OnwardFields DEF free
<1>5. /\ p.skipped \subseteq free /\ free # {}
      /\ DOMAIN p.added \subseteq free /\ p.exclude \subseteq Adapters
      /\ p.added \in [DOMAIN p.added -> Nat \ {0}] /\ p.due \in [DOMAIN p.due -> Nat \ {0}]
      /\ DOMAIN p.due = {} /\ p.best \in DOMAIN p.added \cup {0}
      /\ p.left \subseteq DOMAIN p.added \ {p.best}
  BY DEF PickAmong, free
<1>6. b \in DOMAIN p.added /\ p.left \ {i} \subseteq DOMAIN p.added \ {b}
  BY <1>5
<1>. HIDE DEF NonExcluded
<1>7. PickAmong(q, free)
  BY <1>4, <1>5, <1>6 DEF PickAmong, Shaped
<1>. QED
  BY <1>4, <1>7 DEF free

LEMMA PayKeeps ==
    ASSUME NEW p, NEW i \in p.left, NEW w \in Nat \ {0}, PickAmong(p, NonExcluded(p.exclude)),
           p.stage = "pay", p.left # {i},
           NEW q, q = Paying(p, i, w)
    PROVE  /\ PickAmong(q, NonExcluded(q.exclude)) /\ q.exclude = p.exclude /\ q.added = p.added
           /\ q.skipped = p.skipped /\ q.best = p.best /\ q.due = Extended(p.due, i, w)
           /\ q.stage = "pay" /\ q.left = p.left \ {i}
<1>. DEFINE free == NonExcluded(p.exclude)
<1>1. Shaped(p)
  BY DEF PickAmong, Shaped
<1>2. /\ Shaped(q) /\ q.left = p.left \ {i} /\ q.due = Extended(p.due, i, w)
      /\ q.stage = p.stage /\ q.exclude = p.exclude /\ q.skipped = p.skipped
      /\ q.added = p.added /\ q.best = p.best
  BY <1>1 DEF Shaped, Paying
<1>. HIDE DEF free
<1>3. /\ p.left \subseteq free /\ p.skipped \subseteq free /\ free # {}
      /\ DOMAIN p.added \subseteq free /\ p.exclude \subseteq Adapters
      /\ p.added \in [DOMAIN p.added -> Nat \ {0}] /\ p.due \in [DOMAIN p.due -> Nat \ {0}]
      /\ DOMAIN p.due \subseteq free /\ p.best \in DOMAIN p.added /\ p.best # 0
      /\ free = p.left \cup DOMAIN p.due
  BY DEF PickAmong, free
<1>4. /\ Extended(p.due, i, w) \in [DOMAIN p.due \cup {i} -> Nat \ {0}]
      /\ DOMAIN Extended(p.due, i, w) = DOMAIN p.due \cup {i}
  BY <1>3 DEF Extended
<1>5. q.due \in [DOMAIN q.due -> Nat \ {0}] /\ DOMAIN q.due = DOMAIN p.due \cup {i} /\ i \in free
  BY <1>2, <1>3, <1>4
<1>6. p.left \ {i} # {}
  OBVIOUS
<1>. HIDE DEF NonExcluded
<1>7. PickAmong(q, free)
  BY <1>2, <1>3, <1>5, <1>6 DEF PickAmong, Shaped
<1>. QED
  BY <1>2, <1>7 DEF free

LEMMA KeptType ==
    ASSUME NEW config \in Seq(ConfigEntry)
    PROVE  Loop(Len(config), <<>>, [i \in 1..Len(config) |-> [acc \in Seq(Entry) |->
               IF config[i].ipv4
               THEN Append(acc, [id |-> config[i].id, weight |-> AtLeastOne(config[i].weight)])
               ELSE acc]]) \in Seq(Entry)
<1>. DEFINE step == [i \in 1..Len(config) |-> [acc \in Seq(Entry) |->
               IF config[i].ipv4
               THEN Append(acc, [id |-> config[i].id, weight |-> AtLeastOne(config[i].weight)])
               ELSE acc]]
            P == [k \in Nat |-> Seq(Entry)]
<1>1. Len(config) \in Nat /\ <<>> \in P[0]
  OBVIOUS
<1>2. \A k \in 1..Len(config) : \A acc \in P[k-1] : step[k][acc] \in P[k]
  <2>. TAKE k \in 1..Len(config)
  <2>. TAKE acc \in P[k-1]
  <2>1. k \in Nat /\ acc \in Seq(Entry)
    BY <1>1
  <2>2. config[k] \in ConfigEntry
    BY ElementOf
  <2>3. [id |-> config[k].id, weight |-> AtLeastOne(config[k].weight)] \in Entry
    BY <2>2 DEF ConfigEntry, Entry, AtLeastOne
  <2>. QED
    BY <2>1, <2>3
<1>. HIDE DEF step, P
<1>3. Loop(Len(config), <<>>, step) \in P[Len(config)]
  BY <1>1, <1>2, LoopInvariant
<1>. QED
  BY <1>1, <1>3 DEF step, P

(* What each step of a pick does to it. *)
LEMMA StartIs ==
    ASSUME TypeOK, NEW ex \in Excludes, StartPick(ex)
    PROVE  /\ PickOk' /\ pick'.stage = "weigh" /\ pick'.exclude = ex /\ pick'.best = 0
           /\ pick'.skipped = {} /\ DOMAIN pick'.added = {} /\ DOMAIN pick'.due = {}
<1>. PICK q : q = pick'
  OBVIOUS
<1>1. /\ q = [stage |-> "weigh", left |-> NonExcluded(ex), exclude |-> ex, skipped |-> {},
              added |-> NoPick.added, best |-> 0, due |-> NoPick.due]
      /\ NonExcluded(ex) # {} /\ ex \subseteq Adapters /\ NonExcluded(ex)' = NonExcluded(ex)
  BY DEF StartPick, NoPick, NoAdapters, NonExcluded, Positions
<1>2. NoPick.added \in [{} -> Nat \ {0}] /\ NoPick.due \in [{} -> Nat \ {0}]
      /\ DOMAIN NoPick.added = {} /\ DOMAIN NoPick.due = {}
  BY DEF NoPick
<1>. HIDE DEF NonExcluded
<1>3. PickAmong(q, NonExcluded(ex))
  BY <1>1, <1>2 DEF PickAmong
<1>. QED
  BY <1>1, <1>2, <1>3 DEF PickOk

LEMMA SkipIs ==
    ASSUME TypeOK, NEW i \in Positions, SkipEntry(i)
    PROVE  /\ PickOk' /\ pick'.exclude = pick.exclude /\ pick'.added = pick.added /\ pick'.best = 0
           /\ pick'.skipped = pick.skipped \cup {i} /\ pick'.due = pick.due
           /\ ~Unlocked /\ HardDemoted(entries[i].id)
<1>. PICK p : p = pick
  OBVIOUS
<1>. PICK q : q = pick'
  OBVIOUS
<1>1. /\ i \in p.left /\ p.stage = "weigh" /\ PickAmong(p, NonExcluded(p.exclude))
      /\ q = Onward(Skipping(p, i))
      /\ p.best = 0
  BY DEF Skipping, SkipEntry, Turn, Skips, TypeOK, PickOk, PickAmong
<1>2. PickAmong(q, NonExcluded(q.exclude)) /\ q.exclude = p.exclude /\ q.added = p.added
      /\ q.skipped = p.skipped \cup {i} /\ q.due = p.due /\ q.best = p.best
  BY <1>1, SkipKeeps
<1>3. NonExcluded(q.exclude) = NonExcluded(q.exclude)'
  BY DEF SkipEntry, NonExcluded, Positions
<1>. QED
  BY <1>1, <1>2, <1>3 DEF PickOk, Unlocked, SkipEntry, Skips

LEMMA WeighIs ==
    ASSUME TypeOK, NEW i \in Positions, WeighEntry(i)
    PROVE  /\ PickOk' /\ pick'.exclude = pick.exclude /\ pick'.skipped = pick.skipped
           /\ pick'.added = Extended(pick.added, i, EffectiveWeight(i))
           /\ pick'.due = pick.due /\ pick'.best = 0 /\ ~Unlocked /\ DOMAIN pick.due = {}
           /\ pick'.stage = pick.stage \/ (pick'.stage = "scan" /\ pick.left = {i})
           /\ pick.stage \in {"weigh", "again"}
           /\ i \in NonExcluded(pick.exclude) /\ i \notin DOMAIN pick.added
<1>. PICK p : p = pick
  OBVIOUS
<1>. PICK q : q = pick'
  OBVIOUS
<1>. PICK w : w = EffectiveWeight(i)
  OBVIOUS
<1>1. /\ i \in p.left /\ p.stage \in {"weigh", "again"} /\ PickAmong(p, NonExcluded(p.exclude))
      /\ q = Onward(Weighing(p, i, w))
  BY DEF Weighing, WeighEntry, Turn, TypeOK, PickOk
<1>2. /\ p.best = 0 /\ i \in NonExcluded(p.exclude) /\ i \notin DOMAIN p.added
      /\ DOMAIN p.due = {}
  BY <1>1 DEF PickAmong
<1>3. w \in Nat \ {0}
  BY WeightOf
<1>4. PickAmong(q, NonExcluded(q.exclude)) /\ q.exclude = p.exclude
      /\ q.added = Extended(p.added, i, w) /\ q.skipped = p.skipped /\ q.due = p.due
      /\ q.best = p.best
      /\ (q.stage = p.stage \/ (q.stage = "scan" /\ p.left = {i}))
  BY <1>1, <1>3, WeighKeeps
<1>5. NonExcluded(q.exclude) = NonExcluded(q.exclude)'
  BY DEF WeighEntry, NonExcluded, Positions
<1>. QED
  BY <1>1, <1>2, <1>4, <1>5 DEF PickOk, Unlocked

LEMMA ScanIs ==
    ASSUME TypeOK, NEW i \in Positions, ScanEntry(i)
    PROVE  /\ PickOk' /\ pick'.exclude = pick.exclude /\ pick'.skipped = pick.skipped
           /\ pick'.added = pick.added /\ pick'.due = pick.due /\ ~Unlocked /\ ~Unlocked'
           /\ i \in pick.left /\ pick.stage = "scan"
           /\ pick'.best = IF pick.best = 0 \/ Displaces(i, pick.best) THEN i ELSE pick.best
           /\ \/ pick'.stage = "scan" /\ pick'.left = pick.left \ {i}
              \/ pick'.stage = "pay" /\ pick.left = {i}
<1>. PICK p : p = pick
  OBVIOUS
<1>. PICK q : q = pick'
  OBVIOUS
<1>. PICK b : b = IF pick.best = 0 \/ Displaces(i, pick.best) THEN i ELSE pick.best
  OBVIOUS
<1>1. /\ i \in p.left /\ p.stage = "scan" /\ PickAmong(p, NonExcluded(p.exclude))
      /\ q = Onward(Scanning(p, i, b))
  BY DEF Scanning, ScanEntry, Turn, TypeOK, PickOk
<1>2. b \in {i, p.best} /\ b # 0
  BY EntryAt DEF Positions
<1>3. /\ PickAmong(q, NonExcluded(q.exclude)) /\ q.exclude = p.exclude /\ q.added = p.added
      /\ q.skipped = p.skipped /\ q.best = b /\ q.due = p.due
      /\ \/ q.stage = "scan" /\ q.left = p.left \ {i}
         \/ q.stage = "pay" /\ p.left = {i}
  BY <1>1, <1>2, ScanKeeps
<1>4. NonExcluded(q.exclude) = NonExcluded(q.exclude)'
  BY DEF ScanEntry, NonExcluded, Positions
<1>. QED
  BY <1>1, <1>3, <1>4 DEF PickOk, Unlocked

LEMMA PayIs ==
    ASSUME TypeOK, NEW i \in Positions, PayEntry(i)
    PROVE  /\ PickOk' /\ pick'.exclude = pick.exclude /\ pick'.skipped = pick.skipped
           /\ pick'.added = pick.added /\ pick'.due = Extended(pick.due, i, EffectiveWeight(i))
           /\ ~Unlocked /\ ~Unlocked' /\ pick'.best = pick.best
           /\ pick.stage = "pay" /\ pick'.stage = "pay" /\ pick'.left = pick.left \ {i}
           /\ i \in NonExcluded(pick.exclude)
<1>. PICK p : p = pick
  OBVIOUS
<1>. PICK q : q = pick'
  OBVIOUS
<1>. PICK w : w = EffectiveWeight(i)
  OBVIOUS
<1>1. /\ i \in p.left /\ p.stage = "pay" /\ p.left # {i} /\ PickAmong(p, NonExcluded(p.exclude))
      /\ q = Paying(p, i, w)
  BY DEF Paying, PayEntry, Turn, TypeOK, PickOk
<1>2. w \in Nat \ {0} /\ i \in NonExcluded(p.exclude)
  BY <1>1, WeightOf DEF PickAmong
<1>3. /\ PickAmong(q, NonExcluded(q.exclude)) /\ q.exclude = p.exclude /\ q.added = p.added
      /\ q.skipped = p.skipped /\ q.best = p.best /\ q.due = Extended(p.due, i, w)
      /\ q.stage = "pay" /\ q.left = p.left \ {i}
  BY <1>1, <1>2, PayKeeps
<1>4. NonExcluded(q.exclude) = NonExcluded(q.exclude)'
  BY DEF PayEntry, NonExcluded, Positions
<1>. QED
  BY <1>1, <1>2, <1>3, <1>4 DEF PickOk, Unlocked

(* What the winner is about to pay. *)
Due(i) == Extended(pick.due, i, EffectiveWeight(i))

LEMMA SettleIs ==
    ASSUME TypeOK, NEW i \in Positions, Settle(i)
    PROVE  /\ pick' = NoPick /\ Unlocked' /\ ~Unlocked /\ pick.stage = "pay"
           /\ pick.best \in DOMAIN pick.added /\ pick.best \in Positions
           /\ DOMAIN Due(i) = NonExcluded(pick.exclude)
           /\ Due(i) \in [NonExcluded(pick.exclude) -> Nat \ {0}]
<1>. PICK p : p = pick
  OBVIOUS
<1>. PICK w : w = EffectiveWeight(i)
  OBVIOUS
<1>1. /\ p.stage = "pay" /\ p.left = {i} /\ PickAmong(p, NonExcluded(p.exclude))
  BY DEF Settle, TypeOK, PickOk
<1>2. /\ p.best \in DOMAIN p.added /\ DOMAIN p.added \subseteq NonExcluded(p.exclude)
      /\ NonExcluded(p.exclude) = {i} \cup DOMAIN p.due
      /\ p.due \in [DOMAIN p.due -> Nat \ {0}]
  BY <1>1 DEF PickAmong
<1>3. w \in Nat \ {0} /\ NonExcluded(p.exclude) \subseteq Positions
  BY WeightOf DEF NonExcluded
<1>4. /\ Extended(p.due, i, w) \in [DOMAIN p.due \cup {i} -> Nat \ {0}]
      /\ DOMAIN Extended(p.due, i, w) = DOMAIN p.due \cup {i}
  BY <1>2, <1>3 DEF Extended
<1>. QED
  BY <1>1, <1>2, <1>3, <1>4 DEF Due, Settle, Unlocked, NoPick

(* The steps of a pick. *)
LEMMA StartType == ASSUME TypeOK, NEW ex \in Excludes, StartPick(ex) PROVE TypeOK'
  BY StartIs DEF TypeOK, StartPick, Positions

LEMMA PassingType == ASSUME TypeOK, Passing PROVE TypeOK'
<1>1. ASSUME NEW i \in Positions, SkipEntry(i) PROVE TypeOK'
  BY <1>1, SkipIs DEF TypeOK, SkipEntry, Positions
<1>2. ASSUME NEW i \in Positions, WeighEntry(i) PROVE TypeOK'
  <2>1. current' \in [Positions -> Int]
    BY <1>2, WeightOf DEF TypeOK, WeighEntry
  <2>. QED
    BY <1>2, <2>1, WeighIs DEF TypeOK, WeighEntry, Positions
<1>3. ASSUME NEW i \in Positions, ScanEntry(i) PROVE TypeOK'
  BY <1>3, ScanIs DEF TypeOK, ScanEntry, Positions
<1>4. ASSUME NEW i \in Positions, PayEntry(i) PROVE TypeOK'
  BY <1>4, PayIs DEF TypeOK, PayEntry, Positions
<1>. QED
  BY <1>1, <1>2, <1>3, <1>4 DEF Passing

LEMMA SubTotalType ==
    ASSUME TypeOK, NEW due, \A i \in DOMAIN due : due[i] \in Int PROVE SubTotal(due) \in Int
<1>. DEFINE f == [i \in Positions |-> IF i \in DOMAIN due THEN due[i] ELSE 0]
<1>1. Len(entries) \in Nat /\ \A k \in 1..Len(entries) : f[k] \in Int
  BY EntryAt DEF Positions
<1>. HIDE DEF f
<1>2. SumTo(Len(entries), f) \in Int
  BY <1>1, SumType
<1>. QED
  BY <1>2 DEF SubTotal, f

LEMMA SettleType == ASSUME TypeOK, NEW i \in Positions, Settle(i) PROVE TypeOK'
<1>1. current' \in [Positions -> Int]
  <2>1. SubTotal(Due(i)) \in Int
    <3>1. \A k \in DOMAIN Due(i) : Due(i)[k] \in Int
      BY SettleIs
    <3>. QED
      BY <3>1, SubTotalType
  <2>2. current \in [Positions -> Int] /\ pick.best \in Positions
    BY SettleIs DEF TypeOK
  <2>3. current' = [current EXCEPT ![pick.best] = @ - SubTotal(Due(i))]
    BY DEF Settle, Due
  <2>. QED
    BY <2>1, <2>2, <2>3
<1>2. PickOk'
  <2>1. (pick = NoPick => PickOk)'
    BY UnlockedOk, PTL
  <2>. QED
    BY <2>1, SettleIs
<1>. QED
  BY <1>1, <1>2 DEF TypeOK, Settle, Positions

LEMMA UnlockedIs == TypeOK /\ Unlocked => pick = NoPick
  BY DEF TypeOK, Unlocked, PickOk, PickAmong

LEMMA SetEntriesType == ASSUME TypeOK, NEW config \in Configs, SetEntries(config) PROVE TypeOK'
<1>1. entries' \in Seq(Entry)
  BY KeptType DEF SetEntries
<1>2. current' \in [Positions' -> Int]
  BY DEF SetEntries, Positions
<1>3. PickOk'
  <2>1. pick' = NoPick
    BY UnlockedIs DEF SetEntries
  <2>2. (pick = NoPick => PickOk)'
    BY UnlockedOk, PTL
  <2>. QED
    BY <2>1, <2>2
<1>. QED
  BY <1>1, <1>2, <1>3 DEF TypeOK, SetEntries

LEMMA HealthType ==
    ASSUME TypeOK, UNCHANGED <<entries, current, mode, pick>>,
           health' \in [Adapters -> [fails : 0..3, demote : 0..HardTicks]],
           stats' \in [Adapters -> Reading]
    PROVE  TypeOK'
<1>1. PickOk'
  BY DEF TypeOK, PickOk, NonExcluded, Positions
<1>. QED
  BY <1>1 DEF TypeOK, Positions

LEMMA NextType == TypeOK /\ [Next]_vars => TypeOK'
<1>. SUFFICES ASSUME TypeOK, [Next]_vars PROVE TypeOK'
  OBVIOUS
<1>1. ASSUME NEW ex \in Excludes, StartPick(ex) PROVE TypeOK'
  BY <1>1, StartType
<1>2. ASSUME NEW config \in Configs, SetEntries(config) PROVE TypeOK'
  BY <1>2, SetEntriesType
<1>3. ASSUME NEW m \in ModeArgs, SetMode(m) PROVE TypeOK'
  <2>1. PickOk'
    BY <1>3 DEF SetMode, TypeOK, PickOk, NonExcluded, Positions
  <2>. QED
    BY <1>3, <2>1 DEF SetMode, TypeOK, Positions
<1>4. ASSUME NEW a \in Failing, RecordDialFailure(a) PROVE TypeOK'
  <2>. DEFINE n == IF health[a].fails = 3 THEN 3 ELSE health[a].fails + 1
              d == IF n >= 3 THEN HardTicks ELSE IF n >= 2 THEN SoftTicks ELSE health[a].demote
  <2>2. a \in Adapters /\ health \in [Adapters -> [fails : 0..3, demote : 0..HardTicks]]
    BY DEF TypeOK
  <2>3. n \in 0..3 /\ d \in 0..HardTicks
    BY <2>2
  <2>4. health' = [health EXCEPT ![a] = [fails |-> n, demote |-> d]]
    BY <1>4 DEF RecordDialFailure
  <2>. HIDE DEF n, d
  <2>1. health' \in [Adapters -> [fails : 0..3, demote : 0..HardTicks]]
    BY <2>2, <2>3, <2>4
  <2>. QED
    BY <1>4, <2>1, HealthType DEF RecordDialFailure, TypeOK
<1>5. ASSUME NEW a \in Adapters, RecordDialSuccess(a) PROVE TypeOK'
  <2>1. health' \in [Adapters -> [fails : 0..3, demote : 0..HardTicks]]
    BY <1>5 DEF RecordDialSuccess, TypeOK, Healthy
  <2>. QED
    BY <1>5, <2>1, HealthType DEF RecordDialSuccess, TypeOK
<1>6. CASE Tick
  <2>1. health' \in [Adapters -> [fails : 0..3, demote : 0..HardTicks]]
    BY <1>6 DEF Tick, TypeOK, Demoted
  <2>. QED
    BY <1>6, <2>1, HealthType DEF Tick, TypeOK
<1>7. ASSUME NEW readings \in [Adapters -> Readings], Observe(readings) PROVE TypeOK'
  BY <1>7, HealthType DEF Observe, TypeOK
<1>8. CASE UNCHANGED vars
  BY <1>8, HealthType DEF vars, TypeOK
<1>. QED
  BY <1>1, <1>2, <1>3, <1>4, <1>5, <1>6, <1>7, <1>8, PassingType, SettleType DEF Next

LEMMA InitType == Init => TypeOK
<1>. SUFFICES ASSUME Init PROVE TypeOK
  OBVIOUS
<1>1. PickOk
  BY UnlockedOk DEF Init
<1>2. entries \in Seq(Entry) /\ current \in [Positions -> Int]
  BY DEF Init, Positions
<1>. QED
  BY <1>1, <1>2 DEF Init, TypeOK, Healthy, Reading

(* Every reachable state is of the expected shape: in particular a pick    *)
(* always finds a best entry among those it weighed, and no weight is      *)
(* below one.                                                              *)
THEOREM TypeCorrect == Spec => []TypeOK
  BY InitType, NextType, PTL DEF Spec

(* Whatever user weights, modes and readings there are, negative counters  *)
(* of connections included, weights keep their bounds.                     *)
THEOREM Bounded == Spec => []WeightBounds
  BY TypeCorrect, WeightsBounded, PTL
-----------------------------------------------------------------------------
(* The scores below the cold rate                                          *)

ColdReadings == \A r \in Readings : r.rate < ColdRate
AllCold      == \A a \in Adapters : stats[a].rate < ColdRate
ColdWeights  == \A i \in Positions :
    EffectiveWeight(i) = IF Demoted(entries[i].id) THEN 1 ELSE entries[i].weight

LEMMA ColdMaxRate == TypeOK /\ AllCold => MaxRate < ColdRate
<1>. SUFFICES ASSUME TypeOK, AllCold PROVE MaxRate < ColdRate
  OBVIOUS
<1>. DEFINE step == [i \in Positions |-> [m \in Nat |->
                IF stats[entries[i].id].rate > m THEN stats[entries[i].id].rate ELSE m]]
            P    == [k \in Nat |-> 0..1]
<1>1. Len(entries) \in Nat /\ \A i \in Positions : stats[entries[i].id].rate \in 0..1
  BY EntryAt, SMTT(30) DEF Reading, AllCold, ColdRate
<1>2. \A k \in 1..Len(entries) : \A acc \in P[k-1] : step[k][acc] \in P[k]
  BY <1>1 DEF Positions
<1>3. 0 \in P[0]
  OBVIOUS
<1>. HIDE DEF step, P
<1>4. Loop(Len(entries), 0, step) \in P[Len(entries)]
  BY <1>1, <1>2, <1>3, LoopInvariant
<1>. QED
  BY <1>1, <1>4 DEF MaxRate, ColdRate, step, P

LEMMA ColdWeightsHold == TypeOK /\ AllCold => ColdWeights
  BY ColdMaxRate, MaxRateType DEF ColdWeights, EffectiveWeight, ColdRate

LEMMA ColdWeightsHoldNext == (TypeOK /\ AllCold => ColdWeights)'
  BY ColdWeightsHold, PTL

LEMMA ColdStep == ColdReadings /\ TypeOK /\ AllCold /\ [Next]_vars => AllCold'
<1>. SUFFICES ASSUME ColdReadings, TypeOK, AllCold, [Next]_vars PROVE AllCold'
  OBVIOUS
<1>1. ASSUME NEW readings \in [Adapters -> Readings], Observe(readings) PROVE AllCold'
  BY <1>1 DEF Observe, ColdReadings, AllCold
<1>2. CASE stats' = stats
  BY <1>2 DEF AllCold
<1>. QED
  BY <1>1, <1>2 DEF Next, Passing, vars, StartPick, SkipEntry, WeighEntry, ScanEntry, PayEntry, Settle,
                    SetEntries, SetMode, RecordDialFailure, RecordDialSuccess, Tick

(* Scores and weights are numbers, and nothing is weighed without the lock. *)
Given == [i \in Positions |-> IF i \in DOMAIN pick.added THEN pick.added[i] ELSE 0]

LEMMA NumbersKnown ==
    ASSUME TypeOK
    PROVE  /\ Len(entries) \in Nat /\ Positions = 1..Len(entries)
           /\ \A k \in 1..Len(entries) : current[k] \in Int /\ Given[k] \in Int
           /\ Score \in Int /\ Added \in Int /\ Added = SumTo(Len(entries), Given)
<1>1. Len(entries) \in Nat /\ Positions = 1..Len(entries)
  BY EntryAt DEF Positions
<1>2. \A k \in 1..Len(entries) : current[k] \in Int /\ Given[k] \in Int
  BY <1>1 DEF TypeOK, PickOk, PickAmong, Given
<1>. QED
  BY <1>1, <1>2, SumType DEF Score, Added, Given

LEMMA NumbersKnownToBe == TypeOK => Score \in Int /\ Added \in Int
  BY NumbersKnown

LEMMA NothingAdded == TypeOK /\ Unlocked => Added = 0
<1>. SUFFICES ASSUME TypeOK, Unlocked PROVE Added = 0
  OBVIOUS
<1>1. \A k \in 1..Len(entries) : Given[k] = 0
  BY UnlockedIs DEF Given, NoPick, Positions
<1>. QED
  BY <1>1, NumbersKnown, SumOfNone

LEMMA NothingAddedNext == (TypeOK /\ Unlocked => Added = 0)'
  BY NothingAdded, PTL

LEMMA WeightsInt == TypeOK => \A i \in Positions : EffectiveWeight(i) \in Int
  BY WeightOf

(* What an entry is given is what Added says. *)
LEMMA WeighSum ==
    ASSUME TypeOK, NEW i \in Positions, WeighEntry(i)
    PROVE  Score' - Added' = Score - Added
<1>. DEFINE w == EffectiveWeight(i)
            one == [k \in Positions |-> IF k = i THEN w ELSE 0]
            n == Len(entries)
<1>1. Positions' = Positions /\ entries' = entries /\ w \in Int
  BY WeightsInt DEF WeighEntry, Positions
<1>2. /\ n \in Nat /\ Positions = 1..n /\ Score \in Int /\ Added \in Int
      /\ \A k \in 1..n : current[k] \in Int /\ Given[k] \in Int
      /\ Added = SumTo(n, Given)
  BY NumbersKnown
<1>. HIDE DEF w
<1>3. \A k \in 1..n : one[k] \in Int /\ current'[k] = current[k] + one[k]
  BY <1>1, <1>2 DEF WeighEntry, TypeOK, w
<1>4. \A k \in 1..n : Given'[k] = Given[k] + one[k]
  <2>1. /\ i \notin DOMAIN pick.added
        /\ pick'.added = Extended(pick.added, i, w)
    BY WeighIs DEF w
  <2>. SUFFICES ASSUME NEW k \in 1..n PROVE Given'[k] = Given[k] + one[k]
    OBVIOUS
  <2>2. Given'[k] = IF k \in DOMAIN pick'.added THEN pick'.added[k] ELSE 0
    BY <1>1, <1>2 DEF Given
  <2>3. Given[k] = IF k \in DOMAIN pick.added THEN pick.added[k] ELSE 0
    BY <1>2 DEF Given
  <2>4. DOMAIN pick'.added = DOMAIN pick.added \cup {i}
        /\ \A j \in DOMAIN pick.added \cup {i} : pick'.added[j] = IF j = i THEN w ELSE pick.added[j]
    BY <2>1 DEF Extended
  <2>5. Given[k] \in Int /\ one[k] = IF k = i THEN w ELSE 0
    BY <1>2
  <2>. HIDE DEF one
  <2>. QED
    BY <1>1, <2>1, <2>2, <2>3, <2>4, <2>5
<1>5. SumTo(n, one) = w
  <2>1. i \in 1..n /\ one[i] = w /\ \A k \in 1..n : k # i => one[k] = 0
    BY <1>2
  <2>. HIDE DEF one, n
  <2>. QED
    BY <1>2, <1>3, <2>1, SumOfOne
<1>. HIDE DEF one
<1>6. SumTo(n, current') = SumTo(n, current) + SumTo(n, one)
  <2>. PICK next : next = current'
    OBVIOUS
  <2>1. \A k \in 1..n : current[k] \in Int /\ one[k] \in Int /\ next[k] = current[k] + one[k]
    BY <1>2, <1>3
  <2>2. n \in Nat
    BY <1>2
  <2>. HIDE DEF n
  <2>. QED
    BY <2>1, <2>2, SumAdds, ZenonT(60)
<1>7. SumTo(n, Given') = SumTo(n, Given) + SumTo(n, one)
  <2>1. \A k \in 1..n : /\ Given[k] \in Int /\ one[k] \in Int
                       /\ Given'[k] = Given[k] + one[k]
    BY <1>2, <1>3, <1>4
  <2>2. n \in Nat
    BY <1>2
  <2>. HIDE DEF n, Given
  <2>. QED
    BY <2>1, <2>2, SumAdds, ZenonT(60)
<1>8. Score' = SumTo(n, current') /\ Score = SumTo(n, current) /\ Added' = SumTo(n, Given')
  BY <1>1 DEF Score, Added, Given
<1>. QED
  BY <1>1, <1>2, <1>5, <1>6, <1>7, <1>8

(* What the winner pays leaves the sum. *)
LEMMA SettleSum ==
    ASSUME TypeOK, NEW i \in Positions, Settle(i)
    PROVE  Score' = Score - SubTotal(Due(i)) /\ SubTotal(Due(i)) \in Int
<1>. DEFINE paid == [k \in Positions |-> IF k = pick.best THEN -SubTotal(Due(i)) ELSE 0]
<1>1. pick.best \in 1..Len(entries) /\ SubTotal(Due(i)) \in Int
  <2>1. \A k \in DOMAIN Due(i) : Due(i)[k] \in Int
    BY SettleIs
  <2>. QED
    BY <2>1, SettleIs, SubTotalType DEF Positions
<1>2. \A k \in 1..Len(entries) :
          current[k] \in Int /\ paid[k] \in Int /\ current'[k] = current[k] + paid[k]
  <2>. PICK next : next = current'
    OBVIOUS
  <2>. PICK total : total = SubTotal(Due(i))
    OBVIOUS
  <2>1. total \in Int /\ DOMAIN current = 1..Len(entries)
        /\ \A k \in 1..Len(entries) : current[k] \in Int
    BY <1>1 DEF TypeOK, Positions
  <2>2. next = [current EXCEPT ![pick.best] = @ - total]
    BY DEF Settle, Due
  <2>. SUFFICES ASSUME NEW k \in 1..Len(entries)
                PROVE  current[k] \in Int /\ paid[k] \in Int /\ next[k] = current[k] + paid[k]
    OBVIOUS
  <2>3. paid[k] = IF k = pick.best THEN -total ELSE 0
    BY DEF Positions
  <2>4. next[k] = IF k = pick.best THEN current[k] - total ELSE current[k]
    BY <2>1, <2>2
  <2>. HIDE DEF paid
  <2>. QED
    BY <2>1, <2>3, <2>4
<1>3. paid[pick.best] = -SubTotal(Due(i))
      /\ \A k \in 1..Len(entries) : k # pick.best => paid[k] = 0
  BY <1>1, NumbersKnown
<1>. HIDE DEF paid
<1>. Len(entries) \in Nat
  BY NumbersKnown
<1>4. SumTo(Len(entries), current') = SumTo(Len(entries), current) + SumTo(Len(entries), paid)
  BY <1>2, NumbersKnown, SumAdds, SMTT(30)
<1>5. SumTo(Len(entries), paid) = -SubTotal(Due(i))
  <2>1. SumTo(Len(entries), paid) = paid[pick.best]
    BY <1>1, <1>2, <1>3, SumOfOne
  <2>. QED
    BY <1>3, <2>1
<1>6. Len(entries)' = Len(entries) /\ Score \in Int
  BY NumbersKnown DEF Settle
<1>. QED
  BY <1>1, <1>4, <1>5, <1>6 DEF Score

(* The other steps of a pick, and what changes no score. *)
LEMMA QuietSums ==
    ASSUME UNCHANGED <<entries, current>>, pick'.added = pick.added
    PROVE  Score' = Score /\ Added' = Added
  BY DEF Score, Added, Positions

(* The other methods leave the sum as it is, or start from zero. *)
LEMMA SetEntriesSum ==
    ASSUME TypeOK', NEW config \in Configs, SetEntries(config)
    PROVE  Score' = 0
<1>1. Len(entries)' \in Nat /\ \A k \in 1..Len(entries)' : current'[k] = 0
  BY DEF SetEntries, TypeOK
<1>. QED
  BY <1>1, SumOfNone DEF Score

(* A pick in progress has given no entry more than it weighs now, or than  *)
(* it was summed up with: a demotion may end in the middle of a pick, but  *)
(* none begins there.                                                      *)
GivenAtMost ==
    /\ \A i \in DOMAIN pick.added : pick.added[i] <= EffectiveWeight(i)
    /\ \A i \in DOMAIN pick.added \cap DOMAIN pick.due : pick.added[i] <= pick.due[i]
SumInv == TypeOK /\ AllCold /\ GivenAtMost /\ SumNeverPositive

(* What the winner pays is at least what was added.                        *)
LEMMA PaysEnough ==
    ASSUME TypeOK, GivenAtMost, NEW i \in Positions, Settle(i)
    PROVE  Added <= SubTotal(Due(i))
<1>. DEFINE f == [k \in Positions |-> IF k \in DOMAIN Due(i) THEN Due(i)[k] ELSE 0]
<1>. PICK due : due = Due(i)
  OBVIOUS
<1>1. /\ DOMAIN pick.added \subseteq DOMAIN due /\ due \in [DOMAIN due -> Nat \ {0}]
      /\ DOMAIN due = DOMAIN pick.due \cup {i}
      /\ \A k \in DOMAIN due : due[k] = IF k = i THEN EffectiveWeight(i) ELSE pick.due[k]
  BY SettleIs DEF TypeOK, PickOk, PickAmong, Due, Extended
<1>2. \A k \in Positions : EffectiveWeight(k) \in Int
  BY WeightsInt
<1>3. \A k \in 1..Len(entries) : Given[k] \in Int /\ Given[k] = IF k \in DOMAIN pick.added THEN pick.added[k] ELSE 0
  BY NumbersKnown DEF Given
<1>4. \A k \in DOMAIN pick.added : pick.added[k] <= due[k]
  BY <1>1 DEF GivenAtMost
<1>5. \A k \in 1..Len(entries) : f[k] = IF k \in DOMAIN due THEN due[k] ELSE 0
  BY NumbersKnown
<1>. HIDE DEF f
<1>6. \A k \in 1..Len(entries) : Given[k] \in Int /\ f[k] \in Int /\ Given[k] <= f[k]
  BY <1>1, <1>3, <1>4, <1>5
<1>. Len(entries) \in Nat
  BY NumbersKnown
<1>7. SumTo(Len(entries), Given) <= SumTo(Len(entries), f)
  BY <1>6, SumGrows
<1>. QED
  BY <1>7, NumbersKnown DEF SubTotal, f

(* A change of health or of the readings that makes no weight smaller, or  *)
(* that comes between picks.                                               *)
LEMMA QuietSum ==
    ASSUME SumInv, TypeOK', AllCold', UNCHANGED <<entries, current, pick>>,
           ~Unlocked => \A i \in Positions : EffectiveWeight(i) <= EffectiveWeight(i)'
    PROVE  SumInv'
<1>1. Score' = Score /\ Added' = Added
  BY QuietSums
<1>2. GivenAtMost'
  <2>1. CASE Unlocked
    BY <2>1, UnlockedIs DEF SumInv, NoPick, GivenAtMost
  <2>2. CASE ~Unlocked
    <3>1. DOMAIN pick.added \subseteq Positions /\ \A i \in DOMAIN pick.added : pick.added[i] \in Int
      BY DEF SumInv, TypeOK, PickOk, PickAmong, NonExcluded
    <3>2. \A i \in Positions : EffectiveWeight(i) \in Int
      BY WeightOf DEF SumInv
    <3>3. \A i \in Positions : EffectiveWeight(i)' \in Int
      <4>1. (TypeOK => \A i \in Positions : EffectiveWeight(i) \in Int)'
        BY WeightsInt, PTL
      <4>. QED
        BY <4>1 DEF Positions
    <3>. QED
      BY <2>2, <3>1, <3>2, <3>3 DEF SumInv, GivenAtMost
  <2>. QED
    BY <2>1, <2>2
<1>. QED
  BY <1>1, <1>2 DEF SumInv, SumNeverPositive

(* The same weights before and after a step of a pick. *)
LEMMA SameWeights ==
    ASSUME UNCHANGED <<entries, mode, health, stats>>, NEW i
    PROVE  EffectiveWeight(i)' = EffectiveWeight(i)
  BY DEF EffectiveWeight, MaxRate, Demoted, Positions

LEMMA PassingSum == ASSUME SumInv, TypeOK', AllCold', Passing PROVE SumInv'
<1>1. ASSUME NEW i \in Positions, SkipEntry(i) PROVE SumInv'
  <2>1. /\ pick'.added = pick.added /\ pick'.due = pick.due
        /\ UNCHANGED <<entries, current, mode, health, stats>>
    BY <1>1, SkipIs DEF SkipEntry, SumInv
  <2>2. GivenAtMost'
    BY <2>1, SameWeights DEF GivenAtMost, SumInv
  <2>. QED
    BY <2>1, <2>2, QuietSums DEF SumInv, SumNeverPositive
<1>2. ASSUME NEW i \in Positions, WeighEntry(i) PROVE SumInv'
  <2>1. /\ pick'.added = Extended(pick.added, i, EffectiveWeight(i)) /\ DOMAIN pick'.due = {}
        /\ UNCHANGED <<entries, mode, health, stats>>
        /\ EffectiveWeight(i) \in Int
    BY <1>2, WeighIs, WeightsInt DEF WeighEntry, SumInv
  <2>2. GivenAtMost'
    <3>1. \A j \in DOMAIN pick'.added : pick'.added[j] <= EffectiveWeight(j)
      BY <2>1 DEF Extended, GivenAtMost, SumInv
    <3>. QED
      BY <2>1, <3>1, SameWeights DEF GivenAtMost
  <2>3. Score' - Added' = Score - Added
    BY <1>2, WeighSum DEF SumInv
  <2>4. Score \in Int /\ Added \in Int
    BY NumbersKnown DEF SumInv
  <2>5. (TypeOK => Score \in Int /\ Added \in Int)'
    BY NumbersKnownToBe, PTL
  <2>. QED
    BY <2>2, <2>3, <2>4, <2>5 DEF SumInv, SumNeverPositive
<1>3. ASSUME NEW i \in Positions, ScanEntry(i) PROVE SumInv'
  <2>1. /\ pick'.added = pick.added /\ pick'.due = pick.due
        /\ UNCHANGED <<entries, current, mode, health, stats>>
    BY <1>3, ScanIs DEF ScanEntry, SumInv
  <2>2. GivenAtMost'
    BY <2>1, SameWeights DEF GivenAtMost, SumInv
  <2>. QED
    BY <2>1, <2>2, QuietSums DEF SumInv, SumNeverPositive
<1>4. ASSUME NEW i \in Positions, PayEntry(i) PROVE SumInv'
  <2>1. /\ pick'.added = pick.added /\ pick'.due = Extended(pick.due, i, EffectiveWeight(i))
        /\ UNCHANGED <<entries, current, mode, health, stats>>
    BY <1>4, PayIs DEF PayEntry, SumInv
  <2>2. GivenAtMost'
    <3>1. \A j \in DOMAIN pick'.added \cap DOMAIN pick'.due : pick'.added[j] <= pick'.due[j]
      BY <2>1 DEF Extended, GivenAtMost, SumInv
    <3>. QED
      BY <2>1, <3>1, SameWeights DEF GivenAtMost, SumInv
  <2>. QED
    BY <2>1, <2>2, QuietSums DEF SumInv, SumNeverPositive
<1>. QED
  BY <1>1, <1>2, <1>3, <1>4 DEF Passing

LEMMA SumInvNext == ColdReadings /\ SumInv /\ [Next]_vars => SumInv'
<1>. SUFFICES ASSUME ColdReadings, SumInv, [Next]_vars PROVE SumInv'
  OBVIOUS
<1>1. TypeOK /\ AllCold /\ TypeOK' /\ AllCold' /\ ColdWeights /\ ColdWeights'
  BY NextType, ColdStep, ColdWeightsHold, ColdWeightsHoldNext DEF SumInv
<1>2. ASSUME NEW ex \in Excludes, StartPick(ex) PROVE SumInv'
  <2>1. /\ DOMAIN pick'.added = {} /\ pick.added = NoPick.added /\ pick'.added = NoPick.added
        /\ UNCHANGED <<entries, current>>
    BY <1>1, <1>2, StartIs, UnlockedIs DEF StartPick, NoPick
  <2>2. GivenAtMost'
    BY <2>1 DEF GivenAtMost
  <2>. QED
    BY <1>1, <2>1, <2>2, QuietSums DEF SumInv, SumNeverPositive
<1>3. CASE Passing
  BY <1>1, <1>3, PassingSum
<1>4. ASSUME NEW i \in Positions, Settle(i) PROVE SumInv'
  <2>1. Added <= SubTotal(Due(i)) /\ SubTotal(Due(i)) \in Int
    BY <1>1, <1>4, PaysEnough, SettleSum DEF SumInv
  <2>2. Score' <= 0
    BY <1>1, <1>4, <2>1, SettleSum, NumbersKnown DEF SumInv, SumNeverPositive
  <2>3. Unlocked' /\ pick' = NoPick
    BY <1>1, <1>4, SettleIs
  <2>4. Added' = 0 /\ GivenAtMost'
    BY <1>1, <2>3, NothingAddedNext DEF NoPick, GivenAtMost
  <2>. QED
    BY <1>1, <2>2, <2>4 DEF SumInv, SumNeverPositive
<1>5. ASSUME NEW config \in Configs, SetEntries(config) PROVE SumInv'
  <2>1. Score' = 0 /\ Unlocked' /\ pick' = NoPick
    BY <1>1, <1>5, SetEntriesSum, UnlockedIs DEF SetEntries, Unlocked
  <2>2. Added' = 0 /\ GivenAtMost'
    BY <1>1, <2>1, NothingAddedNext DEF NoPick, GivenAtMost
  <2>. QED
    BY <1>1, <2>1, <2>2 DEF SumInv, SumNeverPositive
<1>6. ASSUME NEW m \in ModeArgs, SetMode(m) PROVE SumInv'
  BY <1>1, <1>6, QuietSum DEF SetMode
<1>7. ASSUME NEW a \in Failing, RecordDialFailure(a) PROVE SumInv'
  BY <1>1, <1>7, QuietSum DEF RecordDialFailure
<1>8. ASSUME NEW a \in Adapters, RecordDialSuccess(a) PROVE SumInv'
  BY <1>1, <1>8, QuietSum DEF RecordDialSuccess
<1>9. CASE Tick
  <2>1. \A i \in Positions : EffectiveWeight(i) <= EffectiveWeight(i)'
    <3>. TAKE i \in Positions
    <3>1. /\ entries' = entries /\ entries[i].id \in Adapters /\ entries[i].weight \in Nat \ {0}
      BY <1>1, <1>9, EntryAt DEF Tick
    <3>2. Demoted(entries[i].id)' => Demoted(entries[i].id)
      BY <1>1, <1>9, <3>1 DEF Tick, Demoted, TypeOK
    <3>. QED
      BY <1>1, <3>1, <3>2 DEF ColdWeights, Positions
  <2>. QED
    BY <1>1, <1>9, <2>1, QuietSum DEF Tick
<1>10. ASSUME NEW readings \in [Adapters -> Readings], Observe(readings) PROVE SumInv'
  <2>1. \A i \in Positions : EffectiveWeight(i) <= EffectiveWeight(i)'
    BY <1>1, <1>10, WeightsInt DEF Observe, ColdWeights, Positions, Demoted
  <2>. QED
    BY <1>1, <1>10, <2>1, QuietSum DEF Observe
<1>11. CASE UNCHANGED vars
  <2>1. \A i \in Positions : EffectiveWeight(i) <= EffectiveWeight(i)'
    BY <1>1, <1>11, WeightsInt DEF vars, ColdWeights, Positions, Demoted
  <2>. QED
    BY <1>1, <1>11, <2>1, QuietSum DEF vars
<1>. QED
  BY <1>2, <1>3, <1>4, <1>5, <1>6, <1>7, <1>8, <1>9, <1>10, <1>11 DEF Next

LEMMA SumInvInit == Init => SumInv
<1>. SUFFICES ASSUME Init PROVE SumInv
  OBVIOUS
<1>1. TypeOK /\ Unlocked /\ AllCold
  BY InitType DEF Init, Unlocked, NoPick, AllCold, ColdRate
<1>2. Score = 0
  BY SumOfNone DEF Init, Score
<1>3. Added = 0 /\ GivenAtMost
  BY <1>1, NothingAdded, UnlockedIs DEF NoPick, GivenAtMost
<1>. QED
  BY <1>1, <1>2, <1>3 DEF SumInv, SumNeverPositive

(* Below the cold rate, with dials that fail on any adapters and time that *)
(* passes in the middle of picks, the scores never add up to more than the *)
(* pick in progress has added: what a demotion costs is never given back.  *)
THEOREM NeverPositive == ASSUME ColdReadings PROVE Spec => []SumNeverPositive
<1>1. SumInv => SumNeverPositive
  BY DEF SumInv
<1>. QED
  BY <1>1, SumInvInit, SumInvNext, PTL DEF Spec
-----------------------------------------------------------------------------
(* Without failing dials                                                   *)

NoneDemoted == \A a \in Adapters : ~Demoted(a)

(* A pick in progress skips nothing and gives every entry it may choose    *)
(* its user weight, which is also what it sums up.                         *)
GivenAll  == /\ pick.skipped = {}
             /\ pick.stage \in {"scan", "pay"} => DOMAIN pick.added = NonExcluded(pick.exclude)
             /\ \A i \in DOMAIN pick.added : pick.added[i] = entries[i].weight
             /\ \A i \in DOMAIN pick.due : pick.due[i] = entries[i].weight
ExactInv  == TypeOK /\ AllCold /\ NoneDemoted /\ GivenAll /\ ZeroSum

LEMMA UserWeights ==
    TypeOK /\ AllCold /\ NoneDemoted => \A i \in Positions : EffectiveWeight(i) = entries[i].weight
  BY ColdWeightsHold, EntryAt DEF ColdWeights, NoneDemoted

LEMMA PaysExactly ==
    ASSUME TypeOK, AllCold, NoneDemoted, GivenAll, NEW i \in Positions, Settle(i)
    PROVE  Added = SubTotal(Due(i))
<1>. DEFINE f == [k \in Positions |-> IF k \in DOMAIN Due(i) THEN Due(i)[k] ELSE 0]
<1>. PICK due : due = Due(i)
  OBVIOUS
<1>1. /\ DOMAIN due = DOMAIN pick.added /\ DOMAIN due = DOMAIN pick.due \cup {i}
      /\ \A k \in DOMAIN due : due[k] = IF k = i THEN EffectiveWeight(i) ELSE pick.due[k]
  BY SettleIs DEF GivenAll, Due, Extended
<1>2. EffectiveWeight(i) = entries[i].weight
  BY UserWeights
<1>3. \A k \in DOMAIN due : due[k] = pick.added[k]
  BY <1>1, <1>2 DEF GivenAll
<1>4. \A k \in 1..Len(entries) : f[k] = IF k \in DOMAIN due THEN due[k] ELSE 0
  BY NumbersKnown
<1>5. \A k \in 1..Len(entries) : Given[k] \in Int
                                 /\ Given[k] = IF k \in DOMAIN pick.added THEN pick.added[k] ELSE 0
  BY NumbersKnown DEF Given
<1>. HIDE DEF f
<1>6. \A k \in 1..Len(entries) : Given[k] \in Int /\ f[k] = Given[k]
  BY <1>1, <1>3, <1>4, <1>5
<1>. Len(entries) \in Nat
  BY NumbersKnown
<1>7. SumTo(Len(entries), f) = SumTo(Len(entries), Given)
  BY <1>6, SumSame
<1>. QED
  BY <1>7, NumbersKnown DEF SubTotal, f

LEMMA NoDemotion == Failing = {} /\ TypeOK /\ NoneDemoted /\ [Next]_vars => NoneDemoted'
<1>. SUFFICES ASSUME Failing = {}, TypeOK, NoneDemoted, [Next]_vars PROVE NoneDemoted'
  OBVIOUS
<1>1. ASSUME NEW a \in Adapters, RecordDialSuccess(a) PROVE NoneDemoted'
  BY <1>1 DEF RecordDialSuccess, Healthy, NoneDemoted, Demoted, TypeOK
<1>2. CASE health' = health
  BY <1>2 DEF NoneDemoted, Demoted
<1>. QED
  BY <1>1, <1>2 DEF Next, Passing, vars, StartPick, SkipEntry, WeighEntry, ScanEntry, PayEntry, Settle,
                    SetEntries, SetMode, Tick, Observe, NoneDemoted

LEMMA PassingExact ==
    ASSUME ExactInv, TypeOK', AllCold', NoneDemoted', Passing PROVE ExactInv'
<1>1. TypeOK /\ AllCold /\ NoneDemoted /\ GivenAll /\ ZeroSum
      /\ \A i \in Positions : EffectiveWeight(i) = entries[i].weight
  BY UserWeights DEF ExactInv
<1>2. ASSUME NEW i \in Positions, SkipEntry(i) PROVE ExactInv'
  <2>1. HardDemoted(entries[i].id) /\ entries[i].id \in Adapters
    BY <1>1, <1>2, SkipIs, EntryAt
  <2>. QED
    BY <1>1, <2>1 DEF HardDemoted, NoneDemoted
<1>3. ASSUME NEW i \in Positions, WeighEntry(i) PROVE ExactInv'
  <2>. PICK p : p = pick
    OBVIOUS
  <2>. PICK q : q = pick'
    OBVIOUS
  <2>1. /\ q.added = Extended(p.added, i, entries[i].weight) /\ q.skipped = p.skipped
        /\ q.due = p.due /\ DOMAIN p.due = {} /\ q.exclude = p.exclude
        /\ (q.stage = p.stage \/ (q.stage = "scan" /\ p.left = {i}))
        /\ p.stage \in {"weigh", "again"}
        /\ entries' = entries
    BY <1>1, <1>3, WeighIs DEF WeighEntry
  <2>2. p.skipped = {} /\ \A k \in DOMAIN p.added : p.added[k] = entries[k].weight
    BY <1>1 DEF GivenAll
  <2>3. p.stage = "weigh" /\ NonExcluded(p.exclude) = p.left \cup DOMAIN p.added
    BY <1>1, <2>1, <2>2 DEF TypeOK, PickOk, PickAmong
  <2>4. NonExcluded(p.exclude)' = NonExcluded(p.exclude)
    BY <2>1 DEF NonExcluded, Positions
  <2>5. /\ DOMAIN q.added = DOMAIN p.added \cup {i}
        /\ \A k \in DOMAIN q.added : q.added[k] = entries[k].weight
    BY <2>1, <2>2 DEF Extended
  <2>6. q.stage = "scan" => DOMAIN q.added = NonExcluded(p.exclude)
    BY <2>1, <2>3, <2>5
  <2>7. q.stage # "pay"
    BY <2>1
  <2>8. GivenAll'
    BY <2>1, <2>2, <2>4, <2>5, <2>6, <2>7 DEF GivenAll
  <2>9. Score' - Added' = Score - Added
    BY <1>1, <1>3, WeighSum
  <2>10. Score \in Int /\ Added \in Int
    BY <1>1, NumbersKnown
  <2>11. (TypeOK => Score \in Int /\ Added \in Int)'
    BY NumbersKnownToBe, PTL
  <2>. QED
    BY <1>1, <2>8, <2>9, <2>10, <2>11 DEF ExactInv, ZeroSum
<1>4. ASSUME NEW i \in Positions, ScanEntry(i) PROVE ExactInv'
  <2>1. /\ pick'.added = pick.added /\ pick'.due = pick.due /\ pick'.exclude = pick.exclude
        /\ pick'.skipped = pick.skipped /\ pick.stage = "scan" /\ UNCHANGED <<entries, current>>
    BY <1>1, <1>4, ScanIs DEF ScanEntry
  <2>2. NonExcluded(pick.exclude)' = NonExcluded(pick.exclude)
    BY <2>1 DEF NonExcluded, Positions
  <2>3. GivenAll'
    BY <1>1, <2>1, <2>2 DEF GivenAll
  <2>. QED
    BY <1>1, <2>1, <2>3, QuietSums DEF ExactInv, ZeroSum
<1>5. ASSUME NEW i \in Positions, PayEntry(i) PROVE ExactInv'
  <2>1. /\ pick'.added = pick.added /\ pick'.due = Extended(pick.due, i, entries[i].weight)
        /\ pick'.exclude = pick.exclude
        /\ pick'.skipped = pick.skipped /\ pick.stage = "pay" /\ UNCHANGED <<entries, current>>
    BY <1>1, <1>5, PayIs DEF PayEntry
  <2>2. NonExcluded(pick.exclude)' = NonExcluded(pick.exclude)
    BY <2>1 DEF NonExcluded, Positions
  <2>3. \A k \in DOMAIN pick'.due : pick'.due[k] = entries[k].weight
    BY <1>1, <2>1 DEF GivenAll, Extended
  <2>4. GivenAll'
    BY <1>1, <2>1, <2>2, <2>3 DEF GivenAll
  <2>. QED
    BY <1>1, <2>1, <2>4, QuietSums DEF ExactInv, ZeroSum
<1>. QED
  BY <1>2, <1>3, <1>4, <1>5 DEF Passing

LEMMA NothingGiven == pick = NoPick => GivenAll
  BY DEF NoPick, GivenAll

LEMMA NothingGivenNext == (pick = NoPick => GivenAll)'
  BY NothingGiven, PTL

LEMMA ExactNext == ColdReadings /\ Failing = {} /\ ExactInv /\ [Next]_vars => ExactInv'
<1>. SUFFICES ASSUME ColdReadings, Failing = {}, ExactInv, [Next]_vars PROVE ExactInv'
  OBVIOUS
<1>1. /\ TypeOK /\ AllCold /\ NoneDemoted /\ GivenAll /\ ZeroSum
      /\ TypeOK' /\ AllCold' /\ NoneDemoted'
  BY NextType, ColdStep, NoDemotion DEF ExactInv
<1>2. ASSUME NEW ex \in Excludes, StartPick(ex) PROVE ExactInv'
  <2>1. /\ pick'.stage = "weigh" /\ pick'.skipped = {} /\ DOMAIN pick'.added = {} /\ DOMAIN pick'.due = {}
        /\ pick.added = NoPick.added /\ pick'.added = NoPick.added
        /\ UNCHANGED <<entries, current>>
    BY <1>1, <1>2, StartIs, UnlockedIs DEF StartPick, NoPick
  <2>2. GivenAll'
    BY <2>1 DEF GivenAll
  <2>. QED
    BY <1>1, <2>1, <2>2, QuietSums DEF ExactInv, ZeroSum
<1>3. CASE Passing
  BY <1>1, <1>3, PassingExact
<1>4. ASSUME NEW i \in Positions, Settle(i) PROVE ExactInv'
  <2>1. Added = SubTotal(Due(i)) /\ SubTotal(Due(i)) \in Int
    BY <1>1, <1>4, PaysExactly, SettleSum
  <2>2. Score' = 0
    BY <1>1, <1>4, <2>1, SettleSum, NumbersKnown DEF ZeroSum
  <2>3. Unlocked' /\ pick' = NoPick
    BY <1>1, <1>4, SettleIs
  <2>4. Added' = 0 /\ GivenAll'
    BY <1>1, <2>3, NothingAddedNext, NothingGivenNext
  <2>. QED
    BY <1>1, <2>2, <2>4 DEF ExactInv, ZeroSum
<1>5. ASSUME NEW config \in Configs, SetEntries(config) PROVE ExactInv'
  <2>1. Score' = 0 /\ Unlocked' /\ pick' = NoPick
    BY <1>1, <1>5, SetEntriesSum, UnlockedIs DEF SetEntries, Unlocked
  <2>2. Added' = 0 /\ GivenAll'
    BY <1>1, <2>1, NothingAddedNext, NothingGivenNext
  <2>. QED
    BY <1>1, <2>1, <2>2 DEF ExactInv, ZeroSum
<1>6. CASE UNCHANGED <<entries, current, pick>>
  BY <1>1, <1>6, QuietSums DEF ExactInv, ZeroSum, GivenAll, NonExcluded, Positions
<1>. QED
  BY <1>2, <1>3, <1>4, <1>5, <1>6 DEF Next, vars, SetMode, RecordDialSuccess, Tick, Observe

LEMMA ExactInit == Init => ExactInv
<1>1. Init => TypeOK /\ Unlocked /\ AllCold /\ NoneDemoted /\ GivenAll /\ Score = 0
  BY InitType, SumOfNone DEF Init, Unlocked, AllCold, ColdRate, NoneDemoted, Demoted, Healthy,
                             GivenAll, NoPick, Score
<1>. QED
  BY <1>1, NothingAdded DEF ExactInv, ZeroSum

(* Below the cold rate and without failing dials, whatever is excluded and *)
(* whatever the tie-break prefers, every pick takes what it gave.          *)
THEOREM Exact == ASSUME ColdReadings, Failing = {} PROVE Spec => []ZeroSum
<1>1. ExactInv => ZeroSum
  BY DEF ExactInv
<1>. QED
  BY <1>1, ExactInit, ExactNext, PTL DEF Spec
-----------------------------------------------------------------------------
(* Demotion                                                                *)

(* A pick that has weighed an adapter hard-demoted now had found all that  *)
(* it was free to choose hard-demoted: it was not hard-demoted when it was *)
(* weighed, or the pick had passed them all in vain.                       *)
Resorted ==
    \A i \in DOMAIN pick.added :
        HardDemoted(entries[i].id) => NonExcluded(pick.exclude) \subseteq pick.skipped

LEMMA ResortedPassing == ASSUME TypeOK, Resorted, Passing PROVE Resorted'
<1>. PICK p : p = pick
  OBVIOUS
<1>. PICK q : q = pick'
  OBVIOUS
<1>1. UNCHANGED <<entries, health>>
  BY DEF Passing, SkipEntry, WeighEntry, ScanEntry, PayEntry
<1>2. \A i : HardDemoted(entries[i].id)' = HardDemoted(entries[i].id)
  BY <1>1 DEF HardDemoted, Demoted
<1>3. NonExcluded(q.exclude)' = NonExcluded(q.exclude)
  BY <1>1 DEF NonExcluded, Positions
<1>4. \A i \in DOMAIN p.added : HardDemoted(entries[i].id) => NonExcluded(p.exclude) \subseteq p.skipped
  BY DEF Resorted
<1>5. ASSUME q.added = p.added, q.exclude = p.exclude, p.skipped \subseteq q.skipped PROVE Resorted'
  BY <1>2, <1>3, <1>4, <1>5 DEF Resorted
<1>6. ASSUME NEW i \in Positions, SkipEntry(i) PROVE Resorted'
  BY <1>5, <1>6, SkipIs
<1>7. ASSUME NEW i \in Positions, WeighEntry(i) PROVE Resorted'
  <2>1. /\ q.exclude = p.exclude /\ q.skipped = p.skipped
        /\ DOMAIN q.added = DOMAIN p.added \cup {i}
        /\ p.stage \in {"weigh", "again"} /\ (p.stage = "weigh" => ~HardDemoted(entries[i].id))
    BY <1>7, WeighIs DEF WeighEntry, Skips, Extended
  <2>2. p.stage = "again" => NonExcluded(p.exclude) = p.skipped
    BY DEF TypeOK, PickOk, PickAmong
  <2>. QED
    BY <1>2, <1>3, <1>4, <2>1, <2>2 DEF Resorted
<1>8. ASSUME NEW i \in Positions, ScanEntry(i) PROVE Resorted'
  BY <1>5, <1>8, ScanIs
<1>9. ASSUME NEW i \in Positions, PayEntry(i) PROVE Resorted'
  BY <1>5, <1>9, PayIs
<1>. QED
  BY <1>6, <1>7, <1>8, <1>9 DEF Passing

LEMMA ResortedNext == TypeOK /\ Resorted /\ [Next]_vars => Resorted'
<1>. SUFFICES ASSUME TypeOK, Resorted, [Next]_vars PROVE Resorted'
  OBVIOUS
<1>1. ASSUME NEW ex \in Excludes, StartPick(ex) PROVE Resorted'
  BY <1>1, StartIs DEF Resorted
<1>2. CASE pick' = NoPick
  BY <1>2 DEF NoPick, Resorted
<1>3. ASSUME UNCHANGED <<entries, pick>>,
             \A i \in DOMAIN pick.added : HardDemoted(entries[i].id)' => HardDemoted(entries[i].id)
      PROVE  Resorted'
  BY <1>3 DEF Resorted, NonExcluded, Positions
<1>4. CASE Tick
  <2>1. \A i \in DOMAIN pick.added : entries[i].id \in Adapters
    BY EntryAt DEF TypeOK, PickOk, PickAmong, NonExcluded
  <2>2. \A a \in Adapters : HardDemoted(a)' => HardDemoted(a)
    BY <1>4 DEF Tick, HardDemoted, Demoted, TypeOK
  <2>. QED
    BY <1>3, <1>4, <2>1, <2>2 DEF Tick
<1>5. CASE UNCHANGED <<entries, health, pick>>
  BY <1>3, <1>5 DEF HardDemoted, Demoted
<1>6. \A i \in Positions : Settle(i) => pick' = NoPick
  BY DEF Settle
<1>7. Unlocked /\ UNCHANGED pick => pick' = NoPick
  BY UnlockedIs
<1>. QED
  BY <1>1, <1>2, <1>4, <1>5, <1>6, <1>7, ResortedPassing
     DEF Next, vars, SetEntries, SetMode, RecordDialFailure, RecordDialSuccess, Observe

(* Whatever is excluded, fails or expires in the middle of a pick, between *)
(* the looks it takes at one entry and the next or in its two loops, a     *)
(* hard-demoted adapter is the best only as a last resort.                 *)
THEOREM LastResort == Spec => []PickHonoursDemotion
<1>1. Init => Resorted
  BY DEF Init, NoPick, Resorted
<1>2. TypeOK /\ Resorted => PickHonoursDemotion
  BY DEF TypeOK, PickOk, PickAmong, Resorted, PickHonoursDemotion
<1>. QED
  BY <1>1, <1>2, ResortedNext, TypeCorrect, PTL DEF Spec
-----------------------------------------------------------------------------
(* The scan                                                                *)

(* Somewhere among the candidates is the widest window. *)
LEMMA WidestWindow ==
    ASSUME NEW n \in Nat, NEW cand \in SUBSET (1..n), cand # {},
           NEW f, \A i \in cand : f[i] \in Nat
    PROVE  \E i \in cand : \A j \in cand : f[j] <= f[i]
<1>. DEFINE Upto(m) == {j \in cand : j <= m}
            S == {m \in Nat : Upto(m) # {} => \E i \in Upto(m) : \A j \in Upto(m) : f[j] <= f[i]}
<1>0. \A j \in cand : j \in Int /\ 1 <= j /\ j <= n
  OBVIOUS
<1>1. 0 \in S
  <2>1. ASSUME NEW j \in cand, j <= 0 PROVE FALSE
    BY <1>0, <2>1
  <2>2. Upto(0) = {}
    BY <2>1
  <2>. QED
    BY <2>2
<1>2. ASSUME NEW m \in Nat, m \in S PROVE m + 1 \in S
  <2>1. \A j \in Upto(m + 1) : j \in Upto(m) \/ j = m + 1
    BY <1>0
  <2>2. Upto(m) \subseteq Upto(m + 1)
    <3>1. ASSUME NEW j \in cand, j <= m PROVE j <= m + 1
      BY <1>0, <3>1
    <3>. QED
      BY <3>1
  <2>3. CASE m + 1 \notin cand
    <3>1. Upto(m + 1) = Upto(m)
      BY <2>1, <2>2, <2>3
    <3>. QED
      BY <1>2, <3>1
  <2>4. CASE m + 1 \in cand /\ Upto(m) = {}
    <3>1. Upto(m + 1) = {m + 1} /\ f[m + 1] \in Nat
      <4>1. m + 1 \in Upto(m + 1)
        BY <2>4
      <4>. HIDE DEF Upto
      <4>. QED
        BY <2>1, <2>4, <4>1
    <3>. HIDE DEF Upto
    <3>. QED
      BY <3>1
  <2>5. CASE m + 1 \in cand /\ Upto(m) # {}
    <3>1. PICK i \in Upto(m) : \A j \in Upto(m) : f[j] <= f[i]
      BY <1>2, <2>5
    <3>2. /\ f[i] \in Nat /\ f[m + 1] \in Nat /\ (\A j \in Upto(m) : f[j] \in Nat)
          /\ m + 1 \in Upto(m + 1) /\ i \in Upto(m + 1)
      BY <2>2, <2>5
    <3>. HIDE DEF Upto
    <3>3. CASE f[m + 1] <= f[i]
      <4>1. \A j \in Upto(m + 1) : f[j] <= f[i]
        BY <2>1, <3>1, <3>3
      <4>. QED
        BY <3>2, <4>1
    <3>4. CASE f[i] <= f[m + 1]
      <4>1. \A j \in Upto(m + 1) : f[j] <= f[m + 1]
        BY <2>1, <3>1, <3>2, <3>4
      <4>. QED
        BY <3>2, <4>1
    <3>. QED
      BY <3>2, <3>3, <3>4
  <2>. QED
    BY <2>3, <2>4, <2>5
<1>. HIDE DEF S
<1>3. Nat \subseteq S
  BY <1>1, <1>2, Induction
<1>4. n \in S
  BY <1>3
<1>5. Upto(n) = cand
  BY <1>0
<1>. HIDE DEF Upto
<1>. QED
  BY <1>4, <1>5 DEF S

LEMMA OneMore ==
    ASSUME NEW n \in Nat, NEW S \in SUBSET (1..n), NEW i \in (1..n) \ S
    PROVE  /\ Cardinality(S) \in Nat /\ (S # {} => Cardinality(S) >= 1)
           /\ Cardinality(S \cup {i}) = Cardinality(S) + 1
<1>1. IsFiniteSet(1..n)
  <2>1. 1 \in Int /\ n \in Int
    OBVIOUS
  <2>. QED
    BY ONLY <2>1, FS_Interval
<1>2. IsFiniteSet(S)
  <2>1. S \in SUBSET (1..n)
    OBVIOUS
  <2>. QED
    BY ONLY <1>1, <2>1, FS_Subset
<1>3. Cardinality(S) \in Nat
  BY ONLY <1>2, FS_CardinalityType
<1>4. Cardinality(S) = 0 <=> S = {}
  BY ONLY <1>2, FS_EmptySet
<1>5. Cardinality(S \cup {i}) = Cardinality(S) + 1
  <2>1. i \notin S
    OBVIOUS
  <2>. QED
    BY ONLY <1>2, <2>1, FS_AddElement
<1>6. S # {} => Cardinality(S) >= 1
  <2>. PICK c : c = Cardinality(S)
    OBVIOUS
  <2>1. c \in Nat /\ (c = 0 <=> S = {})
    BY <1>3, <1>4
  <2>2. c # 0 => c >= 1
    BY <2>1
  <2>. QED
    BY <2>1, <2>2
<1>. QED
  BY <1>3, <1>5, <1>6

(* The candidates that the scan has passed, and how far the best of them   *)
(* can be below the best score among them: w for each but itself, where w  *)
(* is as wide as every window.                                             *)
Passed    == DOMAIN pick.added \ (IF pick.stage = "scan" THEN pick.left ELSE {})
Widest(w) == w \in Nat /\ \A j \in DOMAIN pick.added : Window(j) <= w
Near      == pick.best # 0 =>
                 \A w : Widest(w) => \A j \in Passed :
                     current[j] - current[pick.best] <= (Cardinality(Passed) - 1) * w

LEMMA WindowType ==
    ASSUME TypeOK, NEW j \in DOMAIN pick.added
    PROVE  Window(j) \in Nat /\ current[j] \in Int /\ Active(j) \in Int /\ j \in Positions
<1>1. j \in Positions /\ pick.added[j] \in Nat
  BY DEF TypeOK, PickOk, PickAmong, NonExcluded
<1>2. current[j] \in Int /\ Active(j) \in Int
  BY <1>1, EntryAt DEF TypeOK, Active, Reading
<1>3. pick.added[j] \div 4 \in Int
  BY <1>1
<1>. QED
  BY <1>1, <1>2, <1>3 DEF Window

(* One turn of the scan: if entry i displaces the best one, that one is at *)
(* most a window ahead of it; if it does not, i is not ahead.              *)
LEMMA ScanKeepsNear == ASSUME TypeOK, Near, NEW i \in Positions, ScanEntry(i) PROVE Near'
<1>. PICK S : S = Passed
  OBVIOUS
<1>. PICK T : T = Passed'
  OBVIOUS
<1>. PICK b : b = pick.best
  OBVIOUS
<1>. PICK x : x = pick'.best
  OBVIOUS
<1>1. /\ pick'.added = pick.added /\ current' = current /\ pick.stage = "scan" /\ i \in pick.left
      /\ x = IF b = 0 \/ Displaces(i, b) THEN i ELSE b
      /\ \/ pick'.stage = "scan" /\ pick'.left = pick.left \ {i}
         \/ pick'.stage = "pay" /\ pick.left = {i}
  BY ScanIs DEF ScanEntry
<1>2. /\ DOMAIN pick.added \subseteq Positions /\ pick.left \subseteq DOMAIN pick.added
      /\ b # 0 => b \in DOMAIN pick.added /\ b \notin pick.left
      /\ b = 0 => pick.left = DOMAIN pick.added
  BY <1>1 DEF TypeOK, PickOk, PickAmong, NonExcluded
<1>3. /\ S \subseteq Positions /\ i \notin S /\ i \in DOMAIN pick.added /\ S \subseteq DOMAIN pick.added
      /\ (b # 0 => b \in S) /\ (b = 0 => S = {})
  BY <1>1, <1>2 DEF Passed
<1>4. T = S \cup {i}
  BY <1>1, <1>2 DEF Passed
<1>5. /\ Cardinality(S) \in Nat /\ (S # {} => Cardinality(S) >= 1)
      /\ Cardinality(T) = Cardinality(S) + 1
  <2>1. Len(entries) \in Nat /\ S \in SUBSET (1..Len(entries)) /\ i \in (1..Len(entries)) \ S
    BY <1>3, EntryAt DEF Positions
  <2>. QED
    BY <1>4, <2>1, OneMore
<1>. SUFFICES ASSUME NEW w, Widest(w)', NEW j \in T
              PROVE  current[j] - current[x] <= (Cardinality(T) - 1) * w
  BY <1>1 DEF Near
<1>6. Widest(w) /\ w \in Nat
  BY <1>1 DEF Widest, Window
<1>. DEFINE c == Cardinality(S)
<1>7. Cardinality(T) - 1 = c /\ c \in Nat
  BY <1>5
<1>8. /\ i \in Positions /\ current[i] \in Int
      /\ \A k \in S : current[k] \in Int
  BY <1>3, WindowType
<1>. HIDE DEF c
<1>9. c * w \in Nat
  BY <1>6, <1>7
<1>10. CASE b = 0
  <2>1. x = i /\ j = i
    BY <1>1, <1>3, <1>4, <1>10
  <2>. QED
    BY <1>7, <1>8, <1>9, <2>1
<1>11. CASE b # 0
  <2>1. b \in S /\ current[b] \in Int /\ Window(b) \in Nat /\ Window(b) <= w /\ b \in DOMAIN pick.added
    BY <1>3, <1>6, <1>11, WindowType DEF Widest
  <2>2. \A k \in S : current[k] - current[b] <= (c - 1) * w
    BY <1>6, <1>11 DEF Near, c
  <2>3. (c - 1) * w \in Nat /\ c * w = (c - 1) * w + w
    <3>1. c - 1 \in Nat /\ c \in Nat
      BY <1>5, <1>7, <2>1 DEF c
    <3>2. \A d \in Nat : d * w \in Nat /\ (d + 1) * w = d * w + w
      BY <1>6
    <3>3. (c - 1) + 1 = c
      BY <3>1
    <3>. QED
      BY <3>1, <3>2, <3>3
  <2>. DEFINE less == (c - 1) * w
              more == c * w
  <2>4. less \in Nat /\ more \in Nat /\ more = less + w /\ \A k \in S : current[k] - current[b] <= less
    BY <1>9, <2>2, <2>3
  <2>. HIDE DEF less, more
  <2>5. CASE Displaces(i, b)
    <3>1. x = i
      BY <1>1, <2>5
    <3>2. current[b] - current[i] <= w
      BY <1>6, <1>8, <2>1, <2>5 DEF Displaces, Abs
    <3>3. current[j] - current[i] <= more
      <4>1. CASE j = i
        BY <1>8, <2>4, <4>1
      <4>2. CASE j \in S
        BY <1>6, <1>8, <2>1, <2>4, <3>2, <4>2
      <4>. QED
        BY <1>4, <4>1, <4>2
    <3>. QED
      BY <1>7, <3>1, <3>3 DEF more
  <2>6. CASE ~Displaces(i, b)
    <3>1. x = b
      BY <1>1, <1>11, <2>6
    <3>2. current[i] <= current[b]
      BY <1>8, <2>1, <2>6 DEF Displaces
    <3>3. current[j] - current[b] <= more
      <4>1. CASE j = i
        BY <1>8, <2>1, <2>4, <3>2, <4>1
      <4>2. CASE j \in S
        BY <1>6, <1>8, <2>1, <2>4, <4>2
      <4>. QED
        BY <1>4, <4>1, <4>2
    <3>. QED
      BY <1>7, <3>1, <3>3 DEF more
  <2>. QED
    BY <2>5, <2>6
<1>. QED
  BY <1>10, <1>11

(* Only the scan names a best entry, and nothing but the settling that     *)
(* follows it changes a score while there is one.                          *)
LEMMA NearNext == TypeOK /\ Near /\ [Next]_vars => Near'
<1>. SUFFICES ASSUME TypeOK, Near, [Next]_vars PROVE Near'
  OBVIOUS
<1>1. CASE pick'.best = 0
  BY <1>1 DEF Near
<1>2. ASSUME current' = current, pick'.best = pick.best, pick'.added = pick.added,
             Passed' = Passed PROVE Near'
  BY <1>2 DEF Near, Widest, Window
<1>3. CASE UNCHANGED <<current, pick>>
  BY <1>2, <1>3 DEF Passed
<1>4. ASSUME NEW i \in Positions, PayEntry(i) PROVE Near'
  <2>1. /\ pick'.added = pick.added /\ pick'.best = pick.best /\ current' = current
        /\ pick.stage = "pay" /\ pick'.stage = "pay"
    BY <1>4, PayIs DEF PayEntry
  <2>. QED
    BY <1>2, <2>1 DEF Passed
<1>5. ASSUME NEW ex \in Excludes, StartPick(ex) PROVE pick'.best = 0
  BY <1>5, StartIs
<1>6. ASSUME NEW i \in Positions, SkipEntry(i) \/ WeighEntry(i) \/ Settle(i) PROVE pick'.best = 0
  BY <1>6, SkipIs, WeighIs, SettleIs DEF NoPick
<1>7. ASSUME NEW config \in Configs, SetEntries(config) PROVE pick'.best = 0
  BY <1>7, UnlockedIs DEF SetEntries, NoPick
<1>. QED
  BY <1>1, <1>3, <1>4, <1>5, <1>6, <1>7, ScanKeepsNear
     DEF Next, Passing, vars, SetMode, RecordDialFailure, RecordDialSuccess, Tick, Observe

LEMMA NearEnough == TypeOK /\ Near => PickNearMax
<1>. SUFFICES ASSUME TypeOK, Near, pick.stage = "pay"
              PROVE  \E i \in DOMAIN pick.added : \A j \in DOMAIN pick.added :
                         current[j] - current[pick.best] <=
                             (Cardinality(DOMAIN pick.added) - 1) * Window(i)
  BY DEF PickNearMax, Window
<1>. PICK cand : cand = DOMAIN pick.added
  OBVIOUS
<1>1. /\ pick.best # 0 /\ pick.best \in cand /\ Passed = cand
      /\ cand \in SUBSET (1..Len(entries)) /\ Len(entries) \in Nat
  BY EntryAt DEF TypeOK, PickOk, PickAmong, Passed, NonExcluded, Positions
<1>. DEFINE f == [i \in cand |-> Window(i)]
<1>2. \A i \in cand : f[i] \in Nat /\ f[i] = Window(i)
  BY WindowType
<1>. HIDE DEF f
<1>3. PICK i \in cand : \A j \in cand : f[j] <= f[i]
  <2>1. PICK n : n = Len(entries)
    OBVIOUS
  <2>2. n \in Nat /\ cand \in SUBSET (1..n) /\ cand # {} /\ \A i \in cand : f[i] \in Nat
    BY <1>1, <1>2, <2>1
  <2>3. \E i \in cand : \A j \in cand : f[j] <= f[i]
    BY ONLY <2>2, WidestWindow
  <2>. QED
    BY <2>3
<1>4. Widest(Window(i))
  BY <1>2, <1>3 DEF Widest
<1>. QED
  BY <1>1, <1>3, <1>4 DEF Near

(* The winner of a scan is never further below the best score than one     *)
(* window for each other candidate, whatever the registry reported at each *)
(* turn of it.                                                             *)
THEOREM NearMax == Spec => []PickNearMax
<1>1. Init => Near
  BY DEF Init, NoPick, Near
<1>. QED
  BY <1>1, NearNext, NearEnough, TypeCorrect, PTL DEF Spec

-----------------------------------------------------------------------------
(* The picks as rounds                                                     *)

(* The scores as they were before the pick in progress.                    *)
Before == [i \in Positions |-> current[i] - Given[i]]

Heaviest(W) == W \in Nat /\ \A i \in Positions : entries[i].weight <= W
Leveled     == \A W : Heaviest(W) => Balanced(Len(entries), Before, 2 * W + Override(W))

LEMMA WindowGrows ==
    \A v, w \in Nat : v <= w =>
        /\ (IF v \div 4 > 1 THEN v \div 4 ELSE 1) \in Nat
        /\ (IF v \div 4 > 1 THEN v \div 4 ELSE 1) <= (IF w \div 4 > 1 THEN w \div 4 ELSE 1)
  OBVIOUS

LEMMA OverrideType ==
    ASSUME TypeOK, NEW W \in Nat, Len(entries) >= 1
    PROVE  Override(W) \in Nat
<1>1. (IF W \div 4 > 1 THEN W \div 4 ELSE 1) \in Nat
  BY WindowGrows
<1>2. Len(entries) - 1 \in Nat
  BY EntryAt
<1>. QED
  BY <1>1, <1>2 DEF Override

LEMMA SomeOfThem ==
    ASSUME NEW n \in Nat, NEW C \in SUBSET (1..n), C # {}
    PROVE  Cardinality(C) \in Nat /\ Cardinality(C) >= 1 /\ Cardinality(C) <= n
<1>1. IsFiniteSet(1..n) /\ Cardinality(1..n) = n
  <2>1. 1 \in Int /\ n \in Int
    OBVIOUS
  <2>2. IsFiniteSet(1..n) /\ Cardinality(1..n) = IF 1 > n THEN 0 ELSE n - 1 + 1
    BY ONLY <2>1, FS_Interval
  <2>. QED
    BY <2>2
<1>2. IsFiniteSet(C) /\ Cardinality(C) <= n
  <2>1. C \in SUBSET (1..n) /\ IsFiniteSet(1..n)
    BY <1>1
  <2>2. IsFiniteSet(C) /\ Cardinality(C) <= Cardinality(1..n)
    BY ONLY <2>1, FS_Subset
  <2>. QED
    BY <1>1, <2>2
<1>3. Cardinality(C) \in Nat /\ Cardinality(C) # 0
  BY <1>2, FS_CardinalityType, FS_EmptySet
<1>. QED
  BY <1>2, <1>3

(* What the tie-break may override is limited by the heaviest entry. *)
LEMMA WinnerClose ==
    ASSUME TypeOK, GivenAll, PickNearMax, pick.stage = "pay", NEW W, Heaviest(W),
           NEW j \in DOMAIN pick.added
    PROVE  current[j] - current[pick.best] <= Override(W)
<1>. DEFINE C == DOMAIN pick.added
            n == Len(entries)
            win(v) == IF v \div 4 > 1 THEN v \div 4 ELSE 1
<1>1. n \in Nat /\ C \subseteq 1..n /\ C # {} /\ pick.best \in C
      /\ \A i \in C : pick.added[i] \in Nat /\ current[i] \in Int
  BY EntryAt DEF TypeOK, PickOk, PickAmong, NonExcluded, Positions
<1>2. PICK i \in C : current[j] - current[pick.best] <= (Cardinality(C) - 1) * win(pick.added[i])
  BY DEF PickNearMax
<1>3. pick.added[i] = entries[i].weight /\ i \in Positions
  BY <1>1 DEF GivenAll, Positions
<1>4. pick.added[i] \in Nat /\ pick.added[i] <= W /\ W \in Nat
  BY <1>1, <1>3 DEF Heaviest
<1>5. win(pick.added[i]) \in Nat /\ win(W) \in Nat /\ win(pick.added[i]) <= win(W)
  BY <1>4, WindowGrows
<1>6. Cardinality(C) \in Nat /\ Cardinality(C) >= 1 /\ Cardinality(C) <= n
  BY <1>1, SomeOfThem
<1>. DEFINE c == Cardinality(C) - 1
            v == win(pick.added[i])
            w == win(W)
<1>7. c * v <= (n - 1) * w
  <2>1. c \in Nat /\ n - 1 \in Nat /\ c <= n - 1
    <3>. PICK size : size = Cardinality(C)
      OBVIOUS
    <3>. PICK len : len = n
      OBVIOUS
    <3>1. len \in Nat /\ size \in Nat /\ size >= 1 /\ size <= len
      BY <1>1, <1>6
    <3>2. size - 1 \in Nat /\ len - 1 \in Nat /\ size - 1 <= len - 1
      BY ONLY <3>1
    <3>. QED
      BY <3>2
  <2>5. v \in Nat /\ w \in Nat /\ v <= w
    BY <1>5
  <2>. HIDE DEF c, v, w
  <2>2. c * v <= c * w /\ w * c <= w * (n - 1)
    BY <2>1, <2>5, TimesMonotone
  <2>3. w * c = c * w /\ w * (n - 1) = (n - 1) * w /\ c * v \in Int /\ c * w \in Int /\ (n - 1) * w \in Int
    BY <2>1, <2>5
  <2>. QED
    BY <2>2, <2>3
<1>8. current[j] - current[pick.best] \in Int /\ c * v \in Int /\ (n - 1) * w \in Int
  <2>1. current[j] - current[pick.best] \in Int
    BY <1>1
  <2>2. c \in Int /\ v \in Int /\ w \in Int /\ n - 1 \in Int
    BY <1>1, <1>5, <1>6
  <2>. HIDE DEF c, v, w, n
  <2>. QED
    BY <2>1, <2>2
<1>9. current[j] - current[pick.best] <= c * v
  BY <1>2
<1>. HIDE DEF c, v, w
<1>10. current[j] - current[pick.best] <= (n - 1) * w
  BY <1>7, <1>8, <1>9
<1>. QED
  BY <1>10 DEF Override, w

LEMMA BeforeAt ==
    ASSUME TypeOK
    PROVE  /\ Len(entries) \in Nat /\ Positions = 1..Len(entries)
           /\ Integral(Len(entries), Before) /\ Integral(Len(entries), Given)
           /\ \A k \in 1..Len(entries) : Before[k] + Given[k] = current[k]
           /\ SumTo(Len(entries), Before) = Score - Added
<1>1. /\ Len(entries) \in Nat /\ Positions = 1..Len(entries)
      /\ \A k \in 1..Len(entries) : current[k] \in Int /\ Given[k] \in Int
      /\ Score \in Int /\ Added \in Int /\ Added = SumTo(Len(entries), Given)
  BY NumbersKnown
<1>2. \A k \in 1..Len(entries) : Before[k] = current[k] - Given[k]
  BY <1>1 DEF Before
<1>3. \A k \in 1..Len(entries) :
          Before[k] \in Int /\ Given[k] \in Int /\ current[k] = Before[k] + Given[k]
  BY <1>1, <1>2
<1>4. SumTo(Len(entries), current) = SumTo(Len(entries), Before) + SumTo(Len(entries), Given)
  BY <1>1, <1>3, SumAdds
<1>5. SumTo(Len(entries), Before) \in Int
  BY <1>1, <1>3, SumType
<1>. QED
  BY <1>1, <1>3, <1>4, <1>5 DEF Score, Integral

(* A pick from its beginning to its end is a round. *)
LEMMA SettleIsRound ==
    ASSUME ExactInv, PickNearMax, NEW i \in Positions, Settle(i), NEW W, Heaviest(W), NEW x2,
           \A k \in 1..Len(entries) : x2[k] = current'[k]
    PROVE  Round(Len(entries), Before, x2, Given, DOMAIN pick.added, pick.best, W, Override(W))
<1>. DEFINE n == Len(entries)
            C == DOMAIN pick.added
            b == pick.best
<1>1. TypeOK /\ GivenAll /\ pick.stage = "pay"
  BY SettleIs DEF ExactInv
<1>2. n \in Nat /\ C \subseteq 1..n /\ b \in C
  BY <1>1, EntryAt DEF TypeOK, PickOk, PickAmong, NonExcluded, Positions
<1>3. /\ Positions = 1..n /\ Integral(n, Before) /\ Integral(n, Given)
      /\ \A k \in 1..n : Before[k] + Given[k] = current[k]
  BY <1>1, BeforeAt
<1>4. \A k \in 1..n : Given[k] \in 0..W /\ (k \notin C => Given[k] = 0)
  <2>1. \A k \in 1..n : Given[k] = IF k \in C THEN pick.added[k] ELSE 0
    BY <1>3 DEF Given
  <2>2. \A k \in C : pick.added[k] = entries[k].weight
    BY <1>1 DEF GivenAll
  <2>3. \A k \in 1..n : entries[k].weight \in Nat /\ entries[k].weight <= W /\ W \in Nat
    BY <1>1, <1>3, EntryAt DEF Heaviest
  <2>. QED
    BY <2>1, <2>2, <2>3
<1>5. \A j \in C : (Before[j] + Given[j]) - (Before[b] + Given[b]) <= Override(W)
  BY <1>1, <1>2, <1>3, WinnerClose
<1>6. SubTotal(Due(i)) = SumTo(n, Given)
  BY <1>1, PaysExactly, NumbersKnown DEF ExactInv
<1>7. \A k \in 1..n : x2[k] = Before[k] + Given[k] - (IF k = b THEN SumTo(n, Given) ELSE 0)
  <2>1. \A k \in 1..n : current'[k] = IF k = b THEN current[k] - SumTo(n, Given) ELSE current[k]
    BY <1>1, <1>2, <1>3, <1>6 DEF Settle, Due, TypeOK
  <2>2. SumTo(n, Given) \in Int /\ \A k \in 1..n : current[k] \in Int
    BY <1>1, NumbersKnown DEF TypeOK
  <2>. DEFINE total == SumTo(n, Given)
  <2>3. \A k \in 1..n : x2[k] = current'[k] /\ current[k] = Before[k] + Given[k]
    BY <1>3
  <2>4. total \in Int /\ \A k \in 1..n : current'[k] = IF k = b THEN current[k] - total ELSE current[k]
    BY <2>1, <2>2
  <2>. SUFFICES ASSUME NEW k \in 1..n
                PROVE  x2[k] = Before[k] + Given[k] - (IF k = b THEN total ELSE 0)
    OBVIOUS
  <2>. HIDE DEF total, n, C, b
  <2>5. x2[k] = current'[k] /\ current[k] = Before[k] + Given[k] /\ current[k] \in Int
    BY <2>2, <2>3
  <2>6. k = b => current'[k] = current[k] - total
    BY <2>4
  <2>7. k # b => current'[k] = current[k]
    BY <2>4
  <2>8. Before[k] \in Int /\ Given[k] \in Int
    BY <1>3 DEF Integral
  <2>. QED
    BY <2>4, <2>5, <2>6, <2>7, <2>8
<1>. HIDE DEF n, C, b
<1>8. C \in SUBSET (1..n) /\ b \in C
  BY <1>2
<1>9. Round(n, Before, x2, Given, C, b, W, Override(W))
  BY <1>4, <1>5, <1>7, <1>8 DEF Round
<1>. QED
  BY <1>9 DEF n, C, b

LEMMA SettleLevels ==
    ASSUME ExactInv, ExactInv', PickNearMax, Leveled, NEW i \in Positions, Settle(i)
    PROVE  Leveled'
<1>. DEFINE n == Len(entries)
            x2 == Before'
<1>1. entries' = entries /\ Unlocked' /\ pick' = NoPick
  BY SettleIs DEF Settle, ExactInv
<1>2. \A k \in 1..n : x2[k] = current'[k]
  <2>1. \A k \in 1..n : current'[k] \in Int /\ Positions' = 1..n
    BY <1>1 DEF ExactInv, TypeOK, Positions
  <2>2. \A k \in 1..n : Given'[k] = 0
    BY <1>1, <2>1 DEF Given, NoPick
  <2>3. \A k \in 1..n : x2[k] = current'[k] - Given'[k]
    BY <2>1 DEF Before
  <2>. QED
    BY <2>1, <2>2, <2>3
<1>. SUFFICES ASSUME NEW W, Heaviest(W)'
              PROVE  (Balanced(Len(entries), Before, 2 * W + Override(W)))'
  BY DEF Leveled
<1>3. Heaviest(W) /\ Override(W)' = Override(W) /\ W \in Nat
  BY <1>1 DEF Heaviest, Override, Positions
<1>. HIDE DEF x2
<1>4. Round(n, Before, x2, Given, DOMAIN pick.added, pick.best, W, Override(W))
  BY <1>2, <1>3, SettleIsRound
<1>5. n \in Nat /\ Integral(n, Before) /\ TypeOK
  BY BeforeAt DEF ExactInv
<1>6. n >= 1
  <2>1. pick.best \in 1..n
    BY <1>5, SettleIs DEF Positions
  <2>. QED
    BY <1>5, <2>1
<1>7. Override(W) \in Nat
  BY <1>3, <1>5, <1>6, OverrideType
<1>8. Balanced(n, Before, 2 * W + Override(W))
  BY <1>3 DEF Leveled
<1>. HIDE DEF n
<1>9. Balanced(n, x2, 2 * W + Override(W))
  BY <1>3, <1>4, <1>5, <1>7, <1>8, RoundBalances
<1>. QED
  BY <1>1, <1>3, <1>9 DEF x2, n

(* Scores of zero are balanced. *)
AtZero == \A i \in Positions : Before[i] = 0

LEMMA LevelAtRest == TypeOK /\ AtZero => Leveled
<1>. SUFFICES ASSUME TypeOK, AtZero PROVE Leveled
  OBVIOUS
<1>. DEFINE n == Len(entries)
<1>. SUFFICES ASSUME NEW W, Heaviest(W), NEW S \in SUBSET (1..n)
              PROVE  2 * SumOver(n, S, Before) <= (2 * W + Override(W)) * Quota(n, Number(n, S))
  BY DEF Leveled, Balanced
<1>1. n \in Nat /\ Positions = 1..n
  BY BeforeAt
<1>2. SumOver(n, S, Before) = 0
  <2>1. \A k \in 1..n : k \in S => Before[k] = 0
    BY <1>1 DEF AtZero
  <2>. HIDE DEF n
  <2>. QED
    BY <1>1, <2>1, OverNone
<1>3. Number(n, S) \in Nat /\ Number(n, S) <= n
  <2>1. Number(n, S) \in Nat
    BY <1>1, NumberType
  <2>3. \A k \in 1..n : /\ Only(n, S, Ones(n))[k] \in Int /\ Ones(n)[k] \in Int
                        /\ Only(n, S, Ones(n))[k] <= Ones(n)[k]
    <3>1. /\ \A k \in 1..n : Only(n, S, Ones(n))[k] = IF k \in S THEN Ones(n)[k] ELSE 0
          /\ \A k \in 1..n : Ones(n)[k] = 1
      BY <1>1, OnlyType, OnesType
    <3>. QED
      BY <3>1
  <2>4. SumTo(n, Only(n, S, Ones(n))) <= SumTo(n, Ones(n))
    BY <1>1, <2>3, SumGrows
  <2>5. SumTo(n, Ones(n)) = n
    BY <1>1, OverAll, OnesType, NumberOfAll DEF Number
  <2>. QED
    BY <2>1, <2>4, <2>5 DEF Number, SumOver
<1>4. (2 * W + Override(W)) * Quota(n, Number(n, S)) >= 0
  <2>. DEFINE k == Number(n, S)
  <2>. HIDE DEF k
  <2>1. k \in Nat /\ k <= n
    BY <1>3 DEF k
  <2>2. CASE n = 0
    <3>1. k = 0 /\ Quota(n, k) = 0
      BY <2>1, <2>2 DEF Quota
    <3>2. Override(W) \in Int
      <4>1. (IF W \div 4 > 1 THEN W \div 4 ELSE 1) \in Nat
        BY WindowGrows DEF Heaviest
      <4>. QED
        BY <1>1, <4>1 DEF Override
    <3>. QED
      BY <3>1, <3>2 DEF Heaviest, k
  <2>3. CASE n # 0
    <3>1. W \in Nat /\ Override(W) \in Nat
      BY <1>1, <2>3, OverrideType DEF Heaviest
    <3>2. Quota(n, k) \in Nat
      <4>1. n - k \in Nat
        BY <1>1, <2>1
      <4>. QED
        BY <2>1, <4>1 DEF Quota
    <3>. DEFINE G == 2 * W + Override(W)
    <3>3. G \in Nat
      BY <3>1
    <3>. HIDE DEF G
    <3>4. G * Quota(n, k) >= 0
      BY <3>2, <3>3
    <3>. QED
      BY <3>4 DEF G, k
  <2>. QED
    BY <2>2, <2>3
<1>. QED
  BY <1>2, <1>4

LEMMA LevelAtRestNext == (TypeOK /\ AtZero => Leveled)'
  BY LevelAtRest, PTL

LEMMA SameBefore ==
    ASSUME Leveled, entries' = entries, Before' = Before
    PROVE  Leveled'
  BY DEF Leveled, Heaviest, Override, Positions

LEMMA WeighLevels ==
    ASSUME TypeOK, Leveled, NEW i \in Positions, WeighEntry(i)
    PROVE  Leveled'
<1>1. entries' = entries /\ Positions' = Positions
  BY DEF WeighEntry, Positions
<1>2. EffectiveWeight(i) \in Int /\ \A k \in Positions : Given[k] \in Int /\ current[k] \in Int
  BY WeightsInt, NumbersKnown
<1>3. \A k \in Positions : Given'[k] = IF k = i THEN EffectiveWeight(i) ELSE Given[k]
  <2>1. /\ i \notin DOMAIN pick.added
        /\ pick'.added = Extended(pick.added, i, EffectiveWeight(i))
    BY WeighIs
  <2>2. /\ DOMAIN pick'.added = DOMAIN pick.added \cup {i}
        /\ \A j \in DOMAIN pick.added \cup {i} :
               pick'.added[j] = IF j = i THEN EffectiveWeight(i) ELSE pick.added[j]
    BY <2>1 DEF Extended
  <2>. SUFFICES ASSUME NEW k \in Positions
                PROVE  Given'[k] = IF k = i THEN EffectiveWeight(i) ELSE Given[k]
    OBVIOUS
  <2>3. Given'[k] = IF k \in DOMAIN pick'.added THEN pick'.added[k] ELSE 0
    BY <1>1 DEF Given
  <2>4. Given[k] = IF k \in DOMAIN pick.added THEN pick.added[k] ELSE 0
    BY DEF Given
  <2>. QED
    BY <2>1, <2>2, <2>3, <2>4
<1>4. Given[i] = 0
  BY WeighIs DEF Given
<1>5. \A k \in Positions : current'[k] = IF k = i THEN current[k] + EffectiveWeight(i) ELSE current[k]
  BY DEF WeighEntry, TypeOK
<1>6. \A k \in Positions : current'[k] - Given'[k] = current[k] - Given[k]
  BY <1>2, <1>3, <1>4, <1>5
<1>7. Before' = Before
  BY <1>1, <1>6 DEF Before
<1>. QED
  BY <1>1, <1>7, SameBefore

LagInv == ExactInv /\ Leveled

LEMMA LagNext ==
    ColdReadings /\ Failing = {} /\ LagInv /\ PickNearMax /\ [Next]_vars => LagInv'
<1>. SUFFICES ASSUME ColdReadings, Failing = {}, LagInv, PickNearMax, [Next]_vars
              PROVE  LagInv'
  OBVIOUS
<1>1. ExactInv /\ ExactInv' /\ TypeOK /\ TypeOK' /\ Leveled
  BY ExactNext DEF LagInv, ExactInv
<1>2. ASSUME entries' = entries, current' = current, pick'.added = pick.added PROVE Leveled'
  <2>1. Before' = Before
    BY <1>2 DEF Before, Given, Positions
  <2>. QED
    BY <1>1, <1>2, <2>1, SameBefore
<1>3. ASSUME Passing PROVE Leveled'
  <2>1. ASSUME NEW i \in Positions, SkipEntry(i) PROVE Leveled'
    BY <1>1, <1>2, <2>1, SkipIs DEF SkipEntry
  <2>2. ASSUME NEW i \in Positions, WeighEntry(i) PROVE Leveled'
    BY <1>1, <2>2, WeighLevels
  <2>3. ASSUME NEW i \in Positions, ScanEntry(i) PROVE Leveled'
    BY <1>1, <1>2, <2>3, ScanIs DEF ScanEntry
  <2>4. ASSUME NEW i \in Positions, PayEntry(i) PROVE Leveled'
    BY <1>1, <1>2, <2>4, PayIs DEF PayEntry
  <2>. QED
    BY <1>3, <2>1, <2>2, <2>3, <2>4 DEF Passing
<1>4. ASSUME NEW i \in Positions, Settle(i) PROVE Leveled'
  BY <1>1, <1>4, SettleLevels
<1>5. ASSUME NEW config \in Configs, SetEntries(config) PROVE Leveled'
  <2>1. pick' = NoPick /\ \A i \in Positions' : current'[i] = 0
    BY <1>1, <1>5, UnlockedIs DEF SetEntries, Positions
  <2>2. \A i \in Positions' : Given'[i] = 0
    BY <2>1 DEF Given, NoPick
  <2>3. \A i \in Positions' : Before'[i] = 0
    BY <2>1, <2>2 DEF Before
  <2>. QED
    BY <1>1, <2>3, LevelAtRestNext DEF AtZero
<1>6. ASSUME UNCHANGED <<entries, current, pick>> PROVE Leveled'
  BY <1>2, <1>6
<1>7. ASSUME NEW ex \in Excludes, StartPick(ex) PROVE Leveled'
  BY <1>1, <1>2, <1>7, UnlockedIs DEF StartPick, NoPick
<1>8. Leveled'
  BY <1>3, <1>4, <1>5, <1>6, <1>7
     DEF Next, vars, SetMode, RecordDialFailure, RecordDialSuccess, Tick, Observe
<1>. QED
  BY <1>1, <1>8 DEF LagInv

LEMMA LagBounded == LagInv => ShareLag
<1>. SUFFICES ASSUME LagInv, Unlocked, NEW i \in Positions
              PROVE  \E m \in Positions : 2 * Abs(current[i]) <= LagBound(entries[m].weight)
  BY DEF ShareLag
<1>. DEFINE n == Len(entries)
            f == [j \in Positions |-> entries[j].weight]
<1>1. TypeOK /\ ZeroSum /\ Leveled /\ Added = 0
  BY NothingAdded DEF LagInv, ExactInv
<1>2. /\ n \in Nat /\ Positions = 1..n /\ Integral(n, Before)
      /\ SumTo(n, Before) = Score - Added /\ \A j \in Positions : Before[j] = current[j]
  <2>1. /\ n \in Nat /\ Positions = 1..n /\ Integral(n, Before)
        /\ SumTo(n, Before) = Score - Added
    BY <1>1, BeforeAt
  <2>2. \A j \in Positions : Given[j] = 0 /\ current[j] \in Int
    BY <1>1, UnlockedIs DEF Given, NoPick, TypeOK
  <2>. QED
    BY <2>1, <2>2 DEF Before
<1>3. SumTo(n, Before) = 0
  BY <1>1, <1>2 DEF ZeroSum
<1>4. \A j \in Positions : f[j] \in Nat /\ f[j] = entries[j].weight
  BY <1>1, EntryAt
<1>. HIDE DEF f
<1>5. PICK m \in Positions : \A j \in Positions : f[j] <= f[m]
  <2>1. n \in Nat /\ Positions \in SUBSET (1..n) /\ Positions # {}
    BY <1>2
  <2>2. \A j \in Positions : f[j] \in Nat
    BY <1>4
  <2>. HIDE DEF n
  <2>. QED
    BY ONLY <2>1, <2>2, WidestWindow
<1>. DEFINE W == entries[m].weight
            G == 2 * W + Override(W)
<1>6. Heaviest(W)
  BY <1>4, <1>5 DEF Heaviest
<1>7. Balanced(n, Before, G)
  BY <1>1, <1>6 DEF Leveled
<1>8. G \in Nat
  <2>1. n >= 1
    BY <1>2
  <2>2. W \in Nat /\ Override(W) \in Nat
    BY <1>1, <1>6, <2>1, OverrideType DEF Heaviest
  <2>. QED
    BY <2>2
<1>. HIDE DEF n, W, G
<1>9. i \in 1..n
  BY <1>2
<1>10. 2 * Abs(Before[i]) <= (n - 1) * G
  BY <1>2, <1>3, <1>7, <1>8, <1>9, BalancedLag
<1>11. 2 * Abs(current[i]) <= LagBound(entries[m].weight)
  BY <1>2, <1>10 DEF n, W, G, LagBound
<1>. QED
  BY <1>11

(* Below the cold rate and without failing dials, for any number of        *)
(* adapters, any weights and any series of picks that exclude what they    *)
(* like, no adapter drifts from its share.                                 *)
THEOREM NoDrift == ASSUME ColdReadings, Failing = {} PROVE Spec => []ShareLag
<1>1. Init => LagInv
  <2>. SUFFICES ASSUME Init PROVE LagInv
    OBVIOUS
  <2>1. ExactInv
    BY ExactInit
  <2>2. \A i \in Positions : Before[i] = 0
    BY DEF Init, Positions
  <2>. QED
    BY <2>1, <2>2, LevelAtRest DEF LagInv, ExactInv, AtZero
<1>2. ColdReadings /\ Failing = {}
  OBVIOUS
<1>3. LagInv /\ PickNearMax /\ [Next]_vars => LagInv'
  BY <1>2, LagNext
<1>. QED
  BY <1>1, <1>3, NearMax, LagBounded, PTL DEF Spec
-----------------------------------------------------------------------------
(* Faster adapters                                                         *)

(* A larger factor num / den is not rounded to less.                       *)
LEMMA RoundingGrows ==
    ASSUME NEW u \in Nat \ {0}, NEW num1 \in Nat, NEW num2 \in Nat,
           NEW den1 \in Nat \ {0}, NEW den2 \in Nat \ {0}, num2 <= num1, den1 <= den2
    PROVE  (20 * u * num2 + den2) \div (2 * den2) <= (20 * u * num1 + den1) \div (2 * den1)
<1>. DEFINE w1 == (20 * u * num1 + den1) \div (2 * den1)
            w2 == (20 * u * num2 + den2) \div (2 * den2)
<1>1. /\ w1 \in Int /\ 20 * u * num1 + den1 < (2 * den1) * (w1 + 1)
      /\ w2 \in Int /\ (2 * den2) * w2 <= 20 * u * num2 + den2
  <2>1. /\ 20 * u * num1 + den1 \in Int /\ 2 * den1 \in Nat \ {0}
        /\ 20 * u * num2 + den2 \in Int /\ 2 * den2 \in Nat \ {0}
    OBVIOUS
  <2>. QED
    BY <2>1, Division
<1>. HIDE DEF w1, w2
<1>2. SUFFICES ASSUME w1 + 1 <= w2 PROVE FALSE
  BY <1>1 DEF w1, w2
<1>. DEFINE x1 == 20 * u * num1
            x2 == 20 * u * num2
            top == 2 * w2 - 1
<1>3. x1 \in Nat /\ x2 \in Nat /\ x2 <= x1 /\ top \in Int
  <2>1. u * num2 <= u * num1 /\ u * num1 \in Nat /\ u * num2 \in Nat
    BY TimesMonotone
  <2>2. x1 = 20 * (u * num1) /\ x2 = 20 * (u * num2)
    OBVIOUS
  <2>. QED
    BY <1>1, <2>1, <2>2
<1>4. den2 * top <= x2
  <2>1. den2 * top = (2 * den2) * w2 - den2
    BY <1>1
  <2>. QED
    BY <1>1, <2>1
<1>5. x1 < den1 * top
  <2>1. (2 * den1) * (w1 + 1) <= (2 * den1) * w2
    BY <1>1, <1>2, TimesMonotone
  <2>2. den1 * top = (2 * den1) * w2 - den1
    BY <1>1
  <2>. QED
    BY <1>1, <2>1, <2>2
<1>. HIDE DEF x1, x2, top
<1>6. top >= 0
  <2>1. CASE top < 0
    <3>1. den1 * top <= den1 * 0
      BY <1>3, <2>1, TimesMonotone
    <3>. QED
      BY <1>3, <1>5, <3>1
  <2>. QED
    BY <1>3, <2>1
<1>7. den1 * top <= den2 * top
  <2>1. top * den1 <= top * den2
    BY <1>3, <1>6, TimesMonotone
  <2>2. top * den1 = den1 * top /\ top * den2 = den2 * top
    BY <1>3
  <2>. QED
    BY <2>1, <2>2
<1>. QED
  <2>1. den1 * top \in Int /\ den2 * top \in Int
    BY <1>3
  <2>. QED
    BY <1>3, <1>4, <1>5, <1>7, <2>1

(* Readings under which the load factor 1 + 0.08 * active is positive.     *)
Loadable(r) == r.active >= -12

LEMMA AdaptiveGrows ==
    ASSUME NEW u \in Nat \ {0}, NEW peak \in Nat \ {0},
           NEW r1 \in Reading, NEW r2 \in Reading, Loadable(r1),
           r2.rate <= r1.rate, r1.active <= r2.active, r1.errors <= r2.errors
    PROVE  AdaptiveWeight(u, r2, peak) <= AdaptiveWeight(u, r1, peak)
<1>. DEFINE load(r) == 100 + 8 * r.active
            fail(r) == 100 + 15 * r.errors
            num(r)  == 500 * (IF 20 * r.rate < peak THEN peak ELSE 20 * r.rate)
            den(r)  == peak * load(r) * fail(r)
<1>1. /\ load(r1) \in Nat \ {0} /\ load(r2) \in Nat \ {0} /\ load(r1) <= load(r2)
      /\ fail(r1) \in Nat \ {0} /\ fail(r2) \in Nat \ {0} /\ fail(r1) <= fail(r2)
      /\ num(r1) \in Nat /\ num(r2) \in Nat /\ num(r2) <= num(r1)
  <2>1. /\ r1.rate \in Nat /\ r1.active \in Int /\ r1.errors \in Nat
        /\ r2.rate \in Nat /\ r2.active \in Int /\ r2.errors \in Nat
        /\ r1.active >= -12
    BY DEF Reading, Loadable
  <2>2. load(r1) \in Nat \ {0} /\ load(r2) \in Nat \ {0} /\ load(r1) <= load(r2)
    <3>1. \A x, y \in Int : x >= -12 /\ x <= y =>
              100 + 8 * x \in Nat \ {0} /\ 100 + 8 * y \in Nat \ {0} /\ 100 + 8 * x <= 100 + 8 * y
      OBVIOUS
    <3>. QED
      BY <2>1, <3>1
  <2>3. fail(r1) \in Nat \ {0} /\ fail(r2) \in Nat \ {0} /\ fail(r1) <= fail(r2)
    BY <2>1, SMTT(30)
  <2>4. num(r1) \in Nat /\ num(r2) \in Nat /\ num(r2) <= num(r1)
    BY <2>1, SMTT(30)
  <2>. QED
    BY <2>2, <2>3, <2>4
<1>2. \A a1, b1, a2, b2 \in Nat \ {0} : a1 <= a2 /\ b1 <= b2 => a1 * b1 \in Nat \ {0} /\ a1 * b1 <= a2 * b2
  <2>. TAKE a1, b1, a2, b2 \in Nat \ {0}
  <2>. SUFFICES ASSUME a1 <= a2, b1 <= b2 PROVE a1 * b1 \in Nat \ {0} /\ a1 * b1 <= a2 * b2
    OBVIOUS
  <2>1. a1 * b1 <= a1 * b2 /\ b2 * a1 <= b2 * a2
    BY TimesMonotone
  <2>2. a1 * b1 # 0
    BY TimesNonzero
  <2>. QED
    BY <2>1, <2>2
<1>3. den(r1) \in Nat \ {0} /\ den(r2) \in Nat \ {0} /\ den(r1) <= den(r2)
  <2>. HIDE DEF load, fail
  <2>1. /\ peak * load(r1) \in Nat \ {0} /\ peak * load(r2) \in Nat \ {0}
        /\ peak * load(r1) <= peak * load(r2)
    BY <1>1, <1>2
  <2>. DEFINE p1 == peak * load(r1)
              p2 == peak * load(r2)
  <2>2. den(r1) = p1 * fail(r1) /\ den(r2) = p2 * fail(r2)
    OBVIOUS
  <2>. HIDE DEF den, p1, p2
  <2>3. p1 \in Nat \ {0} /\ p2 \in Nat \ {0} /\ p1 <= p2
    BY <2>1 DEF p1, p2
  <2>4. /\ p1 * fail(r1) \in Nat \ {0} /\ p1 * fail(r1) <= p2 * fail(r2)
        /\ p2 * fail(r2) \in Nat \ {0}
    BY <1>1, <1>2, <2>3, SMTT(30)
  <2>. QED
    BY <2>2, <2>4
<1>4. \A r \in {r1, r2} : AdaptiveWeight(u, r, peak) =
          IF den(r) < 0 \/ 4 * num(r) < den(r) THEN (5 * u + 1) \div 2
          ELSE IF num(r) > 4 * den(r)          THEN 40 * u
          ELSE (20 * u * num(r) + den(r)) \div (2 * den(r))
  BY DEF AdaptiveWeight
<1>. HIDE DEF num, den
<1>. DEFINE w1 == AdaptiveWeight(u, r1, peak)
            w2 == AdaptiveWeight(u, r2, peak)
<1>5. w1 \in Int /\ 5 * u <= 2 * w1 /\ w1 <= 40 * u /\ w2 \in Int /\ w2 <= 40 * u
  BY AdaptiveBounds
<1>. HIDE DEF w1, w2
<1>6. CASE 4 * num(r2) < den(r2)
  <2>1. w2 = (5 * u + 1) \div 2
    BY <1>4, <1>6 DEF w2
  <2>. QED
    BY <1>5, <2>1 DEF w1, w2
<1>7. CASE num(r1) > 4 * den(r1)
  <2>1. w1 = 40 * u
    BY <1>1, <1>3, <1>4, <1>7 DEF w1
  <2>. QED
    BY <1>5, <2>1 DEF w1, w2
<1>8. CASE ~(4 * num(r2) < den(r2)) /\ ~(num(r1) > 4 * den(r1))
  <2>1. ~(4 * num(r1) < den(r1)) /\ ~(num(r2) > 4 * den(r2))
    BY <1>1, <1>3, <1>8
  <2>2. /\ w1 = (20 * u * num(r1) + den(r1)) \div (2 * den(r1))
        /\ w2 = (20 * u * num(r2) + den(r2)) \div (2 * den(r2))
    BY <1>1, <1>3, <1>4, <1>8, <2>1 DEF w1, w2
  <2>3. w2 <= w1
    <3>. DEFINE n1 == num(r1)
                n2 == num(r2)
                d1 == den(r1)
                d2 == den(r2)
    <3>1. n1 \in Nat /\ n2 \in Nat /\ n2 <= n1 /\ d1 \in Nat \ {0} /\ d2 \in Nat \ {0} /\ d1 <= d2
      BY <1>1, <1>3
    <3>2. w1 = (20 * u * n1 + d1) \div (2 * d1) /\ w2 = (20 * u * n2 + d2) \div (2 * d2)
      BY <2>2
    <3>. HIDE DEF n1, n2, d1, d2
    <3>. QED
      BY <3>1, <3>2, RoundingGrows
  <2>. QED
    BY <2>3 DEF w1, w2
<1>. QED
  BY <1>6, <1>7, <1>8

AllLoadable == \A a \in Adapters : Loadable(stats[a])

LEMMA FasterWeighsMore == TypeOK /\ AllLoadable => FasterNotLighter
<1>. SUFFICES ASSUME TypeOK, AllLoadable, NEW i \in Positions, NEW j \in Positions,
                     entries[i].weight = entries[j].weight, ~Demoted(entries[i].id),
                     stats[entries[i].id].rate >= stats[entries[j].id].rate,
                     stats[entries[i].id].active <= stats[entries[j].id].active,
                     stats[entries[i].id].errors <= stats[entries[j].id].errors
              PROVE  EffectiveWeight(i) >= EffectiveWeight(j)
  BY DEF FasterNotLighter
<1>1. /\ entries[i].id \in Adapters /\ entries[i].weight \in Nat \ {0}
      /\ stats[entries[i].id] \in Reading /\ stats[entries[j].id] \in Reading
  BY EntryAt
<1>2. EffectiveWeight(i) \in Int /\ EffectiveWeight(i) >= 1
  BY WeightOf
<1>3. CASE Demoted(entries[j].id)
  BY <1>2, <1>3 DEF EffectiveWeight
<1>4. CASE ~Demoted(entries[j].id) /\ (mode # "adaptive" \/ Len(entries) < 2 \/ MaxRate < ColdRate)
  BY <1>1, <1>4 DEF EffectiveWeight
<1>5. CASE ~Demoted(entries[j].id) /\ ~(mode # "adaptive" \/ Len(entries) < 2 \/ MaxRate < ColdRate)
  <2>. DEFINE peak == MaxRate
              ri == stats[entries[i].id]
              rj == stats[entries[j].id]
              u == entries[i].weight
  <2>1. peak \in Nat \ {0}
    BY <1>5, MaxRateType DEF ColdRate
  <2>2. Loadable(ri) /\ ri \in Reading /\ rj \in Reading /\ u \in Nat \ {0}
    BY <1>1 DEF AllLoadable
  <2>3. EffectiveWeight(i) = AdaptiveWeight(u, ri, peak) /\ EffectiveWeight(j) = AdaptiveWeight(u, rj, peak)
    BY <1>5 DEF EffectiveWeight
  <2>4. rj.rate <= ri.rate /\ ri.active <= rj.active /\ ri.errors <= rj.errors
    BY <2>2 DEF Reading
  <2>. HIDE DEF peak, ri, rj, u
  <2>5. AdaptiveWeight(u, rj, peak) <= AdaptiveWeight(u, ri, peak)
    BY <2>1, <2>2, <2>4, AdaptiveGrows
  <2>6. AdaptiveWeight(u, ri, peak) \in Int /\ AdaptiveWeight(u, rj, peak) \in Int
    BY <2>1, <2>2, AdaptiveBounds
  <2>. QED
    BY <2>3, <2>5, <2>6
<1>. QED
  BY <1>3, <1>4, <1>5

(* While the registry has not been reset under thirteen open connections   *)
(* of an adapter, which would make its load factor negative, an adapter    *)
(* that is as fast, no busier and no worse never weighs less.              *)
THEOREM FasterFirst ==
    ASSUME \A r \in Readings : Loadable(r) PROVE Spec => []FasterNotLighter
<1>1. Init => AllLoadable
  BY SMTT(30) DEF Init, AllLoadable, Loadable
<1>2. AllLoadable /\ [Next]_vars => AllLoadable'
  BY DEF AllLoadable, Next, vars, Passing, StartPick, SkipEntry, WeighEntry, ScanEntry, PayEntry,
         Settle, SetEntries, SetMode, RecordDialFailure, RecordDialSuccess, Tick, Observe
<1>. QED
  BY <1>1, <1>2, TypeCorrect, FasterWeighsMore, PTL DEF Spec

=============================================================================
