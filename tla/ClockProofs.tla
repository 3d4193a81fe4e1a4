---------------------------- MODULE ClockProofs ----------------------------
(***************************************************************************)
(* Theorems about ClockBench: whatever calls a testbench makes, a clock    *)
(* signal has the waveform of one Clock, and run() returns when the design *)
(* has heard it up to max_time.                                            *)
(***************************************************************************)
EXTENDS ClockBench, TLAPS

----------------------------------------------------------------------------
(* Arithmetic.                                                             *)

\* Multiples keep the distance of their factors.
LEMMA MultiplesApart ==
  ASSUME NEW a \in Nat, NEW b \in Nat, NEW p \in Nat, a < b
  PROVE  a * p + p <= b * p
  <1>1. PICK d \in Nat : b = a + 1 + d
    BY b - a - 1 \in Nat, b = a + 1 + (b - a - 1)
  <1>2. b * p = a * p + p + d * p
    BY <1>1
  <1>3. d * p \in Nat /\ a * p \in Nat
    OBVIOUS
  <1> QED BY <1>2, <1>3

\* A number is a multiple of its period plus less than a period.
LEMMA LastMultiple ==
  ASSUME NEW x \in Nat, NEW p \in Nat \ {0}
  PROVE  \E m \in Nat : m * p <= x /\ x < m * p + p
  <1>1. x \div p \in Nat /\ x % p \in 0 .. p - 1 /\ x = p * (x \div p) + (x % p)
    OBVIOUS
  <1>2. (x \div p) * p = p * (x \div p) /\ p * (x \div p) \in Nat
    BY <1>1
  <1> QED BY <1>1, <1>2

\* The remainder is 0 for the multiples only.
LEMMA Divides ==
  ASSUME NEW x \in Nat, NEW p \in Nat \ {0}
  PROVE  x % p = 0 <=> \E k \in Nat : x = k * p
  <1>1. x \div p \in Nat /\ x % p \in 0 .. p - 1 /\ x = (x \div p) * p + (x % p)
    OBVIOUS
  <1>2. ASSUME NEW k \in Nat, x = k * p
        PROVE  x % p = 0
    <2> DEFINE q == x \div p
    <2>1. q \in Nat /\ x % p \in 0 .. p - 1 /\ k * p = q * p + (x % p)
      BY <1>1, <1>2
    <2> HIDE DEF q
    <2>2. CASE k < q
      <3>1. k * p + p <= q * p
        BY <2>1, <2>2, MultiplesApart
      <3> QED BY <2>1, <3>1
    <2>3. CASE q < k
      <3>1. q * p + p <= k * p
        BY <2>1, <2>3, MultiplesApart
      <3> QED BY <2>1, <3>1
    <2>4. CASE k = q
      <3> DEFINE a == k * p
                 r == x % p
      <3>1. a \in Nat /\ r \in Nat /\ a = a + r
        BY <2>1, <2>4
      <3> HIDE DEF a, r
      <3>2. r = 0
        BY <3>1
      <3> QED BY <3>2 DEF r
    <2> QED BY <2>1, <2>2, <2>3, <2>4
  <1>3. ASSUME x % p = 0
        PROVE  \E k \in Nat : x = k * p
    <2> DEFINE q == x \div p
               a == q * p
    <2>1. q \in Nat /\ a \in Nat /\ x = a + 0
      BY <1>1, <1>3
    <2>2. x = a
      <3> HIDE DEF a
      <3> QED BY <2>1
    <2> HIDE DEF q
    <2> QED BY <2>1, <2>2
  <1> QED BY <1>2, <1>3

----------------------------------------------------------------------------
(* The waveform of a clock.                                                *)

\* Rising and falling edges come in pairs, a period apart.
LEMMA EdgeTimes ==
  ASSUME NEW s \in Signals, NEW m \in Nat
  PROVE  /\ High[s] \in Nat \ {0} /\ Period(s) \in Nat \ {0} /\ High[s] < Period(s)
         /\ m * Period(s) \in Nat
         /\ EdgeTime(s, 2 * m + 1) = m * Period(s)
         /\ EdgeTime(s, 2 * m + 2) = m * Period(s) + High[s]
  <1>1. High[s] \in Nat \ {0} /\ Low[s] \in Nat \ {0}
    BY ClockAssumption
  <1>2. /\ ((2 * m + 1) - 1) \div 2 = m /\ (2 * m + 1) % 2 = 1
        /\ ((2 * m + 2) - 1) \div 2 = m /\ (2 * m + 2) % 2 = 0
    OBVIOUS
  <1>3. Period(s) \in Nat \ {0} /\ High[s] < Period(s)
    BY <1>1 DEF Period
  <1>4. m * Period(s) \in Nat
    BY <1>3
  <1> HIDE DEF Period
  <1> QED BY <1>1, <1>2, <1>3, <1>4 DEF EdgeTime

\* Positions are odd or even.
LEMMA Parity ==
  ASSUME NEW i \in Nat \ {0}
  PROVE  \E m \in Nat : i = 2 * m + 1 \/ i = 2 * m + 2
  <1>1. (i - 1) \div 2 \in Nat /\ (i = 2 * ((i - 1) \div 2) + 1 \/ i = 2 * ((i - 1) \div 2) + 2)
    OBVIOUS
  <1> QED BY <1>1

\* The edges of a clock are in order of time.
LEMMA EdgesOrdered ==
  ASSUME NEW s \in Signals, NEW i \in Nat \ {0}, NEW j \in Nat \ {0}, i < j
  PROVE  EdgeTime(s, i) \in Nat /\ EdgeTime(s, j) \in Nat /\ EdgeTime(s, i) < EdgeTime(s, j)
  <1>1. PICK m \in Nat : i = 2 * m + 1 \/ i = 2 * m + 2
    BY Parity
  <1>2. PICK n \in Nat : j = 2 * n + 1 \/ j = 2 * n + 2
    BY Parity
  <1>3. /\ High[s] \in Nat \ {0} /\ Period(s) \in Nat \ {0} /\ High[s] < Period(s)
        /\ m * Period(s) \in Nat /\ n * Period(s) \in Nat
        /\ EdgeTime(s, 2 * m + 1) = m * Period(s)
        /\ EdgeTime(s, 2 * m + 2) = m * Period(s) + High[s]
        /\ EdgeTime(s, 2 * n + 1) = n * Period(s)
        /\ EdgeTime(s, 2 * n + 2) = n * Period(s) + High[s]
    BY EdgeTimes
  <1>4. m < n \/ (m = n /\ i = 2 * m + 1 /\ j = 2 * n + 2)
    BY <1>1, <1>2
  <1>5. CASE m < n
    <2>1. m * Period(s) + Period(s) <= n * Period(s)
      BY <1>3, <1>5, MultiplesApart
    <2> DEFINE a == m * Period(s)
               b == n * Period(s)
               p == Period(s)
    <2>2. a \in Nat /\ b \in Nat /\ p \in Nat /\ a + p <= b /\ High[s] \in Nat /\ High[s] < p
      BY <1>3, <2>1
    <2>3. EdgeTime(s, i) \in {a, a + High[s]} /\ EdgeTime(s, j) \in {b, b + High[s]}
      BY <1>1, <1>2, <1>3
    <2> HIDE DEF a, b, p
    <2> QED BY <2>2, <2>3
  <1>6. CASE m = n /\ i = 2 * m + 1 /\ j = 2 * n + 2
    BY <1>3, <1>6
  <1> QED BY <1>4, <1>5, <1>6

----------------------------------------------------------------------------
(* Scheduling.                                                             *)

\* The rising edges queued by a call are the multiples of the period from the
\* first one not queued yet to max.
LEMMA RisesAre ==
  ASSUME NEW next, NEW s \in Signals, NEW max \in Nat, NEW n \in Nat, From(next, s) = n * Period(s)
  PROVE  \E n2 \in Nat :
            /\ n <= n2 /\ n2 * Period(s) > max
            /\ \A t : t \in Rises(next, s, max) <=> \E j \in Nat : n <= j /\ j < n2 /\ t = j * Period(s)
            /\ IF Rises(next, s, max) = {} THEN n2 = n
               ELSE Max(Rises(next, s, max)) + Period(s) = n2 * Period(s)
  <1> DEFINE P == Period(s)
             R == Rises(next, s, max)
  <1>1. P \in Nat \ {0} /\ \A j \in Nat : j * P \in Nat
    BY EdgeTimes
  <1>2. R = {t \in n * P .. max : (t - n * P) % P = 0}
    BY DEF Rises
  <1>3. \A i, j \in Nat : i < j => i * P + P <= j * P
    BY <1>1, MultiplesApart
  <1> SUFFICES \E n2 \in Nat :
                  /\ n <= n2 /\ n2 * P > max
                  /\ \A t : t \in R <=> \E j \in Nat : n <= j /\ j < n2 /\ t = j * P
                  /\ IF R = {} THEN n2 = n ELSE Max(R) + P = n2 * P
    OBVIOUS
  <1>4. PICK m \in Nat : m * P <= max /\ max < m * P + P
    BY <1>1, LastMultiple
  <1>5. (m + 1) * P = m * P + P
    BY <1>1
  <1>6. ASSUME NEW t \in R
        PROVE  \E j \in Nat : n <= j /\ j < m + 1 /\ t = j * P
    <2>1. t \in Nat /\ t <= max /\ n * P <= t /\ t - n * P \in Nat /\ (t - n * P) % P = 0
      BY <1>1, <1>2
    <2>2. PICK k \in Nat : t - n * P = k * P
      <3> HIDE DEF P, R
      <3> QED BY <1>1, <2>1, Divides
    <2>3. t = (n + k) * P
      <3>1. (n + k) * P = n * P + k * P
        BY <1>1
      <3> DEFINE a == n * P
                 b == k * P
      <3>2. a \in Nat /\ b \in Nat /\ t \in Nat /\ t - a = b /\ (n + k) * P = a + b
        BY <1>1, <2>1, <2>2, <3>1
      <3> HIDE DEF a, b
      <3>3. t = a + b
        BY <3>2
      <3> QED BY <3>2, <3>3
    <2>4. n + k < m + 1
      <3>1. SUFFICES ASSUME m < n + k
                     PROVE  FALSE
        OBVIOUS
      <3> DEFINE a == m * P
                 b == (n + k) * P
      <3>2. a + P <= b /\ b <= max /\ max < a + P /\ a \in Nat /\ b \in Nat /\ P \in Nat
        BY <1>1, <1>3, <1>4, <2>1, <2>3, <3>1
      <3> HIDE DEF a, b, P
      <3> QED BY <3>2
    <2> QED BY <2>3, <2>4
  <1>7. ASSUME NEW j \in Nat, n <= j, j < m + 1
        PROVE  j * P \in R /\ j * P <= m * P
    <2> DEFINE a == n * P
               b == j * P
               c == m * P
    <2>1. a \in Nat /\ b \in Nat /\ c \in Nat /\ P \in Nat /\ c <= max
      BY <1>1, <1>4
    <2>2. a = b \/ a + P <= b
      BY <1>3, <1>7
    <2>3. b = c \/ b + P <= c
      BY <1>3, <1>7
    <2>4. a <= b /\ b <= c /\ b <= max
      <3> HIDE DEF a, b, c, P
      <3> QED BY <2>1, <2>2, <2>3
    <2>5. PICK k \in Nat : j = n + k
      BY <1>7, j - n \in Nat, j = n + (j - n)
    <2>6. b - a = k * P
      <3>1. (n + k) * P = n * P + k * P /\ k * P \in Nat
        BY <1>1
      <3> DEFINE d == k * P
      <3>2. b = a + d /\ d \in Nat
        BY <2>5, <3>1
      <3> HIDE DEF a, b, d
      <3>3. b - a = d
        BY <2>1, <3>2
      <3> QED BY <3>3 DEF d
    <2>7. (b - a) % P = 0
      <3>1. k * P \in Nat /\ (k * P) % P = 0
        <4> HIDE DEF P
        <4> QED BY <1>1, Divides
      <3> QED BY <2>6, <3>1
    <2>8. b \in a .. max
      <3> HIDE DEF a, b, P
      <3> QED BY <2>1, <2>4
    <2> QED BY <1>2, <2>4, <2>7, <2>8
  <1> HIDE DEF R
  <1>8. CASE n <= m
    <2>1. \A t : t \in R <=> \E j \in Nat : n <= j /\ j < m + 1 /\ t = j * P
      BY <1>6, <1>7
    <2>2. Max(R) = m * P
      <3>1. m * P \in R /\ \A t \in R : m * P >= t
        <4>1. m * P \in R
          BY <1>7, <1>8
        <4>2. ASSUME NEW t \in R
              PROVE  m * P >= t
          <5>1. PICK j \in Nat : n <= j /\ j < m + 1 /\ t = j * P
            BY <1>6
          <5>2. j * P <= m * P
            BY <1>7, <5>1
          <5> QED BY <5>1, <5>2
        <4> QED BY <4>1, <4>2
      <3>2. ASSUME NEW x \in R, \A t \in R : x >= t
            PROVE  x = m * P
        <4>1. x >= m * P /\ m * P >= x /\ x \in Nat /\ m * P \in Nat
          BY <1>1, <1>6, <3>1, <3>2
        <4> DEFINE c == m * P
        <4> HIDE DEF c
        <4> QED BY <4>1 DEF c
      <3> QED BY <3>1, <3>2 DEF Max
    <2>3. R # {}
      BY <1>7, <1>8
    <2>4. m + 1 \in Nat /\ n <= m + 1 /\ (m + 1) * P > max
      BY <1>4, <1>5, <1>8
    <2>5. IF R = {} THEN m + 1 = n ELSE Max(R) + P = (m + 1) * P
      BY <1>5, <2>2, <2>3
    <2> HIDE DEF P
    <2> QED BY <2>1, <2>4, <2>5
  <1>9. CASE m < n
    <2>1. R = {}
      BY <1>6, <1>9
    <2>2. n * P > max
      <3> DEFINE a == m * P
                 b == n * P
      <3>1. a + P <= b /\ max < a + P /\ a \in Nat /\ b \in Nat /\ P \in Nat
        BY <1>1, <1>3, <1>4, <1>9
      <3> HIDE DEF a, P
      <3> QED BY <3>1
    <2> HIDE DEF P
    <2> QED BY <2>1, <2>2
  <1> QED BY <1>8, <1>9

\* The toggle that makes the i-th edge of s.
Nth(s, i) == Toggle(s, EdgeTime(s, i), i % 2)

\* What it is made of.
LEMMA NthFields ==
  ASSUME NEW s \in Signals, NEW i \in Nat \ {0}
  PROVE  /\ Nth(s, i) \in [time : Nat, sig : Signals, value : {0, 1}]
         /\ Nth(s, i).time = EdgeTime(s, i) /\ Nth(s, i).sig = s /\ Nth(s, i).value = i % 2
  <1>1. EdgeTime(s, i) \in Nat
    BY EdgesOrdered, i + 1 \in Nat \ {0}, i < i + 1
  <1>2. i % 2 \in {0, 1}
    OBVIOUS
  <1> QED BY <1>1, <1>2 DEF Nth, Toggle

\* A call queues the edges from the first one not queued yet, in whole pairs,
\* until the next would be after max.
LEMMA TogglesAre ==
  ASSUME NEW next \in [Signals -> Nat \cup {None}], NEW s \in Signals, NEW max \in Nat, NEW n \in Nat,
         From(next, s) = n * Period(s)
  PROVE  \E n2 \in Nat :
            /\ n <= n2 /\ n2 * Period(s) > max
            /\ NextEdge(next, s, max)[s] = n2 * Period(s)
            /\ \A e : e \in TogglesTo(next, s, max)
                        <=> \E i \in Nat : 2 * n < i /\ i <= 2 * n2 /\ e = Nth(s, i)
  <1>1. PICK n2 \in Nat :
            /\ n <= n2 /\ n2 * Period(s) > max
            /\ \A t : t \in Rises(next, s, max) <=> \E j \in Nat : n <= j /\ j < n2 /\ t = j * Period(s)
            /\ IF Rises(next, s, max) = {} THEN n2 = n
               ELSE Max(Rises(next, s, max)) + Period(s) = n2 * Period(s)
    BY RisesAre
  <1>2. NextEdge(next, s, max)[s] = n2 * Period(s)
    BY <1>1 DEF NextEdge
  <1>3. ASSUME NEW j \in Nat
        PROVE  /\ Toggle(s, j * Period(s), 1) = Nth(s, 2 * j + 1)
               /\ Toggle(s, j * Period(s) + High[s], 0) = Nth(s, 2 * j + 2)
    <2>1. (2 * j + 1) % 2 = 1 /\ (2 * j + 2) % 2 = 0
      OBVIOUS
    <2> QED BY <2>1, EdgeTimes DEF Nth
  <1>4. ASSUME NEW e, e \in TogglesTo(next, s, max)
        PROVE  \E i \in Nat : 2 * n < i /\ i <= 2 * n2 /\ e = Nth(s, i)
    <2>1. PICK t \in Rises(next, s, max) : e = Toggle(s, t, 1) \/ e = Toggle(s, t + High[s], 0)
      BY <1>4 DEF TogglesTo
    <2>2. PICK j \in Nat : n <= j /\ j < n2 /\ t = j * Period(s)
      BY <1>1
    <2>3. e = Nth(s, 2 * j + 1) \/ e = Nth(s, 2 * j + 2)
      BY <1>3, <2>1, <2>2
    <2>4. /\ 2 * j + 1 \in Nat /\ 2 * n < 2 * j + 1 /\ 2 * j + 1 <= 2 * n2
          /\ 2 * j + 2 \in Nat /\ 2 * n < 2 * j + 2 /\ 2 * j + 2 <= 2 * n2
      BY <2>2
    <2> QED BY <2>3, <2>4
  <1>5. ASSUME NEW i \in Nat, 2 * n < i, i <= 2 * n2
        PROVE  Nth(s, i) \in TogglesTo(next, s, max)
    <2>1. i \in Nat \ {0}
      BY <1>5
    <2>2. PICK j \in Nat : i = 2 * j + 1 \/ i = 2 * j + 2
      BY <2>1, Parity
    <2>3. n <= j /\ j < n2
      BY <1>5, <2>2
    <2>4. j * Period(s) \in Rises(next, s, max)
      BY <1>1, <2>3
    <2> QED BY <1>3, <2>2, <2>4 DEF TogglesTo
  <1> QED BY <1>1, <1>2, <1>4, <1>5

----------------------------------------------------------------------------
(* The inductive invariant.                                                *)

ClockTypes ==
    /\ clocks \subseteq Signals
    /\ nextEdge \in [Signals -> Nat \cup {None}]
    /\ queue \subseteq [time : Nat, sig : Signals, value : {0, 1}]
    /\ time \in Nat
    /\ DOMAIN level = Signals
    /\ limit \in Nat \cup {None}
    /\ edges \in [Signals -> Seq([time : Nat, value : {0, 1}])]
    /\ stepped \in BOOLEAN /\ mixed \in BOOLEAN

Untouched(s) ==
    /\ nextEdge[s] = None /\ edges[s] = <<>>
    /\ \A e \in queue : e.sig # s

\* Of the first n periods of s, the design has heard the first k edges and the
\* others are queued.
Paired(s, n, k) ==
    /\ k <= 2 * n
    /\ nextEdge[s] = n * Period(s)
    /\ level[s] = k % 2
    /\ \A e \in queue : e.sig = s => \E i \in Nat : k < i /\ i <= 2 * n /\ e = Nth(s, i)
    /\ \A i \in Nat : k < i /\ i <= 2 * n => Nth(s, i) \in queue

EdgesInv ==
    \A s \in Signals : /\ Waveform(s)
                       /\ Untouched(s) \/ \E n \in Nat : Paired(s, n, Len(edges[s]))

\* The forked clocks are queued as far as the run() under way goes.
RunInv == limit # None => \A s \in clocks : nextEdge[s] # None /\ nextEdge[s] > limit

\* Used as documented, nothing is queued in the past, nor will be.
PastInv ==
    /\ ~stepped => time = 0
    /\ ~mixed => /\ \A e \in queue : e.time >= time
                 /\ \A s \in clocks : From(nextEdge, s) >= time

ClockInv == ClockTypes /\ EdgesInv /\ RunInv /\ PastInv

\* Where the edges of s are queued from.
LEMMA FromPaired ==
  ASSUME ClockTypes, NEW s \in Signals
  PROVE  /\ Untouched(s) => From(nextEdge, s) = 0 * Period(s)
         /\ \A n \in Nat : \A k : Paired(s, n, k) => nextEdge[s] # None /\ From(nextEdge, s) = n * Period(s)
  <1>1. Period(s) \in Nat /\ \A n \in Nat : n * Period(s) \in Nat
    BY EdgeTimes
  <1>2. 0 * Period(s) = 0
    BY <1>1
  <1> QED BY <1>1, <1>2, ClockAssumption DEF From, Untouched, Paired

\* Queueing the edges of some clocks keeps every waveform.
LEMMA ScheduleKeeps ==
  ASSUME ClockTypes, EdgesInv, NEW S \in SUBSET Signals, NEW max \in Nat,
         ScheduleAll(S, max), edges' = edges
  PROVE  /\ nextEdge' \in [Signals -> Nat \cup {None}] /\ DOMAIN level' = Signals
         /\ queue' \subseteq [time : Nat, sig : Signals, value : {0, 1}]
         /\ EdgesInv'
         /\ \A s \in S : nextEdge'[s] \in Nat /\ nextEdge'[s] > max /\ nextEdge'[s] >= From(nextEdge, s)
         /\ \A s \in Signals \ S : nextEdge'[s] = nextEdge[s]
         /\ \A e \in queue' \ queue : e.sig \in S /\ e.time >= From(nextEdge, e.sig)
  <1> DEFINE T(s) == TogglesTo(nextEdge, s, max)
  <1>1. /\ queue' = queue \cup UNION {T(s) : s \in S}
        /\ \A s \in S : nextEdge'[s] = NextEdge(nextEdge, s, max)[s]
        /\ \A s \in Signals \ S : nextEdge'[s] = nextEdge[s] /\ level'[s] = level[s]
        /\ \A s \in S : level'[s] = IF nextEdge[s] = None THEN 0 ELSE level[s]
        /\ DOMAIN nextEdge' = Signals /\ DOMAIN level' = Signals
        /\ nextEdge' = [s \in Signals |-> nextEdge'[s]]
    BY DEF ScheduleAll, Started
  <1>2. ASSUME NEW s \in Signals
        PROVE  \E n \in Nat : /\ From(nextEdge, s) = n * Period(s)
                              /\ (Untouched(s) /\ n = 0) \/ Paired(s, n, Len(edges[s]))
    BY FromPaired DEF EdgesInv
  <1>3. ASSUME NEW s \in S
        PROVE  \E n, n2 \in Nat :
                  /\ n <= n2 /\ From(nextEdge, s) = n * Period(s)
                  /\ (Untouched(s) /\ n = 0) \/ Paired(s, n, Len(edges[s]))
                  /\ n2 * Period(s) > max /\ nextEdge'[s] = n2 * Period(s)
                  /\ \A e : e \in T(s) <=> \E i \in Nat : 2 * n < i /\ i <= 2 * n2 /\ e = Nth(s, i)
    <2>1. s \in Signals
      OBVIOUS
    <2>2. PICK n \in Nat : /\ From(nextEdge, s) = n * Period(s)
                           /\ (Untouched(s) /\ n = 0) \/ Paired(s, n, Len(edges[s]))
      BY <1>2, <2>1
    <2>3. PICK n2 \in Nat :
            /\ n <= n2 /\ n2 * Period(s) > max
            /\ NextEdge(nextEdge, s, max)[s] = n2 * Period(s)
            /\ \A e : e \in T(s) <=> \E i \in Nat : 2 * n < i /\ i <= 2 * n2 /\ e = Nth(s, i)
      <3>1. nextEdge \in [Signals -> Nat \cup {None}]
        BY DEF ClockTypes
      <3> HIDE DEF T
      <3>2. From(nextEdge, s) = n * Period(s)
        BY <2>2
      <3>3. \E n2 \in Nat :
            /\ n <= n2 /\ n2 * Period(s) > max
            /\ NextEdge(nextEdge, s, max)[s] = n2 * Period(s)
            /\ \A e : e \in TogglesTo(nextEdge, s, max)
                        <=> \E i \in Nat : 2 * n < i /\ i <= 2 * n2 /\ e = Nth(s, i)
        BY <2>1, <3>1, <3>2, TogglesAre
      <3> QED BY <3>3 DEF T
    <2> QED BY <1>1, <2>2, <2>3
  <1>4. ASSUME NEW s \in S, NEW e \in T(s)
        PROVE  /\ e \in [time : Nat, sig : Signals, value : {0, 1}]
               /\ e.sig = s /\ e.time >= From(nextEdge, s)
    <2>1. PICK n \in Nat, i \in Nat : From(nextEdge, s) = n * Period(s) /\ 2 * n < i /\ e = Nth(s, i)
      BY <1>3
    <2>2. i \in Nat \ {0} /\ 2 * n + 1 \in Nat \ {0} /\ (i = 2 * n + 1 \/ 2 * n + 1 < i)
      BY <2>1
    <2>3. EdgeTime(s, 2 * n + 1) = From(nextEdge, s) /\ From(nextEdge, s) \in Nat
      BY <2>1, EdgeTimes
    <2>4. EdgeTime(s, i) >= EdgeTime(s, 2 * n + 1)
      BY <2>2, <2>3, EdgesOrdered
    <2> QED BY <2>1, <2>2, <2>3, <2>4, NthFields
  <1> HIDE DEF T
  <1>5. \A s \in S : nextEdge'[s] \in Nat /\ nextEdge'[s] > max /\ nextEdge'[s] >= From(nextEdge, s)
    <2>1. SUFFICES ASSUME NEW s \in S
                   PROVE  nextEdge'[s] \in Nat /\ nextEdge'[s] > max /\ nextEdge'[s] >= From(nextEdge, s)
      OBVIOUS
    <2>2. PICK n, n2 \in Nat : /\ n <= n2 /\ From(nextEdge, s) = n * Period(s)
                               /\ n2 * Period(s) > max /\ nextEdge'[s] = n2 * Period(s)
      BY <1>3
    <2>3. Period(s) \in Nat /\ n2 * Period(s) \in Nat /\ n * Period(s) \in Nat
      BY EdgeTimes
    <2>4. n = n2 \/ n * Period(s) + Period(s) <= n2 * Period(s)
      BY <2>2, <2>3, MultiplesApart
    <2> DEFINE a == n * Period(s)
               b == n2 * Period(s)
               p == Period(s)
    <2>5. a \in Nat /\ b \in Nat /\ p \in Nat /\ (a = b \/ a + p <= b)
      BY <2>3, <2>4
    <2>6. b >= a
      <3> HIDE DEF a, b, p
      <3> QED BY <2>5
    <2> QED BY <2>2, <2>3, <2>6
  <1>6. nextEdge' \in [Signals -> Nat \cup {None}]
    <2>1. \A s \in Signals : nextEdge'[s] \in Nat \cup {None}
      BY <1>1, <1>5 DEF ClockTypes
    <2> QED BY <1>1, <2>1
  <1>7. queue' \subseteq [time : Nat, sig : Signals, value : {0, 1}]
    BY <1>1, <1>4 DEF ClockTypes
  <1>8. \A e \in queue' \ queue : e.sig \in S /\ e.time >= From(nextEdge, e.sig)
    BY <1>1, <1>4
  <1>9. ASSUME NEW s \in Signals \ S
        PROVE  Untouched(s)' \/ \E n \in Nat : Paired(s, n, Len(edges[s]))'
    <2>1. \A e \in queue' : e.sig = s => e \in queue
      BY <1>8
    <2>2. queue \subseteq queue' /\ nextEdge'[s] = nextEdge[s] /\ level'[s] = level[s]
      BY <1>1
    <2>3. CASE Untouched(s)
      BY <2>1, <2>2, <2>3 DEF Untouched
    <2>4. ASSUME NEW n \in Nat, Paired(s, n, Len(edges[s]))
          PROVE  Paired(s, n, Len(edges[s]))'
      BY <2>1, <2>2, <2>4 DEF Paired
    <2> QED BY <2>3, <2>4 DEF EdgesInv
  <1>10. ASSUME NEW s \in S
         PROVE  \E n \in Nat : Paired(s, n, Len(edges[s]))'
    <2> DEFINE k == Len(edges[s])
    <2>1. PICK n, n2 \in Nat :
                  /\ n <= n2
                  /\ (Untouched(s) /\ n = 0) \/ Paired(s, n, k)
                  /\ nextEdge'[s] = n2 * Period(s)
                  /\ \A e : e \in T(s) <=> \E i \in Nat : 2 * n < i /\ i <= 2 * n2 /\ e = Nth(s, i)
      BY <1>3
    <2>2. /\ k \in Nat /\ k <= 2 * n /\ level'[s] = k % 2
          /\ \A e \in queue : e.sig = s => \E i \in Nat : k < i /\ i <= 2 * n /\ e = Nth(s, i)
          /\ \A i \in Nat : k < i /\ i <= 2 * n => Nth(s, i) \in queue
      <3>1. edges[s] \in Seq([time : Nat, value : {0, 1}])
        BY DEF ClockTypes
      <3>2. CASE Untouched(s) /\ n = 0
        <4>1. k = 0 /\ level'[s] = 0
          BY <1>1, <3>2 DEF Untouched
        <4>2. \A i \in Nat : ~(k < i /\ i <= 2 * n)
          BY <3>2, <4>1
        <4> QED BY <3>2, <4>1, <4>2 DEF Untouched
      <3>3. CASE Paired(s, n, k)
        <4>1. nextEdge[s] # None /\ k \in Nat
          BY <3>1, <3>3, FromPaired
        <4> QED BY <1>1, <3>3, <4>1 DEF Paired
      <3> QED BY <2>1, <3>2, <3>3
    <2> HIDE DEF k
    <2>3. ASSUME NEW e \in queue', e.sig = s
          PROVE  \E i \in Nat : k < i /\ i <= 2 * n2 /\ e = Nth(s, i)
      <3>1. e \in queue \/ e \in T(s)
        BY <1>1, <1>4, <2>3
      <3>2. CASE e \in queue
        BY <2>1, <2>2, <2>3, <3>2
      <3>3. CASE e \in T(s)
        BY <2>1, <2>2, <3>3
      <3> QED BY <3>1, <3>2, <3>3
    <2>4. ASSUME NEW i \in Nat, k < i, i <= 2 * n2
          PROVE  Nth(s, i) \in queue'
      <3>1. CASE i <= 2 * n
        BY <1>1, <2>2, <2>4, <3>1
      <3>2. CASE 2 * n < i
        BY <1>1, <2>1, <2>4, <3>2
      <3> QED BY <3>1, <3>2
    <2>5. k <= 2 * n2
      BY <2>1, <2>2
    <2>6. k = Len(edges'[s])
      BY DEF k
    <2> QED BY <2>1, <2>2, <2>3, <2>4, <2>5, <2>6 DEF Paired
  <1>11. EdgesInv'
    BY <1>9, <1>10 DEF EdgesInv, Waveform
  <1> QED BY <1>1, <1>5, <1>6, <1>7, <1>8, <1>11

\* A time step is heard as the next edge of each clock that has a toggle due,
\* and of no other.
LEMMA StepKeeps ==
  ASSUME ClockTypes, EdgesInv, SingleStep, nextEdge' = nextEdge
  PROVE  /\ time' \in Nat /\ (\A e \in queue : time' <= e.time) /\ \E e \in queue : time' = e.time
         /\ queue' \subseteq queue
         /\ DOMAIN level' = Signals
         /\ edges' \in [Signals -> Seq([time : Nat, value : {0, 1}])]
         /\ EdgesInv'
  <1>1. PICK d \in Due : time' = d.time
    BY DEF SingleStep
  <1>2. /\ d \in queue /\ time' = d.time /\ time' \in Nat
        /\ \A e \in queue : time' <= e.time
        /\ \A e \in queue : e \in Due <=> e.time = time'
    BY <1>1 DEF Due, ClockTypes
  <1>3. queue' = queue \ Due /\ DOMAIN level' = Signals /\ DOMAIN edges' = Signals
    BY DEF SingleStep
  <1>4. ASSUME NEW s \in Signals
        PROVE  /\ edges'[s] \in Seq([time : Nat, value : {0, 1}])
               /\ Waveform(s)'
               /\ Untouched(s)' \/ \E n \in Nat : Paired(s, n, Len(edges[s]))'
    <2>0. PICK k : k = Len(edges[s])
      OBVIOUS
    <2>1. /\ level'[s] = IF Heard(s) = {} THEN level[s] ELSE 1 - level[s]
          /\ edges'[s] = IF Heard(s) = {} THEN edges[s]
                         ELSE Append(edges[s], [time |-> time', value |-> level'[s]])
      BY DEF SingleStep
    <2>2. edges[s] \in Seq([time : Nat, value : {0, 1}]) /\ k \in Nat /\ Waveform(s)
      BY <2>0 DEF ClockTypes, EdgesInv
    <2>3. ASSUME Untouched(s)
          PROVE  edges'[s] = edges[s] /\ Waveform(s)' /\ Untouched(s)'
      <3>1. Heard(s) = {}
        BY <2>3 DEF Heard, Due, Untouched
      <3>2. edges'[s] = edges[s]
        BY <2>1, <3>1
      <3>3. Waveform(s)'
        BY <2>2, <3>2 DEF Waveform
      <3> QED BY <1>3, <2>3, <3>2, <3>3 DEF Untouched
    <2>4. ASSUME NEW n \in Nat, Paired(s, n, k)
          PROVE  /\ edges'[s] \in Seq([time : Nat, value : {0, 1}])
                 /\ Waveform(s)'
                 /\ Paired(s, n, Len(edges[s]))'
      <3>1. /\ k <= 2 * n /\ nextEdge[s] = n * Period(s) /\ level[s] = k % 2
            /\ \A e \in queue : e.sig = s => \E i \in Nat : k < i /\ i <= 2 * n /\ e = Nth(s, i)
            /\ \A i \in Nat : k < i /\ i <= 2 * n => Nth(s, i) \in queue
        BY <2>4 DEF Paired
      <3>2. \A i \in Nat : k < i => i \in Nat \ {0}
        BY <2>2
      <3>3. ASSUME NEW e \in Due, e.sig = s
            PROVE  e = Nth(s, k + 1) /\ k + 1 <= 2 * n
        <4>1. e \in queue
          BY DEF Due
        <4>2. PICK i \in Nat : k < i /\ i <= 2 * n /\ e = Nth(s, i)
          BY <3>1, <3>3, <4>1
        <4>3. i \in Nat \ {0} /\ k + 1 \in Nat \ {0} /\ (i = k + 1 \/ k + 1 < i) /\ k + 1 <= 2 * n
          BY <2>2, <4>2
        <4>4. Nth(s, k + 1) \in queue
          BY <2>2, <3>1, <4>3
        <4>5. e.time <= Nth(s, k + 1).time
          BY <1>2, <4>1, <4>4
        <4>6. EdgeTime(s, i) <= EdgeTime(s, k + 1)
          BY <4>2, <4>3, <4>5, NthFields
        <4>7. ~(k + 1 < i)
          BY <4>3, <4>6, EdgesOrdered
        <4> QED BY <4>2, <4>3, <4>7
      <3>4. CASE \A e \in Due : e.sig # s
        <4>1. Heard(s) = {}
          BY <3>4 DEF Heard
        <4>2. edges'[s] = edges[s] /\ level'[s] = level[s] /\ Len(edges'[s]) = k
          BY <2>0, <2>1, <4>1
        <4>3. Waveform(s)'
          BY <2>2, <4>2 DEF Waveform
        <4>4. \A i \in Nat : k < i /\ i <= 2 * n => Nth(s, i) \in queue'
          BY <1>3, <3>1, <3>2, <3>4, NthFields
        <4>5. Paired(s, n, k)'
          BY <1>3, <3>1, <4>2, <4>4 DEF Paired
        <4> QED BY <2>2, <4>2, <4>3, <4>5
      <3>5. ASSUME NEW e \in Due, e.sig = s
            PROVE  /\ edges'[s] \in Seq([time : Nat, value : {0, 1}])
                   /\ Waveform(s)'
                   /\ Paired(s, n, Len(edges[s]))'
        <4>1. e = Nth(s, k + 1) /\ k + 1 <= 2 * n /\ k + 1 \in Nat \ {0}
          BY <2>2, <3>3, <3>5
        <4>2. (k + 1) % 2 = 1 - (k % 2) /\ (k + 1) % 2 # k % 2 /\ (k + 1) % 2 \in {0, 1}
          BY <2>2
        <4>3. e.value = (k + 1) % 2 /\ e.time = EdgeTime(s, k + 1)
          BY <4>1, NthFields
        <4>4. e \in Heard(s)
          BY <3>1, <3>5, <4>2, <4>3 DEF Heard
        <4>5. time' = EdgeTime(s, k + 1)
          BY <1>2, <4>3 DEF Due
        <4>6. level'[s] = (k + 1) % 2
          BY <2>1, <3>1, <4>2, <4>4
        <4> DEFINE x == [time |-> EdgeTime(s, k + 1), value |-> (k + 1) % 2]
        <4>7. edges'[s] = Append(edges[s], x)
          BY <2>1, <4>4, <4>5, <4>6
        <4>8. x \in [time : Nat, value : {0, 1}]
          BY <1>2, <4>2, <4>5
        <4> HIDE DEF x
        <4>9. /\ edges'[s] \in Seq([time : Nat, value : {0, 1}]) /\ Len(edges'[s]) = k + 1
              /\ edges'[s][k + 1] = x
              /\ \A i \in 1 .. k : edges'[s][i] = edges[s][i]
          <5>1. PICK W : W = [time : Nat, value : {0, 1}]
            OBVIOUS
          <5>2. edges[s] \in Seq(W) /\ x \in W /\ Len(edges[s]) = k
            BY <2>0, <2>2, <4>8, <5>1
          <5>3. /\ Append(edges[s], x) \in Seq(W) /\ Len(Append(edges[s], x)) = k + 1
                /\ Append(edges[s], x)[k + 1] = x
                /\ \A i \in 1 .. k : Append(edges[s], x)[i] = edges[s][i]
            BY <5>2
          <5> QED BY <4>7, <5>1, <5>3
        <4>10. ASSUME NEW i \in 1 .. k + 1
               PROVE  edges'[s][i] = [time |-> EdgeTime(s, i), value |-> i % 2]
          <5>1. CASE i = k + 1
            BY <4>9, <5>1 DEF x
          <5>2. CASE i \in 1 .. k
            <6>1. edges[s][i] = [time |-> EdgeTime(s, i), value |-> i % 2]
              BY <2>0, <2>2, <5>2 DEF Waveform
            <6> QED BY <4>9, <5>2, <6>1
          <5> QED BY <2>2, <5>1, <5>2
        <4>11. Waveform(s)'
          BY <4>9, <4>10 DEF Waveform
        <4>12. ASSUME NEW o \in queue', o.sig = s
               PROVE  \E i \in Nat : k + 1 < i /\ i <= 2 * n /\ o = Nth(s, i)
          <5>1. o \in queue /\ o \notin Due
            BY <1>3
          <5>2. PICK i \in Nat : k < i /\ i <= 2 * n /\ o = Nth(s, i)
            BY <3>1, <4>12, <5>1
          <5>3. i # k + 1
            BY <4>1, <5>1, <5>2
          <5> QED BY <2>2, <5>2, <5>3
        <4>13. ASSUME NEW i \in Nat, k + 1 < i, i <= 2 * n
               PROVE  Nth(s, i) \in queue'
          <5>1. Nth(s, i) \in queue /\ i \in Nat \ {0}
            BY <2>2, <3>1, <4>13
          <5>2. EdgeTime(s, k + 1) < EdgeTime(s, i) /\ EdgeTime(s, k + 1) \in Nat /\ EdgeTime(s, i) \in Nat
            BY <4>1, <4>13, <5>1, EdgesOrdered
          <5>3. Nth(s, i).time # time'
            BY <4>5, <5>1, <5>2, NthFields
          <5> QED BY <1>2, <1>3, <5>1, <5>3
        <4>14. Paired(s, n, k + 1)'
          BY <3>1, <4>1, <4>6, <4>12, <4>13 DEF Paired
        <4> QED BY <4>9, <4>11, <4>14
      <3> QED BY <3>4, <3>5
    <2> QED BY <2>0, <2>2, <2>3, <2>4 DEF EdgesInv
  <1>5. EdgesInv'
    BY <1>4 DEF EdgesInv
  <1>6. edges' \in [Signals -> Seq([time : Nat, value : {0, 1}])]
    <2>1. edges' = [s \in Signals |-> edges'[s]]
      BY DEF SingleStep
    <2> QED BY <1>4, <2>1
  <1> QED BY <1>2, <1>3, <1>5, <1>6

\* The invariant holds before the first call.
LEMMA ClockInit == Init => ClockInv
  <1>1. <<>> \in Seq([time : Nat, value : {0, 1}])
    OBVIOUS
  <1> SUFFICES ASSUME Init
               PROVE  ClockInv
    OBVIOUS
  <1>2. ClockTypes
    BY <1>1 DEF Init, ClockTypes
  <1>3. EdgesInv
    <2>1. SUFFICES ASSUME NEW s \in Signals
                   PROVE  Waveform(s) /\ Untouched(s)
      BY DEF EdgesInv
    <2>2. edges[s] = <<>> /\ nextEdge[s] = None /\ queue = {}
      BY DEF Init
    <2>3. Len(edges[s]) = 0
      BY <2>2
    <2> QED BY <2>2, <2>3 DEF Waveform, Untouched
  <1>4. RunInv /\ PastInv
    BY DEF Init, RunInv, PastInv
  <1> QED BY <1>2, <1>3, <1>4 DEF ClockInv

\* Every call, time step and return of the testbench keeps it.
LEMMA ClockNext == ClockInv /\ [Next]_vars => ClockInv'
  <1> SUFFICES ASSUME ClockTypes, EdgesInv, RunInv, PastInv, [Next]_vars
               PROVE  ClockTypes' /\ EdgesInv' /\ RunInv' /\ PastInv'
    BY DEF ClockInv
  <1>1. None \notin Nat /\ MaxTime \in Nat
    BY ClockAssumption
  <1>2. \A s \in Signals : From(nextEdge, s) \in Nat
    BY DEF From, ClockTypes
  <1>3. ASSUME UNCHANGED <<nextEdge, queue, level, edges>>
        PROVE  EdgesInv'
    <2>1. \A s \in Signals : Waveform(s)' <=> Waveform(s)
      BY <1>3 DEF Waveform
    <2>2. \A s \in Signals : Untouched(s)' <=> Untouched(s)
      BY <1>3 DEF Untouched
    <2>3. \A s \in Signals, n \in Nat : Paired(s, n, Len(edges[s]))' <=> Paired(s, n, Len(edges[s]))
      BY <1>3 DEF Paired
    <2> QED BY <2>1, <2>2, <2>3 DEF EdgesInv
  <1>4. ASSUME NEW s \in Signals, Fork(s)
        PROVE  ClockTypes' /\ EdgesInv' /\ RunInv' /\ PastInv'
    <2>1. /\ UNCHANGED <<nextEdge, queue, time, level, limit, stepped, edges>> /\ limit = None
          /\ clocks' = clocks \cup {s} /\ mixed' = (mixed \/ stepped)
      BY <1>4 DEF Fork, Call
    <2>2. ClockTypes'
      BY <2>1 DEF ClockTypes
    <2>3. PastInv'
      <3>1. \A r \in Signals : From(nextEdge, r) >= 0
        BY <1>2
      <3>2. \A r : From(nextEdge', r) = From(nextEdge, r)
        BY <2>1
      <3> QED BY <2>1, <3>1, <3>2 DEF PastInv, ClockTypes
    <2> QED BY <1>3, <2>1, <2>2, <2>3 DEF RunInv
  <1>5. ASSUME NEW s \in Signals, NEW max \in 0 .. MaxTime, ScheduleClock(s, max)
        PROVE  ClockTypes' /\ EdgesInv' /\ RunInv' /\ PastInv'
    <2>1. /\ UNCHANGED <<clocks, time, limit, stepped, edges>> /\ limit = None
          /\ ScheduleAll({s}, max) /\ mixed' = (mixed \/ stepped)
          /\ {s} \in SUBSET Signals /\ max \in Nat
      BY <1>1, <1>5 DEF ScheduleClock, Call
    <2>2. /\ nextEdge' \in [Signals -> Nat \cup {None}] /\ DOMAIN level' = Signals
          /\ queue' \subseteq [time : Nat, sig : Signals, value : {0, 1}]
          /\ EdgesInv'
          /\ nextEdge'[s] \in Nat /\ nextEdge'[s] >= From(nextEdge, s)
          /\ \A r \in Signals \ {s} : nextEdge'[r] = nextEdge[r]
          /\ \A e \in queue' \ queue : e.sig = s /\ e.time >= From(nextEdge, e.sig)
      BY <2>1, ScheduleKeeps
    <2>3. ClockTypes'
      BY <2>1, <2>2 DEF ClockTypes
    <2>4. PastInv'
      <3>1. CASE mixed'
        BY <2>1, <3>1 DEF PastInv
      <3>2. CASE ~mixed'
        <4>1. time = 0 /\ ~stepped /\ time' = 0 /\ ~stepped'
          BY <2>1, <3>2 DEF PastInv
        <4>2. \A r \in Signals : From(nextEdge', r) >= 0
          BY <2>2 DEF From
        <4>3. \A e \in queue' : e.time >= 0
          BY <2>2
        <4> QED BY <2>1, <4>1, <4>2, <4>3 DEF PastInv, ClockTypes
      <3> QED BY <3>1, <3>2
    <2> QED BY <2>1, <2>2, <2>3, <2>4 DEF RunInv
  <1>6. ASSUME NEW max \in 0 .. MaxTime, Run(max)
        PROVE  ClockTypes' /\ EdgesInv' /\ RunInv' /\ PastInv'
    <2>1. /\ UNCHANGED <<clocks, time, stepped, mixed, edges>> /\ limit' = max
          /\ ScheduleAll(clocks, max) /\ clocks \in SUBSET Signals /\ max \in Nat
      BY <1>1, <1>6 DEF Run, ClockTypes
    <2>2. /\ nextEdge' \in [Signals -> Nat \cup {None}] /\ DOMAIN level' = Signals
          /\ queue' \subseteq [time : Nat, sig : Signals, value : {0, 1}]
          /\ EdgesInv'
          /\ \A s \in clocks : nextEdge'[s] \in Nat /\ nextEdge'[s] > max /\ nextEdge'[s] >= From(nextEdge, s)
          /\ \A e \in queue' \ queue : e.sig \in clocks /\ e.time >= From(nextEdge, e.sig)
      BY <2>1, ScheduleKeeps
    <2>3. ClockTypes'
      BY <2>1, <2>2 DEF ClockTypes
    <2>4. RunInv'
      BY <1>1, <2>1, <2>2 DEF RunInv
    <2>5. PastInv'
      <3>1. ~stepped' => time' = 0
        BY <2>1 DEF PastInv
      <3>2. ASSUME ~mixed
            PROVE  (\A e \in queue' : e.time >= time) /\ \A s \in clocks : From(nextEdge', s) >= time
        <4>1. (\A e \in queue : e.time >= time) /\ \A s \in clocks : From(nextEdge, s) >= time
          BY <3>2 DEF PastInv
        <4>2. time \in Nat /\ \A s \in clocks : From(nextEdge, s) \in Nat
          BY <1>2 DEF ClockTypes
        <4>3. \A s \in clocks : From(nextEdge', s) = nextEdge'[s]
          BY <1>1, <2>2 DEF From
        <4>4. \A s \in clocks : From(nextEdge', s) >= time
          BY <2>2, <4>1, <4>2, <4>3
        <4>5. \A e \in queue' \ queue : e.time >= time
          BY <2>2, <4>1, <4>2
        <4> QED BY <4>1, <4>4, <4>5
      <3> QED BY <2>1, <3>1, <3>2 DEF PastInv
    <2> QED BY <2>2, <2>3, <2>4, <2>5
  <1>7. ASSUME SingleStep, UNCHANGED <<clocks, nextEdge, limit>>, mixed' \in BOOLEAN, mixed => mixed',
               ~mixed' => \A s \in clocks : From(nextEdge, s) >= time'
        PROVE  ClockTypes' /\ EdgesInv' /\ RunInv' /\ PastInv'
    <2>1. /\ time' \in Nat /\ (\A e \in queue : time' <= e.time) /\ \E e \in queue : time' = e.time
          /\ queue' \subseteq queue
          /\ DOMAIN level' = Signals
          /\ edges' \in [Signals -> Seq([time : Nat, value : {0, 1}])]
          /\ EdgesInv' /\ stepped' = TRUE
      BY <1>7, StepKeeps DEF SingleStep
    <2>2. ClockTypes'
      BY <1>7, <2>1 DEF ClockTypes
    <2>3. RunInv'
      BY <1>7 DEF RunInv
    <2>4. PastInv'
      <3>1. \A e \in queue' : e.time >= time'
        BY <2>1 DEF ClockTypes
      <3>2. \A s : From(nextEdge', s) = From(nextEdge, s)
        BY <1>7
      <3> QED BY <1>7, <2>1, <3>1, <3>2 DEF PastInv
    <2> QED BY <2>1, <2>2, <2>3, <2>4
  <1>8. CASE RunStep
    <2>1. SingleStep /\ UNCHANGED <<clocks, nextEdge, limit>> /\ mixed' = (mixed \/ clocks # {})
      BY <1>8 DEF RunStep
    <2>2. ~mixed' => \A s \in clocks : From(nextEdge, s) >= time'
      BY <2>1
    <2>3. mixed' \in BOOLEAN
      BY <2>1
    <2> QED BY <1>7, <2>1, <2>2, <2>3
  <1>9. CASE RunAdvances
    <2>1. /\ SingleStep /\ UNCHANGED <<clocks, nextEdge, limit, mixed>> /\ limit # None
          /\ \E e \in queue : e.time <= limit
      BY <1>9 DEF RunAdvances
    <2>2. time' \in Nat /\ \A e \in queue : time' <= e.time
      BY <2>1, StepKeeps
    <2>3. limit \in Nat /\ time' <= limit
      BY <2>1, <2>2 DEF ClockTypes
    <2>4. \A s \in clocks : From(nextEdge, s) = nextEdge[s] /\ nextEdge[s] \in Nat /\ nextEdge[s] > limit
      BY <2>1 DEF RunInv, From, ClockTypes
    <2>5. \A s \in clocks : From(nextEdge, s) >= time'
      BY <2>2, <2>3, <2>4
    <2>6. mixed' \in BOOLEAN
      BY <2>1 DEF ClockTypes
    <2> QED BY <1>7, <2>1, <2>5, <2>6
  <1>10. CASE RunReturns
    <2>1. limit' = None /\ UNCHANGED <<clocks, nextEdge, queue, time, level, stepped, mixed, edges>>
      BY <1>10 DEF RunReturns
    <2> QED BY <1>3, <2>1 DEF ClockTypes, RunInv, PastInv, From
  <1>11. CASE UNCHANGED vars
    BY <1>3, <1>11 DEF vars, ClockTypes, RunInv, PastInv, From
  <1> QED BY <1>4, <1>5, <1>6, <1>8, <1>9, <1>10, <1>11 DEF Next

----------------------------------------------------------------------------

\* Whatever calls are made, a clock signal has the waveform of one Clock
\* started at time 0, and none of its edges is due in the past if the calls
\* are used as documented.
THEOREM OneWaveformHolds == Spec => []OneWaveform
  <1>1. ClockInv => OneWaveform
    BY DEF ClockInv, EdgesInv, PastInv, OneWaveform
  <1> QED BY <1>1, ClockInit, ClockNext, PTL DEF Spec

\* When run() returns, the design has heard the forked clocks up to max_time.
THEOREM RunHearsAllHolds == Spec => []RunHearsAll
  <1>1. ASSUME ClockInv, limit # None, \A e \in queue : e.time > limit, NEW s \in clocks
        PROVE  EdgeTime(s, Len(edges[s]) + 1) > limit
    <2> DEFINE k == Len(edges[s])
    <2>1. s \in Signals /\ nextEdge[s] # None /\ nextEdge[s] > limit /\ k \in Nat
      BY <1>1 DEF ClockInv, ClockTypes, RunInv
    <2>2. PICK n \in Nat : Paired(s, n, k)
      BY <1>1, <2>1 DEF ClockInv, EdgesInv, Untouched
    <2>3. CASE k = 2 * n
      <3>1. EdgeTime(s, k + 1) = nextEdge[s]
        BY <2>1, <2>2, <2>3, EdgeTimes DEF Paired
      <3> QED BY <2>1, <3>1
    <2>4. CASE k < 2 * n
      <3>1. k + 1 \in Nat \ {0} /\ k < k + 1 /\ k + 1 <= 2 * n
        BY <2>1, <2>4
      <3>2. Nth(s, k + 1) \in queue
        BY <2>2, <3>1 DEF Paired
      <3> QED BY <1>1, <2>1, <3>1, <3>2, NthFields
    <2>5. k <= 2 * n
      BY <2>2 DEF Paired
    <2> QED BY <2>1, <2>3, <2>4, <2>5
  <1>2. ClockInv => RunHearsAll
    BY <1>1 DEF RunHearsAll
  <1> QED BY <1>2, ClockInit, ClockNext, PTL DEF Spec
=============================================================================
