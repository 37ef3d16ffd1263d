---------------------------- MODULE ServicesProofs ----------------------------
(***************************************************************************)
(* What the components beside the versions promise for every value of      *)
(* their constants: the rate limit, the reading of the canon's text, the   *)
(* author's files and the write gate.  All four compute with loops, so     *)
(* their proofs begin with induction: every non-empty set of numbers has   *)
(* a least element.                                                        *)
(***************************************************************************)
EXTENDS RateLimit, CanonText, AuthoredFiles, WriteGate,
        FiniteSetTheorems, SequenceTheorems, WellFoundedInduction, TLAPS

-----------------------------------------------------------------------------
(* Induction *)

\* A loop that can stop has a first place to stop at.
LEMMA LeastExists ==
    ASSUME NEW S, S \subseteq Nat, S # {}
    PROVE  \E n \in S : \A m \in S : n <= m
<1>1. PICK n \in S : \A m \in S : ~(<<m, n>> \in OpToRel(<, Nat))
  BY ONLY S \subseteq Nat, S # {}, NatLessThanWellFounded, WFMin, Zenon
<1>2. \A m \in S : ~(m < n) BY <1>1 DEF OpToRel
<1> QED BY <1>2

\* A set that has 0, and the successor of each number it has, has them all.
LEMMA Upwards ==
    ASSUME NEW S, 0 \in S, \A n \in Nat : n \in S => n + 1 \in S
    PROVE  \A n \in Nat : n \in S
<1> SUFFICES ASSUME Nat \ S # {} PROVE FALSE OBVIOUS
<1>1. PICK n \in Nat \ S : \A m \in Nat \ S : n <= m BY LeastExists
<1>2. n # 0 /\ n - 1 \in Nat BY <1>1
<1>3. n - 1 \in S BY <1>1, <1>2
<1> QED BY <1>1, <1>2, <1>3

\* A loop over 1..n that starts in V and stays there has a run.
StaysIn(n, V, G) == \A i \in 1..n : \A v \in V : G[<<i, v>>] \in V
IsRun(n, V, base, G, f) ==
    f \in [0..n -> V] /\ f[0] = base /\ \A i \in 1..n : f[i] = G[<<i, f[i - 1]>>]
LEMMA LoopRuns ==
    ASSUME NEW n \in Nat, NEW V, NEW base \in V, NEW G, StaysIn(n, V, G)
    PROVE  \E f : IsRun(n, V, base, G, f)
<1> USE DEF StaysIn
<1> DEFINE Run(f, k) == f[0] = base /\ \A i \in 1..k : f[i] = G[<<i, f[i - 1]>>]
           S == {k \in Nat : k <= n => \E f \in [0..n -> V] : Run(f, k)}
<1>1. 0 \in S
  <2> DEFINE f == [i \in 0..n |-> base]
  <2>1. f \in [0..n -> V] /\ f[0] = base OBVIOUS
  <2> HIDE DEF f
  <2>2. Run(f, 0) BY <2>1
  <2> QED BY <2>1, <2>2
<1>2. ASSUME NEW k \in Nat, k \in S PROVE k + 1 \in S
  <2> SUFFICES ASSUME k + 1 <= n PROVE \E f \in [0..n -> V] : Run(f, k + 1) OBVIOUS
  <2>1. PICK f \in [0..n -> V] : Run(f, k) BY <1>2
  <2>2. k + 1 \in 1..n /\ k \in 0..n /\ (k + 1) - 1 = k OBVIOUS
  <2>3. f[k] \in V BY <2>2
  <2> DEFINE v == G[<<k + 1, f[k]>>]
             h == [f EXCEPT ![k + 1] = v]
  <2>4. v \in V BY <2>2, <2>3
  <2> HIDE DEF v
  <2>5. /\ h \in [0..n -> V] /\ h[k + 1] = v
        /\ \A i \in 0..n : i # k + 1 => h[i] = f[i]
    BY <2>2, <2>4
  <2> HIDE DEF h
  <2>6. ASSUME NEW i \in 1..(k + 1) PROVE h[i] = G[<<i, h[i - 1]>>]
    <3>1. i - 1 \in 0..n /\ i \in 0..n /\ i - 1 # k + 1 BY <2>2
    <3>2. h[i - 1] = f[i - 1] BY <2>5, <3>1
    <3>3. CASE i = k + 1 BY <2>2, <2>5, <3>2, <3>3 DEF v
    <3>4. CASE i # k + 1
      <4>1. i \in 1..k BY <3>4
      <4>2. f[i] = G[<<i, f[i - 1]>>] BY <2>1, <4>1
      <4> QED BY <2>5, <3>1, <3>2, <3>4, <4>2
    <3> QED BY <3>3, <3>4
  <2>7. h[0] = base BY <2>1, <2>2, <2>5
  <2> QED BY <2>5, <2>6, <2>7
<1> HIDE DEF S
<1>3. \A k \in Nat : k \in S BY <1>1, <1>2, Upwards
<1>4. n \in S /\ n <= n BY <1>3
<1>5. PICK f \in [0..n -> V] : Run(f, n) BY <1>4 DEF S
<1> QED BY <1>5 DEF IsRun

-----------------------------------------------------------------------------
(* The rate limit: the total of a history *)

History == [0..MaxNow -> Nat]

\* There is a function that adds up a history.
LEMMA AddsUp ==
    ASSUME NEW f \in History
    PROVE  \E g : g = [n \in 0..MaxNow |-> IF n = 0 THEN f[0] ELSE f[n] + g[n - 1]]
<1> USE RateAssumption
<1> DEFINE Good(g, k) == \A n \in 0..MaxNow : n <= k => g[n] = IF n = 0 THEN f[0] ELSE f[n] + g[n - 1]
           Ok(k) == \E g : g = [n \in 0..MaxNow |-> g[n]] /\ Good(g, k)
           S == {k \in Nat : Ok(k)}
<1>1. Ok(0)
  <2> DEFINE g == [n \in 0..MaxNow |-> f[0]]
  <2> g = [n \in 0..MaxNow |-> g[n]] /\ Good(g, 0) OBVIOUS
  <2> QED OBVIOUS
<1>2. ASSUME NEW k \in Nat, Ok(k) PROVE Ok(k + 1)
  <2>1. PICK g : g = [n \in 0..MaxNow |-> g[n]] /\ Good(g, k) BY <1>2
  <2> DEFINE h == [n \in 0..MaxNow |-> IF n = 0 THEN f[0] ELSE f[n] + g[n - 1]]
  <2>2. h = [n \in 0..MaxNow |-> h[n]] OBVIOUS
  <2>3. Good(h, k + 1)
    <3> SUFFICES ASSUME NEW n \in 0..MaxNow, n <= k + 1
                 PROVE  h[n] = IF n = 0 THEN f[0] ELSE f[n] + h[n - 1]
      OBVIOUS
    <3>1. CASE n = 0 BY <3>1
    <3>2. CASE n # 0
      <4>1. n - 1 \in 0..MaxNow /\ n - 1 <= k BY <3>2
      <4>2. h[n - 1] = g[n - 1] BY <2>1, <4>1
      <4> QED BY <3>2, <4>2
    <3> QED BY <3>1, <3>2
  <2> HIDE DEF h
  <2> QED BY <2>2, <2>3
<1>3. Ok(MaxNow)
  <2> HIDE DEF Ok
  <2>1. 0 \in S /\ \A k \in Nat : k \in S => k + 1 \in S BY <1>1, <1>2
  <2> HIDE DEF S
  <2>2. \A k \in Nat : k \in S BY <2>1, Upwards
  <2> QED BY <2>2 DEF S
<1>4. PICK g : g = [n \in 0..MaxNow |-> g[n]] /\ Good(g, MaxNow) BY <1>3
<1>5. g = [n \in 0..MaxNow |-> IF n = 0 THEN f[0] ELSE f[n] + g[n - 1]]
  <2>1. ASSUME NEW n \in 0..MaxNow PROVE g[n] = IF n = 0 THEN f[0] ELSE f[n] + g[n - 1]
    <3>1. n <= MaxNow OBVIOUS
    <3> QED BY <1>4, <3>1, Zenon
  <2>2. [n \in 0..MaxNow |-> g[n]]
          = [n \in 0..MaxNow |-> IF n = 0 THEN f[0] ELSE f[n] + g[n - 1]]
    BY <2>1, Zenon
  <2> QED BY <1>4, <2>2, Zenon
<1> QED BY <1>5

\* Total computes it.
LEMMA TotalIs ==
    ASSUME NEW f \in History
    PROVE  \E g : /\ Total(f) = g[MaxNow] /\ g[0] = f[0]
                  /\ \A n \in 1..MaxNow : g[n] = f[n] + g[n - 1]
<1> DEFINE g == CHOOSE g : g = [n \in 0..MaxNow |-> IF n = 0 THEN f[0] ELSE f[n] + g[n - 1]]
<1>1. g = [n \in 0..MaxNow |-> IF n = 0 THEN f[0] ELSE f[n] + g[n - 1]] BY AddsUp
<1>2. Total(f) = g[MaxNow] BY DEF Total
<1> HIDE DEF g
<1>3. g[0] = f[0] /\ \A n \in 1..MaxNow : g[n] = f[n] + g[n - 1]
  BY <1>1, RateAssumption
<1> QED BY <1>2, <1>3

\* What one step of a total does to two totals in order.
LEMMA SumsInOrder ==
    ASSUME NEW a \in Nat, NEW b \in Nat, a <= b, NEW x \in Nat, NEW y \in Nat, x <= y
    PROVE  x + a \in Nat /\ y + b \in Nat /\ x + a <= y + b
OBVIOUS

\* What one step of a total does to two totals that differ by one from d on.
LEMMA OneMoreAt ==
    ASSUME NEW k \in Nat, NEW d \in Nat, NEW a \in Nat, NEW b, NEW x \in Nat, NEW y,
           k < d => b = a, k >= d => b = a + 1,
           k + 1 = d => y = x + 1, k + 1 # d => y = x
    PROVE  /\ x + a \in Nat
           /\ k + 1 < d => y + b = x + a
           /\ k + 1 >= d => y + b = (x + a) + 1
<1>1. CASE k < d BY <1>1
<1>2. CASE k >= d BY <1>2
<1> QED BY <1>1, <1>2

\* A total is a number, and grows with its history.
LEMMA TotalGrows ==
    ASSUME NEW f \in History, NEW h \in History, \A t \in 0..MaxNow : f[t] <= h[t]
    PROVE  Total(f) \in Nat /\ Total(f) <= Total(h)
<1> USE RateAssumption
<1>1. PICK u : /\ Total(f) = u[MaxNow] /\ u[0] = f[0]
               /\ \A n \in 1..MaxNow : u[n] = f[n] + u[n - 1]
  BY TotalIs
<1>2. PICK v : /\ Total(h) = v[MaxNow] /\ v[0] = h[0]
               /\ \A n \in 1..MaxNow : v[n] = h[n] + v[n - 1]
  BY TotalIs
<1> DEFINE S == {k \in Nat : k <= MaxNow => u[k] \in Nat /\ v[k] \in Nat /\ u[k] <= v[k]}
<1>3. 0 \in S BY <1>1, <1>2 DEF History
<1>4. ASSUME NEW k \in Nat, k \in S PROVE k + 1 \in S
  <2> SUFFICES ASSUME k + 1 <= MaxNow
               PROVE  u[k + 1] \in Nat /\ v[k + 1] \in Nat /\ u[k + 1] <= v[k + 1]
    OBVIOUS
  <2>1. k + 1 \in 1..MaxNow /\ (k + 1) - 1 = k OBVIOUS
  <2>2. u[k + 1] = f[k + 1] + u[k] /\ v[k + 1] = h[k + 1] + v[k] BY <1>1, <1>2, <2>1
  <2>3. f[k + 1] \in Nat /\ h[k + 1] \in Nat /\ f[k + 1] <= h[k + 1] BY <2>1 DEF History
  <2>4. u[k] \in Nat /\ v[k] \in Nat /\ u[k] <= v[k] BY <1>4
  <2> HIDE DEF S
  <2> QED BY <2>2, <2>3, <2>4, SumsInOrder
<1> HIDE DEF S
<1>5. \A k \in Nat : k \in S BY <1>3, <1>4, Upwards
<1> QED BY <1>1, <1>2, <1>5 DEF S

\* Nothing adds up to nothing.
LEMMA TotalZero ==
    ASSUME NEW f \in History, \A t \in 0..MaxNow : f[t] = 0
    PROVE  Total(f) = 0
<1> USE RateAssumption DEF History
<1>1. PICK u : /\ Total(f) = u[MaxNow] /\ u[0] = f[0]
               /\ \A n \in 1..MaxNow : u[n] = f[n] + u[n - 1]
  BY TotalIs
<1> DEFINE S == {k \in Nat : k <= MaxNow => u[k] = 0}
<1>2. 0 \in S BY <1>1
<1>3. ASSUME NEW k \in Nat, k \in S PROVE k + 1 \in S
  <2> SUFFICES ASSUME k + 1 <= MaxNow PROVE u[k + 1] = 0 OBVIOUS
  <2>1. k + 1 \in 1..MaxNow /\ (k + 1) - 1 = k OBVIOUS
  <2>2. u[k + 1] = f[k + 1] + u[k] BY <1>1, <2>1
  <2> QED BY <1>3, <2>1, <2>2
<1> HIDE DEF S
<1>4. \A k \in Nat : k \in S BY <1>2, <1>3, Upwards
<1> QED BY <1>1, <1>4 DEF S

\* One call more is one more in the total.
LEMMA TotalOneMore ==
    ASSUME NEW f \in History, NEW h \in History, NEW d \in 0..MaxNow,
           h[d] = f[d] + 1, \A t \in 0..MaxNow : t # d => h[t] = f[t]
    PROVE  Total(h) = Total(f) + 1
<1> USE RateAssumption
<1>1. PICK u : /\ Total(f) = u[MaxNow] /\ u[0] = f[0]
               /\ \A n \in 1..MaxNow : u[n] = f[n] + u[n - 1]
  BY TotalIs
<1>2. PICK v : /\ Total(h) = v[MaxNow] /\ v[0] = h[0]
               /\ \A n \in 1..MaxNow : v[n] = h[n] + v[n - 1]
  BY TotalIs
<1> DEFINE S == {k \in Nat : k <= MaxNow =>
                    /\ u[k] \in Nat
                    /\ k < d => v[k] = u[k]
                    /\ k >= d => v[k] = u[k] + 1}
<1>3. 0 \in S
  <2>1. f[0] \in Nat /\ u[0] = f[0] /\ v[0] = h[0] BY <1>1, <1>2 DEF History
  <2>2. 0 >= d => h[0] = f[0] + 1 OBVIOUS
  <2>3. 0 < d => h[0] = f[0] OBVIOUS
  <2> QED BY <2>1, <2>2, <2>3
<1>4. ASSUME NEW k \in Nat, k \in S PROVE k + 1 \in S
  <2> SUFFICES ASSUME k + 1 <= MaxNow
               PROVE  /\ u[k + 1] \in Nat
                      /\ k + 1 < d => v[k + 1] = u[k + 1]
                      /\ k + 1 >= d => v[k + 1] = u[k + 1] + 1
    OBVIOUS
  <2>1. k + 1 \in 1..MaxNow /\ (k + 1) - 1 = k OBVIOUS
  <2>2. u[k + 1] = f[k + 1] + u[k] /\ v[k + 1] = h[k + 1] + v[k] BY <1>1, <1>2, <2>1
  <2>3. /\ f[k + 1] \in Nat
        /\ k + 1 = d => h[k + 1] = f[k + 1] + 1
        /\ k + 1 # d => h[k + 1] = f[k + 1]
    BY <2>1 DEF History
  <2>4. /\ u[k] \in Nat
        /\ k < d => v[k] = u[k]
        /\ k >= d => v[k] = u[k] + 1
    BY <1>4
  <2> HIDE DEF S
  <2> QED BY <2>2, <2>3, <2>4, OneMoreAt
<1> HIDE DEF S
<1>5. \A k \in Nat : k \in S BY <1>3, <1>4, Upwards
<1> QED BY <1>1, <1>2, <1>5 DEF S

-----------------------------------------------------------------------------
(* The rate limit: the queue *)

\* The loop over the front of the queue stops, with what is left in order.
LEMMA PruneStops ==
    ASSUME NEW q \in Seq(Nat), now \in Nat
    PROVE  /\ Popped(q) \in 0..Len(q)
           /\ \A i \in 1..Popped(q) : Expired(q[i])
           /\ Popped(q) < Len(q) => ~Expired(q[Popped(q) + 1])
           /\ Pruned(q) \in Seq(Nat) /\ Len(Pruned(q)) = Len(q) - Popped(q)
           /\ \A i \in 1..Len(Pruned(q)) : Pruned(q)[i] = q[Popped(q) + i]
<1> DEFINE Stops(n) == /\ \A i \in 1..n : Expired(q[i])
                       /\ n < Len(q) => ~Expired(q[n + 1])
           S == {n \in 0..Len(q) : n = Len(q) \/ ~Expired(q[n + 1])}
<1>1. Len(q) \in Nat OBVIOUS
<1>2. \E n \in 0..Len(q) : Stops(n)
  <2> HIDE DEF Expired
  <2>1. S \subseteq Nat /\ S # {} BY <1>1
  <2>2. PICK n \in S : \A k \in S : n <= k
    <3> HIDE DEF S
    <3> QED BY <2>1, LeastExists
  <2>3. ASSUME NEW i \in 1..n PROVE Expired(q[i])
    <3>1. i - 1 \in 0..Len(q) /\ i - 1 < n /\ (i - 1) + 1 = i BY <1>1, <2>2
    <3>2. i - 1 \notin S
      <4> HIDE DEF S
      <4> QED BY <2>1, <2>2, <3>1
    <3> QED BY <3>1, <3>2
  <2> QED BY <1>1, <2>2, <2>3
<1>3. Popped(q) \in 0..Len(q) /\ Stops(Popped(q))
  BY <1>2, Zenon DEF Popped
<1> DEFINE p == Popped(q)
<1> HIDE DEF p
<1>4. p \in 0..Len(q) BY <1>3 DEF p
<1>5. /\ SubSeq(q, p + 1, Len(q)) \in Seq(Nat)
      /\ Len(SubSeq(q, p + 1, Len(q))) = Len(q) - p
      /\ \A i \in 1..(Len(q) - p) : SubSeq(q, p + 1, Len(q))[i] = q[p + i]
  BY <1>1, <1>4, SMTT(60)
<1> QED BY <1>3, <1>5 DEF p, Pruned

\* The calls of a method since s.
Since(m, s) == [t \in 0..MaxNow |-> IF t >= s THEN passed[m][t] ELSE 0]
Inside(m, s) == [t \in 0..MaxNow |-> IF t \in s..(s + Window) THEN passed[m][t] ELSE 0]

\* A queue is in the order of its instants, and k of them are before s.
InOrder(q) == \A i, j \in 1..Len(q) : i <= j => q[i] <= q[j]
Before(q, s, k) ==
    /\ k \in 0..Len(q)
    /\ \A i \in 1..k : q[i] < s
    /\ \A i \in (k + 1)..Len(q) : q[i] >= s

RateTypes ==
    /\ now \in 0..MaxNow
    /\ windows \in [Methods -> Seq(Nat)]
    /\ passed \in [Methods -> History]

\* What is still in the queue and in the window is what passed.
QueueOf(m) ==
    /\ InOrder(windows[m])
    /\ \A i \in 1..Len(windows[m]) : windows[m][i] <= now
    /\ Len(windows[m]) <= LimitOf[m]
    /\ \A t \in 0..MaxNow : t > now => passed[m][t] = 0
    /\ \A s \in Int, k \in Nat :
          s >= now - Window /\ Before(windows[m], s, k)
             => Total(Since(m, s)) = Len(windows[m]) - k

QueueIsHistory == \A m \in Methods : QueueOf(m)

RateInv == RateTypes /\ QueueIsHistory /\ LimitIsExact

\* Init establishes it.
LEMMA RateStarts == RateInit => RateInv
<1> SUFFICES ASSUME RateInit PROVE RateInv OBVIOUS
<1> USE RateAssumption DEF RateInit
<1>1. RateTypes BY DEF RateTypes, History
<1>2. ASSUME NEW m \in Methods, NEW s \in Int
      PROVE  Total(Since(m, s)) = 0 /\ Total(Inside(m, s)) = 0
  <2>1. Since(m, s) \in History /\ Inside(m, s) \in History BY DEF Since, Inside, History
  <2>2. \A t \in 0..MaxNow : Since(m, s)[t] = 0 /\ Inside(m, s)[t] = 0 BY DEF Since, Inside
  <2> QED BY <2>1, <2>2, TotalZero
<1>3. QueueIsHistory
  <2> SUFFICES ASSUME NEW m \in Methods
               PROVE  QueueOf(m)
    BY DEF QueueIsHistory
  <2>1. /\ windows[m] = <<>> /\ LimitOf[m] \in Nat
        /\ \A t \in 0..MaxNow : passed[m][t] = 0
    OBVIOUS
  <2>2. Len(windows[m]) = 0 BY <2>1
  <2>3. \A k \in Nat, s \in Int : Before(windows[m], s, k) => k = 0 BY <2>2 DEF Before
  <2> QED BY <1>2, <2>1, <2>2, <2>3 DEF QueueOf, InOrder
<1>4. LimitIsExact
  BY <1>2 DEF LimitIsExact, WindowHolds, RefusedOnlyWhenFull, NoRefusal, Inside
<1> QED BY <1>1, <1>3, <1>4 DEF RateInv

\* A prune takes away what is before the window, and only that.
LEMMA PruneIsExact ==
    ASSUME RateTypes, QueueIsHistory, NEW m \in Methods
    PROVE  LET q == Pruned(windows[m]) IN
           /\ q \in Seq(Nat) /\ Len(q) <= Len(windows[m]) /\ InOrder(q)
           /\ \A i \in 1..Len(q) : q[i] <= now
           /\ Total(Since(m, now - Window)) = Len(q)
           /\ \A s \in Int, k \in Nat :
                 s >= now - Window /\ Before(q, s, k) => Total(Since(m, s)) = Len(q) - k
<1> USE RateAssumption DEF RateTypes
<1> DEFINE w == windows[m]
           q == Pruned(w)
           p == Popped(w)
<1>1. w \in Seq(Nat) /\ now \in Nat OBVIOUS
<1>2. /\ p \in 0..Len(w)
      /\ \A i \in 1..p : Expired(w[i])
      /\ p < Len(w) => ~Expired(w[p + 1])
      /\ q \in Seq(Nat) /\ Len(q) = Len(w) - p
      /\ \A i \in 1..Len(q) : q[i] = w[p + i]
  BY <1>1, PruneStops
<1>3. InOrder(w) /\ \A i \in 1..Len(w) : w[i] <= now BY DEF QueueIsHistory, QueueOf
<1>4. \A s \in Int, k \in Nat :
         s >= now - Window /\ Before(w, s, k) => Total(Since(m, s)) = Len(w) - k
  BY DEF QueueIsHistory, QueueOf
<1> HIDE DEF w, q, p
<1>5. InOrder(q) /\ \A i \in 1..Len(q) : q[i] <= now
  <2>1. Len(w) \in Nat /\ Len(q) \in Nat BY <1>1, <1>2
  <2>2. \A i \in 1..Len(q) : p + i \in 1..Len(w) BY <1>2, <2>1
  <2>3. ASSUME NEW i \in 1..Len(q), NEW j \in 1..Len(q), i <= j PROVE q[i] <= q[j]
    <3>1. p + i <= p + j BY <1>2, <2>1, <2>3
    <3>2. p + i \in 1..Len(w) /\ p + j \in 1..Len(w) BY <2>2
    <3>3. w[p + i] <= w[p + j] BY <1>3, <3>1, <3>2 DEF InOrder
    <3>4. q[i] = w[p + i] /\ q[j] = w[p + j] BY <1>2
    <3> QED BY <3>3, <3>4
  <2> QED BY <1>2, <1>3, <2>2, <2>3 DEF InOrder
<1>6. \A i \in 1..p : w[i] < now - Window
  <2> SUFFICES ASSUME NEW i \in 1..p PROVE w[i] < now - Window OBVIOUS
  <2>1. w[i] \in Nat BY <1>1, <1>2, SMTT(60)
  <2>2. now - w[i] > Window BY <1>2 DEF Expired
  <2> QED BY <2>1, <2>2
<1>7. \A i \in (p + 1)..Len(w) : w[i] >= now - Window
  <2> SUFFICES ASSUME NEW i \in (p + 1)..Len(w) PROVE w[i] >= now - Window OBVIOUS
  <2>1. w[i] \in Nat /\ w[p + 1] \in Nat /\ p < Len(w) BY <1>1, <1>2, SMTT(60)
  <2>2. w[p + 1] <= w[i]
    <3>1. p + 1 \in 1..Len(w) /\ i \in 1..Len(w) /\ p + 1 <= i BY <1>1, <1>2, <2>1
    <3> QED BY <1>3, <3>1 DEF InOrder
  <2>3. ~(now - w[p + 1] > Window) BY <1>2, <2>1 DEF Expired
  <2> QED BY <2>1, <2>2, <2>3, SMTT(60)
<1>8. Before(w, now - Window, p) /\ p \in Nat /\ now - Window \in Int
  BY <1>1, <1>2, <1>6, <1>7 DEF Before
<1>9. Total(Since(m, now - Window)) = Len(q) BY <1>2, <1>4, <1>8
<1>10. ASSUME NEW s \in Int, NEW k \in Nat, s >= now - Window, Before(q, s, k)
       PROVE  Total(Since(m, s)) = Len(q) - k
  <2>1. k + p \in 0..Len(w) BY <1>1, <1>2, <1>10 DEF Before
  <2>2. \A i \in 1..(k + p) : w[i] < s
    <3> SUFFICES ASSUME NEW i \in 1..(k + p) PROVE w[i] < s OBVIOUS
    <3>1. w[i] \in Nat BY SMTT(60), <1>1, <2>1
    <3>2. CASE i <= p BY <1>1, <1>6, <1>10, <3>1, <3>2
    <3>3. CASE i > p
      <4>1. i - p \in 1..k /\ i - p \in 1..Len(q) /\ p + (i - p) = i
        BY <1>2, <1>10, <3>3 DEF Before
      <4> QED BY <1>2, <1>10, <4>1 DEF Before
    <3> QED BY <1>2, <3>2, <3>3
  <2>3. \A i \in (k + p + 1)..Len(w) : w[i] >= s
    <3> SUFFICES ASSUME NEW i \in (k + p + 1)..Len(w) PROVE w[i] >= s OBVIOUS
    <3>1. i - p \in (k + 1)..Len(q) /\ i - p \in 1..Len(q) /\ p + (i - p) = i
      BY <1>2, SMTT(60)
    <3> QED BY <1>2, <1>10, <3>1 DEF Before
  <2>4. Before(w, s, k + p) BY <2>1, <2>2, <2>3 DEF Before
  <2> QED BY <1>1, <1>2, <1>4, <1>10, <2>1, <2>4
<1>11. Len(q) <= Len(w) BY <1>1, <1>2
<1> QED BY <1>2, <1>5, <1>9, <1>10, <1>11 DEF w, q, p

\* Histories that are cut out of a history.
LEMMA CutsAreHistories ==
    ASSUME RateTypes, NEW m \in Methods, NEW s \in Int
    PROVE  Since(m, s) \in History /\ Inside(m, s) \in History
BY RateAssumption DEF RateTypes, Since, Inside, History

\* Time takes calls out of the window and brings none into it.
LEMMA TickKeeps == RateInv /\ Tick => RateInv'
<1> SUFFICES ASSUME RateInv, Tick PROVE RateInv' OBVIOUS
<1> USE RateAssumption
<1>1. /\ now \in 0..MaxNow /\ now' = now + 1 /\ now' \in 0..MaxNow
      /\ windows' = windows /\ passed' = passed /\ refused' = refused
  BY DEF RateInv, RateTypes, Tick
<1>2. RateTypes' BY <1>1 DEF RateInv, RateTypes
<1>3. QueueIsHistory'
  <2> SUFFICES ASSUME NEW m \in Methods PROVE QueueOf(m)' BY DEF QueueIsHistory
  <2>1. QueueOf(m) BY DEF RateInv, QueueIsHistory
  <2>2. windows[m] \in Seq(Nat) BY DEF RateInv, RateTypes
  <2>3. InOrder(windows'[m]) BY <1>1, <2>1 DEF QueueOf
  <2>4. \A i \in 1..Len(windows'[m]) : windows'[m][i] <= now'
    <3>1. \A i \in 1..Len(windows[m]) : windows[m][i] \in Nat /\ windows[m][i] <= now
      BY <2>1, <2>2 DEF QueueOf
    <3> QED BY <1>1, <3>1
  <2>5. \A t \in 0..MaxNow : t > now' => passed'[m][t] = 0 BY <1>1, <2>1 DEF QueueOf
  <2>6. ASSUME NEW s \in Int, NEW k \in Nat, s >= now' - Window, Before(windows[m], s, k)
        PROVE  Total(Since(m, s)) = Len(windows[m]) - k
    <3>1. s >= now - Window BY <1>1, <2>6
    <3> QED BY <2>1, <2>6, <3>1 DEF QueueOf
  <2> QED BY <1>1, <2>1, <2>3, <2>4, <2>5, <2>6 DEF QueueOf, Since
<1>4. LimitIsExact' BY <1>1 DEF RateInv, LimitIsExact, WindowHolds, RefusedOnlyWhenFull
<1> QED BY <1>2, <1>3, <1>4 DEF RateInv

\* A refusal finds the queue as long as the calls of the window are many.
LEMMA RefuseKeeps ==
    ASSUME RateInv, NEW m \in Methods, NEW auth \in BOOLEAN, Refuse(m, auth)
    PROVE  RateInv'
<1> USE RateAssumption
<1> DEFINE q == Pruned(windows[m])
<1>1. /\ windows' = [windows EXCEPT ![m] = q]
      /\ Len(q) >= LimitOf[m] /\ now' = now /\ passed' = passed
      /\ refused' = [method |-> m, recent |-> Recent(m)]
  BY DEF Refuse
<1>2. RateTypes /\ QueueIsHistory /\ LimitIsExact BY DEF RateInv
<1>3. /\ q \in Seq(Nat) /\ Len(q) <= Len(windows[m]) /\ InOrder(q)
      /\ \A i \in 1..Len(q) : q[i] <= now
      /\ Total(Since(m, now - Window)) = Len(q)
      /\ \A s \in Int, k \in Nat :
            s >= now - Window /\ Before(q, s, k) => Total(Since(m, s)) = Len(q) - k
  BY <1>2, PruneIsExact
<1> HIDE DEF q
<1>4. Len(q) = LimitOf[m]
  <2>1. Len(windows[m]) <= LimitOf[m] BY <1>2 DEF QueueIsHistory, QueueOf
  <2>2. Len(q) \in Nat /\ Len(windows[m]) \in Nat /\ LimitOf[m] \in Nat
    BY <1>2, <1>3 DEF RateTypes
  <2> QED BY <1>1, <1>3, <2>1, <2>2
<1>5. windows'[m] = q /\ \A n \in Methods : n # m => windows'[n] = windows[n]
  BY <1>1, <1>2 DEF RateTypes
<1>6. RateTypes' BY <1>1, <1>2, <1>3 DEF RateTypes
<1>7. QueueIsHistory'
  <2> SUFFICES ASSUME NEW n \in Methods PROVE QueueOf(n)' BY DEF QueueIsHistory
  <2>1. QueueOf(n) BY <1>2 DEF QueueIsHistory
  <2>2. CASE n # m BY <1>1, <1>5, <2>1, <2>2 DEF QueueOf, Since
  <2>3. CASE n = m
    <3>1. Len(q) <= LimitOf[m]
      BY <1>3, <1>4
    <3>2. \A t \in 0..MaxNow : t > now => passed[m][t] = 0 BY <2>1, <2>3 DEF QueueOf
    <3> QED BY <1>1, <1>3, <1>5, <2>3, <3>1, <3>2, ZenonT(60) DEF QueueOf, Since
  <2> QED BY <2>2, <2>3
<1>8. Recent(m) = LimitOf[m] BY <1>3, <1>4 DEF Recent, Since
<1>9. RefusedOnlyWhenFull' BY <1>1, <1>8 DEF RefusedOnlyWhenFull
<1>10. WindowHolds' BY <1>1, <1>2 DEF LimitIsExact, WindowHolds
<1> QED BY <1>6, <1>7, <1>9, <1>10 DEF RateInv, LimitIsExact

\* A call that passes is one more in every window it lies in.
LEMMA PassIsOneMore ==
    ASSUME RateTypes, NEW m \in Methods, NEW s \in Int,
           passed' = [passed EXCEPT ![m][now] = @ + 1]
    PROVE  /\ now >= s => Total(Since(m, s)') = Total(Since(m, s)) + 1
           /\ ~(now >= s) => Total(Since(m, s)') = Total(Since(m, s))
           /\ now \in s..(s + Window) => Total(Inside(m, s)') = Total(Inside(m, s)) + 1
           /\ now \notin s..(s + Window) => Total(Inside(m, s)') = Total(Inside(m, s))
           /\ Total(Since(m, s)) \in Nat /\ Total(Inside(m, s)) \in Nat
<1> USE RateAssumption
<1>1. /\ now \in 0..MaxNow /\ passed[m] \in History
      /\ passed'[m][now] = passed[m][now] + 1 /\ passed[m][now] \in Nat
      /\ \A t \in 0..MaxNow : t # now => passed'[m][t] = passed[m][t]
  BY DEF RateTypes, History
<1>2. passed'[m][now] \in Nat BY <1>1
<1>3. \A t \in 0..MaxNow : passed'[m][t] \in Nat BY <1>1, <1>2 DEF History
<1>4. Since(m, s) \in History /\ Inside(m, s) \in History BY CutsAreHistories
<1>5. Since(m, s)' \in History /\ Inside(m, s)' \in History
  BY <1>3 DEF Since, Inside, History
<1>6. Total(Since(m, s)) \in Nat /\ Total(Inside(m, s)) \in Nat
  <2>1. \A f \in History : \A t \in 0..MaxNow : f[t] <= f[t] BY DEF History
  <2> QED BY <1>4, <2>1, TotalGrows
<1>7. ASSUME now >= s PROVE Total(Since(m, s)') = Total(Since(m, s)) + 1
  <2>1. /\ Since(m, s)'[now] = Since(m, s)[now] + 1
        /\ \A t \in 0..MaxNow : t # now => Since(m, s)'[t] = Since(m, s)[t]
    BY <1>1, <1>7 DEF Since
  <2> QED BY <1>1, <1>4, <1>5, <1>7, <2>1, TotalOneMore
<1>8. ASSUME ~(now >= s) PROVE Total(Since(m, s)') = Total(Since(m, s))
  <2>1. Since(m, s)' = Since(m, s) BY <1>1, <1>8 DEF Since
  <2> QED BY <1>6, <1>8, <2>1
<1>9. ASSUME now \in s..(s + Window) PROVE Total(Inside(m, s)') = Total(Inside(m, s)) + 1
  <2>1. /\ Inside(m, s)'[now] = Inside(m, s)[now] + 1
        /\ \A t \in 0..MaxNow : t # now => Inside(m, s)'[t] = Inside(m, s)[t]
    BY <1>1, <1>9 DEF Inside
  <2> QED BY <1>1, <1>4, <1>5, <1>9, <2>1, TotalOneMore
<1>10. ASSUME now \notin s..(s + Window) PROVE Total(Inside(m, s)') = Total(Inside(m, s))
  <2>1. Inside(m, s)' = Inside(m, s) BY <1>1, <1>10 DEF Inside
  <2> QED BY <1>6, <1>10, <2>1
<1> QED BY <1>6, <1>7, <1>8, <1>9, <1>10

\* A call passes while the window has room.
LEMMA AllowKeeps ==
    ASSUME RateInv, NEW m \in Methods, NEW auth \in BOOLEAN, Allow(m, auth)
    PROVE  RateInv'
<1> USE RateAssumption
<1> DEFINE q == Pruned(windows[m])
<1>1. /\ windows' = [windows EXCEPT ![m] = Append(q, now)]
      /\ passed' = [passed EXCEPT ![m][now] = @ + 1]
      /\ Len(q) < LimitOf[m] /\ now' = now /\ refused' = refused
  BY DEF Allow
<1>2. RateTypes /\ QueueIsHistory /\ LimitIsExact BY DEF RateInv
<1>3. /\ q \in Seq(Nat) /\ Len(q) <= Len(windows[m]) /\ InOrder(q)
      /\ \A i \in 1..Len(q) : q[i] <= now
      /\ Total(Since(m, now - Window)) = Len(q)
      /\ \A s \in Int, k \in Nat :
            s >= now - Window /\ Before(q, s, k) => Total(Since(m, s)) = Len(q) - k
  BY <1>2, PruneIsExact
<1> DEFINE w == Append(q, now)
<1> HIDE DEF q
<1>4. now \in Nat /\ now \in 0..MaxNow /\ LimitOf[m] \in Nat BY <1>2 DEF RateTypes
<1>5. /\ w \in Seq(Nat) /\ Len(w) = Len(q) + 1 /\ w[Len(q) + 1] = now
      /\ \A i \in 1..Len(q) : w[i] = q[i]
  BY <1>3, <1>4, AppendProperties
<1>6. Len(q) \in Nat /\ \A i \in 1..Len(q) : q[i] \in Nat BY <1>3
<1> HIDE DEF w
<1>7. windows'[m] = w /\ \A n \in Methods : n # m => windows'[n] = windows[n]
  BY <1>1, <1>2 DEF RateTypes, w
<1>8. /\ passed'[m] = [passed[m] EXCEPT ![now] = @ + 1]
      /\ \A n \in Methods : n # m => passed'[n] = passed[n]
  BY <1>1, <1>2 DEF RateTypes
<1>9. RateTypes'
  <2>1. passed'[m] \in History BY <1>2, <1>4, <1>8 DEF RateTypes, History
  <2>2. passed' \in [Methods -> History] BY <1>1, <1>2, <2>1 DEF RateTypes
  <2>3. windows' \in [Methods -> Seq(Nat)] BY <1>1, <1>2, <1>5 DEF RateTypes, w
  <2> QED BY <1>1, <1>4, <2>2, <2>3 DEF RateTypes
<1>10. QueueOf(m)'
  <2>1. InOrder(w)
    <3> SUFFICES ASSUME NEW i \in 1..Len(w), NEW j \in 1..Len(w), i <= j
                 PROVE  w[i] <= w[j]
      BY DEF InOrder
    <3>1. CASE j <= Len(q)
      <4>1. i \in 1..Len(q) /\ j \in 1..Len(q) BY <1>5, <1>6, <3>1
      <4> QED BY <1>3, <1>5, <4>1 DEF InOrder
    <3>2. CASE j = Len(q) + 1 /\ i <= Len(q)
      <4>1. i \in 1..Len(q) BY <1>6, <3>2
      <4> QED BY <1>3, <1>5, <3>2, <4>1
    <3>3. CASE i = Len(q) + 1 /\ j = Len(q) + 1 BY <1>4, <1>5, <3>3
    <3> QED BY <1>5, <1>6, <3>1, <3>2, <3>3
  <2>2. \A i \in 1..Len(w) : w[i] <= now
    <3> SUFFICES ASSUME NEW i \in 1..Len(w) PROVE w[i] <= now OBVIOUS
    <3>1. CASE i = Len(q) + 1 BY <1>4, <1>5, <3>1
    <3>2. CASE i # Len(q) + 1
      <4>1. i \in 1..Len(q) BY <1>5, <1>6, <3>2
      <4> QED BY <1>3, <1>5, <4>1
    <3> QED BY <3>1, <3>2
  <2>3. Len(w) <= LimitOf[m] BY <1>1, <1>4, <1>5, <1>6
  <2>4. \A t \in 0..MaxNow : t > now => passed'[m][t] = 0
    <3>1. \A t \in 0..MaxNow : t > now => passed[m][t] = 0
      BY <1>2 DEF QueueIsHistory, QueueOf
    <3> QED BY <1>2, <1>4, <1>8, <3>1 DEF RateTypes, History
  <2>5. ASSUME NEW s \in Int, NEW k \in Nat, s >= now - Window, Before(w, s, k)
        PROVE  Total(Since(m, s)') = Len(w) - k
    <3>1. CASE now >= s
      <4>1. k \in 0..Len(q)
        <5>1. k # Len(q) + 1
          <6> SUFFICES ASSUME k = Len(q) + 1 PROVE FALSE OBVIOUS
          <6>1. Len(q) + 1 \in 1..k BY <1>6
          <6>2. now < s BY <1>5, <2>5, <6>1 DEF Before
          <6> QED BY <1>4, <3>1, <6>2
        <5>2. k \in 0..(Len(q) + 1) BY <1>5, <2>5 DEF Before
        <5> QED BY <1>6, <5>1, <5>2
      <4>2. \A i \in 1..k : q[i] < s
        <5>1. \A i \in 1..k : i \in 1..Len(q) BY <1>6, <4>1
        <5> QED BY <1>5, <2>5, <5>1 DEF Before
      <4>3. \A i \in (k + 1)..Len(q) : q[i] >= s
        <5>1. \A i \in (k + 1)..Len(q) : i \in 1..Len(q) /\ i \in (k + 1)..Len(w)
          BY <1>5, <1>6
        <5> QED BY <1>5, <2>5, <5>1 DEF Before
      <4>4. Total(Since(m, s)) = Len(q) - k BY <1>3, <2>5, <4>1, <4>2, <4>3 DEF Before
      <4>5. Total(Since(m, s)') = Total(Since(m, s)) + 1 BY <1>1, <1>2, <3>1, PassIsOneMore
      <4> QED BY <1>5, <1>6, <4>1, <4>4, <4>5
    <3>2. CASE ~(now >= s)
      <4>1. k = Len(q) + 1
        <5>1. ~(k <= Len(q))
          <6> SUFFICES ASSUME k <= Len(q) PROVE FALSE OBVIOUS
          <6>1. Len(q) + 1 \in (k + 1)..Len(w) BY <1>5, <1>6
          <6>2. now >= s BY <1>5, <2>5, <6>1 DEF Before
          <6> QED BY <3>2, <6>2
        <5>2. k \in 0..(Len(q) + 1) BY <1>5, <2>5 DEF Before
        <5> QED BY <1>6, <5>1, <5>2
      <4>2. \A i \in 1..Len(q) : q[i] < s BY <1>3, <1>4, <1>6, <3>2
      <4>3. Before(q, s, Len(q)) BY <1>6, <4>2 DEF Before
      <4>4. Total(Since(m, s)) = 0 BY <1>3, <1>6, <2>5, <4>3
      <4>5. Total(Since(m, s)') = Total(Since(m, s)) BY <1>1, <1>2, <3>2, PassIsOneMore
      <4> QED BY <1>5, <1>6, <4>1, <4>4, <4>5
    <3> QED BY <3>1, <3>2
  <2> QED BY <1>1, <1>7, <2>1, <2>2, <2>3, <2>4, <2>5 DEF QueueOf
<1>11. ASSUME NEW n \in Methods, n # m PROVE QueueOf(n)'
  BY <1>1, <1>2, <1>7, <1>8, <1>11 DEF QueueIsHistory, QueueOf, Since
<1>12. WindowHolds'
  <2> SUFFICES ASSUME NEW n \in Methods, LimitOf[n] > 0, NEW s \in 0..MaxNow
               PROVE  Total(Inside(n, s)') <= LimitOf[n]
    BY DEF WindowHolds, Inside
  <2>0. s \in Int OBVIOUS
  <2>1. Total(Inside(n, s)) <= LimitOf[n] BY <1>2 DEF LimitIsExact, WindowHolds, Inside
  <2>2. CASE n # m BY <1>8, <2>1, <2>2 DEF Inside
  <2>3. CASE n = m /\ now \notin s..(s + Window)
    <3>1. Total(Inside(m, s)') = Total(Inside(m, s)) BY <1>1, <1>2, <2>0, <2>3, PassIsOneMore
    <3> QED BY <2>1, <2>3, <3>1
  <2>4. CASE n = m /\ now \in s..(s + Window)
    <3>1. Total(Inside(m, s)') = Total(Inside(m, s)) + 1 BY <1>1, <1>2, <2>0, <2>4, PassIsOneMore
    <3>2. now - Window \in Int /\ s \in Int /\ s >= now - Window BY <1>4, <2>4
    <3>3. \A t \in 0..MaxNow : Inside(m, s)[t] <= Since(m, now - Window)[t]
      <4>1. \A t \in 0..MaxNow : passed[m][t] \in Nat BY <1>2 DEF RateTypes, History
      <4> QED BY <3>2, <4>1 DEF Inside, Since
    <3>4. Inside(m, s) \in History /\ Since(m, now - Window) \in History
      BY <1>2, <3>2, CutsAreHistories
    <3>5. Total(Inside(m, s)) \in Nat /\ Total(Inside(m, s)) <= Len(q)
      BY <1>3, <3>3, <3>4, TotalGrows
    <3> QED BY <1>1, <1>4, <1>6, <2>4, <3>1, <3>5
  <2> QED BY <2>2, <2>3, <2>4
<1>13. RefusedOnlyWhenFull' BY <1>1, <1>2 DEF LimitIsExact, RefusedOnlyWhenFull
<1>14. QueueIsHistory' BY <1>10, <1>11 DEF QueueIsHistory
<1> QED BY <1>9, <1>12, <1>13, <1>14 DEF RateInv, LimitIsExact

\* allow: no stretch of a window's length sees more calls of a method pass than
\* its limit, and a call is refused only when the limit was really used up.
THEOREM LimitHolds == RateSpec => []LimitIsExact
<1>1. RateInv /\ [RateNext]_rateVars => RateInv'
  <2> SUFFICES ASSUME RateInv, [RateNext]_rateVars PROVE RateInv' OBVIOUS
  <2>1. CASE Tick BY <2>1, TickKeeps
  <2>2. ASSUME NEW m \in Methods, NEW auth \in BOOLEAN, Allow(m, auth) \/ Refuse(m, auth)
        PROVE  RateInv'
    BY <2>2, AllowKeeps, RefuseKeeps
  <2>3. CASE UNCHANGED rateVars
    BY <2>3 DEF rateVars, RateInv, RateTypes, QueueIsHistory, QueueOf, Since,
       LimitIsExact, WindowHolds, RefusedOnlyWhenFull
  <2> QED BY <2>1, <2>2, <2>3 DEF RateNext
<1>2. RateInv => LimitIsExact BY DEF RateInv
<1> QED BY RateStarts, <1>1, <1>2, PTL DEF RateSpec

-----------------------------------------------------------------------------
(* The canon's text *)

\* One turn of the loop over the places of a text, and its run up to n.
Turn(kept, g, i) == IF i = 0 THEN <<>>
                    ELSE IF i \in kept THEN Append(g[i - 1], i) ELSE g[i - 1]
IsLoop(n, kept, g) == g = [i \in 0..n |-> Turn(kept, g, i)]

\* The loop ends.
LEMMA LoopEnds == ASSUME NEW n \in Nat, NEW kept PROVE \E g : IsLoop(n, kept, g)
<1> USE DEF Turn
<1> DEFINE Body(g, i) == Turn(kept, g, i)
           Good(g, k) == \A i \in 0..n : i <= k => g[i] = Body(g, i)
           Ok(k) == \E g : g = [i \in 0..n |-> g[i]] /\ Good(g, k)
           S == {k \in Nat : Ok(k)}
<1>1. Ok(0)
  <2> DEFINE g == [i \in 0..n |-> <<>>]
  <2> g = [i \in 0..n |-> g[i]] /\ Good(g, 0) OBVIOUS
  <2> QED OBVIOUS
<1>2. ASSUME NEW k \in Nat, Ok(k) PROVE Ok(k + 1)
  <2>1. PICK g : g = [i \in 0..n |-> g[i]] /\ Good(g, k) BY <1>2
  <2> DEFINE h == [i \in 0..n |-> Body(g, i)]
  <2>2. h = [i \in 0..n |-> h[i]] OBVIOUS
  <2>3. Good(h, k + 1)
    <3> SUFFICES ASSUME NEW i \in 0..n, i <= k + 1 PROVE h[i] = Body(h, i) OBVIOUS
    <3>1. CASE i = 0 BY <3>1
    <3>2. CASE i # 0
      <4>1. i - 1 \in 0..n /\ i - 1 <= k BY <3>2
      <4>2. h[i - 1] = g[i - 1] BY <2>1, <4>1
      <4> QED BY <3>2, <4>2
    <3> QED BY <3>1, <3>2
  <2> HIDE DEF h
  <2> QED BY <2>2, <2>3
<1>3. Ok(n)
  <2> HIDE DEF Ok
  <2>1. 0 \in S /\ \A k \in Nat : k \in S => k + 1 \in S BY <1>1, <1>2
  <2> HIDE DEF S
  <2>2. \A k \in Nat : k \in S BY <2>1, Upwards
  <2> QED BY <2>2 DEF S
<1>4. PICK g : g = [i \in 0..n |-> g[i]] /\ Good(g, n) BY <1>3
<1>5. g = [i \in 0..n |-> Body(g, i)]
  <2>1. \A i \in 0..n : g[i] = Body(g, i) BY <1>4
  <2> HIDE DEF Turn
  <2>2. [i \in 0..n |-> g[i]] = [i \in 0..n |-> Body(g, i)] BY <2>1, Zenon
  <2> QED BY <1>4, <2>2, Zenon
<1> QED BY <1>5 DEF IsLoop

\* It keeps as many places as there are only when it keeps them all, and then
\* each where it was.
LEMMA PlacesAre ==
    ASSUME NEW n \in Nat, NEW kept
    PROVE  /\ Places(n, kept) \in Seq(1..n) /\ Len(Places(n, kept)) <= n
           /\ Len(Places(n, kept)) = n <=> 1..n \subseteq kept
           /\ 1..n \subseteq kept => \A i \in 1..n : Places(n, kept)[i] = i
<1> DEFINE g == CHOOSE f : IsLoop(n, kept, f)
<1>1. IsLoop(n, kept, g) BY LoopEnds, Zenon
<1>2. Places(n, kept) = g[n] BY DEF Places, IsLoop, Turn
<1> HIDE DEF g
<1>3. /\ g[0] = <<>>
      /\ \A i \in 1..n : g[i] = IF i \in kept THEN Append(g[i - 1], i) ELSE g[i - 1]
  <2>1. \A i \in 0..n : g[i] = Turn(kept, g, i) BY <1>1, Zenon DEF IsLoop
  <2>2. 0 \in 0..n /\ \A i \in 1..n : i \in 0..n /\ i # 0 OBVIOUS
  <2> QED BY <2>1, <2>2, Zenon DEF Turn
<1> DEFINE All(k) == 1..k \subseteq kept
           Ok(k) == /\ g[k] \in Seq(1..n) /\ Len(g[k]) <= k
                    /\ Len(g[k]) = k <=> All(k)
                    /\ All(k) => \A i \in 1..k : g[k][i] = i
           S == {k \in Nat : k <= n => Ok(k)}
<1>4. 0 \in S
  <2>1. g[0] \in Seq(1..n) /\ Len(g[0]) = 0 /\ 1..0 = {} BY <1>3
  <2> QED BY <2>1
<1>5. ASSUME NEW k \in Nat, k \in S PROVE k + 1 \in S
  <2> SUFFICES ASSUME k + 1 <= n PROVE Ok(k + 1) OBVIOUS
  <2>1. k + 1 \in 1..n /\ (k + 1) - 1 = k OBVIOUS
  <2>2. Ok(k) BY <1>5
  <2>3. All(k + 1) <=> All(k) /\ k + 1 \in kept
    <3>1. 1..(k + 1) = (1..k) \cup {k + 1} OBVIOUS
    <3> QED BY <3>1
  <2> HIDE DEF All
  <2>4. CASE k + 1 \in kept
    <3>1. g[k + 1] = Append(g[k], k + 1) BY <1>3, <2>1, <2>4
    <3>2. /\ g[k + 1] \in Seq(1..n) /\ Len(g[k + 1]) = Len(g[k]) + 1
          /\ \A i \in 1..Len(g[k]) : g[k + 1][i] = g[k][i]
          /\ g[k + 1][Len(g[k]) + 1] = k + 1
      BY <2>1, <2>2, <3>1, AppendProperties
    <3>3. Len(g[k]) \in Nat BY <2>2
    <3>4. ASSUME All(k + 1), NEW i \in 1..(k + 1) PROVE g[k + 1][i] = i
      <4>1. Len(g[k]) = k BY <2>2, <2>3, <3>4
      <4>2. CASE i = k + 1 BY <3>2, <4>1, <4>2
      <4>3. CASE i # k + 1
        <5>1. i \in 1..k BY <4>3
        <5> QED BY <2>2, <2>3, <3>2, <3>4, <4>1, <5>1
      <4> QED BY <4>2, <4>3
    <3> QED BY <2>2, <2>3, <2>4, <3>2, <3>3, <3>4
  <2>5. CASE k + 1 \notin kept
    <3>1. g[k + 1] = g[k] BY <1>3, <2>1, <2>5
    <3>2. Len(g[k]) \in Nat BY <2>2
    <3> QED BY <2>2, <2>3, <2>5, <3>1, <3>2
  <2> QED BY <2>4, <2>5
<1>6. Ok(n)
  <2> HIDE DEF Ok
  <2>1. 0 \in S /\ \A k \in Nat : k \in S => k + 1 \in S BY <1>4, <1>5
  <2> HIDE DEF S
  <2>2. \A k \in Nat : k \in S BY <2>1, Upwards
  <2> QED BY <2>2 DEF S
<1> QED BY <1>2, <1>6

\* What the two readings of a text are.
Titled(t) == {i \in 1..Len(t) : ~Untitled(t[i])}
KeptOf(t) ==
    LET kept == Places(Len(t), Titled(t))
    IN [i \in 1..Len(kept) |-> [place |-> kept[i], refs |-> KeptRefs(t[kept[i]])]]
IssuesOf(t) ==
    {<<i, 0>> : i \in {j \in 1..Len(t) : StepIssue(t[j])}}
    \cup UNION {{<<i, k>> : k \in {n \in 1..Len(t[i].refs) : ~KeepsRef(t[i].refs[n])}}
                : i \in 1..Len(t)}

RawTexts == UNION {[1..n -> RawBlocks] : n \in 1..MaxTextBlocks}

TextInv ==
    /\ text \in RawTexts
    /\ soft.read => soft.kept = KeptOf(text)
    /\ strict.read => strict.issues = IssuesOf(text)

\* The objections of the editor are the drops of the projection.
LEMMA ReadingsAgree ==
    ASSUME NEW t \in RawTexts
    PROVE  IssuesOf(t) = {} <=>
              /\ Len(KeptOf(t)) = Len(t)
              /\ \A i \in 1..Len(t) : Len(KeptOf(t)[i].refs) = Len(t[i].refs)
<1>1. PICK n \in 1..MaxTextBlocks : t \in [1..n -> RawBlocks] BY DEF RawTexts
<1>2. n \in Nat /\ Len(t) = n /\ t \in Seq(RawBlocks)
  BY <1>1, CanonTextAssumption
<1>3. ASSUME NEW i \in 1..n
      PROVE  /\ Len(t[i].refs) \in Nat
             /\ Len(KeptRefs(t[i])) = Len(t[i].refs)
                  <=> \A k \in 1..Len(t[i].refs) : KeepsRef(t[i].refs[k])
  <2>1. t[i] \in RawBlocks BY <1>1
  <2>2. PICK m \in 0..MaxRefs : t[i].refs \in [1..m -> [label : Words, url : Words]]
    BY <2>1 DEF RawBlocks, RawRefs
  <2>3. m \in Nat BY <2>2, CanonTextAssumption
  <2>4. Len(t[i].refs) = m BY <2>2, <2>3
  <2> QED BY SMTT(60), <2>3, <2>4, PlacesAre DEF KeptRefs
<1> DEFINE P == Places(n, Titled(t))
<1>4. /\ P \in Seq(1..n)
      /\ Len(P) = n <=> 1..n \subseteq Titled(t)
      /\ 1..n \subseteq Titled(t) => \A i \in 1..n : P[i] = i
  BY <1>2, PlacesAre
<1>5. KeptOf(t) = [i \in 1..Len(P) |-> [place |-> P[i], refs |-> KeptRefs(t[P[i]])]]
  BY <1>2 DEF KeptOf
<1> HIDE DEF P
<1>6. Len(P) \in Nat /\ Len(KeptOf(t)) = Len(P)
  BY <1>4, <1>5
<1>7. 1..n \subseteq Titled(t) <=> \A i \in 1..n : ~StepIssue(t[i])
  BY <1>2 DEF Titled, Untitled, StepIssue
<1>8. IssuesOf(t) = {} <=>
        /\ \A i \in 1..n : ~StepIssue(t[i])
        /\ \A i \in 1..n : \A k \in 1..Len(t[i].refs) : KeepsRef(t[i].refs[k])
  <2> HIDE DEF StepIssue, KeepsRef
  <2>1. \A i \in 1..n : StepIssue(t[i]) => <<i, 0>> \in IssuesOf(t)
    BY <1>2 DEF IssuesOf
  <2>2. \A i \in 1..n : \A k \in 1..Len(t[i].refs) :
           ~KeepsRef(t[i].refs[k]) => <<i, k>> \in IssuesOf(t)
    BY <1>2 DEF IssuesOf
  <2>3. ASSUME NEW x \in IssuesOf(t)
        PROVE  \/ \E i \in 1..n : StepIssue(t[i])
               \/ \E i \in 1..n : \E k \in 1..Len(t[i].refs) : ~KeepsRef(t[i].refs[k])
    BY <1>2, <2>3 DEF IssuesOf
  <2> QED BY <2>1, <2>2, <2>3
<1>9. CASE 1..n \subseteq Titled(t)
  <2>1. \A i \in 1..n : KeptOf(t)[i].refs = KeptRefs(t[i]) BY <1>4, <1>5, <1>9
  <2> QED BY <1>2, <1>3, <1>4, <1>6, <1>7, <1>8, <1>9, <2>1
<1>10. CASE ~(1..n \subseteq Titled(t))
  BY <1>2, <1>4, <1>6, <1>7, <1>8, <1>10
<1> QED BY <1>9, <1>10

\* parse_canon and parse_steps: the editor refuses exactly the texts the
\* projection would lose a block or a reference of, however long they are.
THEOREM ReadingsLossless == TextSpec => []StrictMeansLossless
<1>1. TextInit => TextInv BY DEF TextInit, TextInv, RawTexts, Unread
<1>2. TextInv /\ [TextNext]_textVars => TextInv'
  <2> SUFFICES ASSUME TextInv, [TextNext]_textVars PROVE TextInv' OBVIOUS
  <2>1. CASE SoftRead
    <3>1. soft'.kept = KeptOf(text) BY <2>1 DEF SoftRead, KeptOf, Titled
    <3> QED BY <2>1, <3>1 DEF SoftRead, TextInv
  <2>2. CASE StrictRead
    <3>1. strict'.issues = IssuesOf(text) BY <2>2 DEF StrictRead, IssuesOf
    <3> QED BY <2>2, <3>1 DEF StrictRead, TextInv
  <2>3. CASE UNCHANGED textVars BY <2>3 DEF TextInv, textVars
  <2> QED BY <2>1, <2>2, <2>3 DEF TextNext
<1>3. TextInv => StrictMeansLossless BY ReadingsAgree DEF TextInv, StrictMeansLossless
<1> QED BY <1>1, <1>2, <1>3, PTL DEF TextSpec

-----------------------------------------------------------------------------
(* The author's files: sums over a tree *)

\* One turn of a sum over the sets of S, and the whole of it.
Pick(s) == CHOOSE x \in s : TRUE
Added(w, g, s) == IF s = {} THEN 0 ELSE w[Pick(s)] + g[s \ {Pick(s)}]
IsSum(w, S, g) == g = [s \in SUBSET S |-> Added(w, g, s)]

\* What is left of a finite set is smaller.
LEMMA PickShrinks ==
    ASSUME NEW S, IsFiniteSet(S), NEW s \in SUBSET S, s # {}
    PROVE  /\ Pick(s) \in s /\ s \ {Pick(s)} \in SUBSET S
           /\ Cardinality(s) \in Nat
           /\ Cardinality(s \ {Pick(s)}) = Cardinality(s) - 1
<1>1. Pick(s) \in s BY DEF Pick
<1>2. IsFiniteSet(s) BY FS_Subset
<1> QED BY <1>1, <1>2, FS_CardinalityType, FS_RemoveElement

\* A sum over a finite set comes to an end.
LEMMA SumEnds ==
    ASSUME NEW S, IsFiniteSet(S), NEW w
    PROVE  \E g : IsSum(w, S, g)
<1> DEFINE Good(g, k) == \A s \in SUBSET S : Cardinality(s) <= k => g[s] = Added(w, g, s)
           Ok(k) == \E g : g = [s \in SUBSET S |-> g[s]] /\ Good(g, k)
           N == {k \in Nat : Ok(k)}
<1>0. \A s \in SUBSET S : Cardinality(s) \in Nat /\ (Cardinality(s) = 0 <=> s = {})
  BY FS_Subset, FS_CardinalityType, FS_EmptySet
<1>1. Ok(0)
  <2> DEFINE g == [s \in SUBSET S |-> 0]
  <2>1. g = [s \in SUBSET S |-> g[s]] OBVIOUS
  <2>2. \A s \in SUBSET S : Cardinality(s) <= 0 => s = {} BY <1>0
  <2>3. g[{}] = 0 OBVIOUS
  <2>4. Good(g, 0) BY <2>2, <2>3 DEF Added
  <2> HIDE DEF g
  <2> QED BY <2>1, <2>4
<1>2. ASSUME NEW k \in Nat, Ok(k) PROVE Ok(k + 1)
  <2>1. PICK g : g = [s \in SUBSET S |-> g[s]] /\ Good(g, k) BY <1>2
  <2> DEFINE h == [s \in SUBSET S |-> Added(w, g, s)]
  <2>2. h = [s \in SUBSET S |-> h[s]] /\ \A s \in SUBSET S : h[s] = Added(w, g, s)
    OBVIOUS
  <2> HIDE DEF h
  <2>3. Good(h, k + 1)
    <3> SUFFICES ASSUME NEW s \in SUBSET S, Cardinality(s) <= k + 1
                 PROVE  h[s] = Added(w, h, s)
      OBVIOUS
    <3>1. CASE s = {} BY <2>2, <3>1 DEF Added
    <3>2. CASE s # {}
      <4> DEFINE r == s \ {Pick(s)}
      <4>1. r \in SUBSET S /\ Cardinality(r) <= k BY <3>2, PickShrinks
      <4> HIDE DEF r
      <4>2. h[r] = g[r] BY <2>1, <2>2, <4>1
      <4> QED BY <2>2, <3>2, <4>2 DEF Added, r
    <3> QED BY <3>1, <3>2
  <2> QED BY <2>2, <2>3
<1>3. Ok(Cardinality(S))
  <2> HIDE DEF Ok
  <2>1. 0 \in N /\ \A k \in Nat : k \in N => k + 1 \in N BY <1>1, <1>2
  <2> HIDE DEF N
  <2>2. \A k \in Nat : k \in N BY <2>1, Upwards
  <2>3. Cardinality(S) \in Nat BY FS_CardinalityType
  <2> QED BY <2>2, <2>3 DEF N
<1>4. PICK g : g = [s \in SUBSET S |-> g[s]] /\ Good(g, Cardinality(S)) BY <1>3
<1>5. \A s \in SUBSET S : g[s] = Added(w, g, s)
  <2>1. \A s \in SUBSET S : Cardinality(s) <= Cardinality(S) BY FS_Subset
  <2> QED BY <1>4, <2>1
<1>6. [s \in SUBSET S |-> g[s]] = [s \in SUBSET S |-> Added(w, g, s)] BY <1>5, Zenon
<1> QED BY <1>4, <1>6, Zenon DEF IsSum

\* A sum is a number, and grows with its terms.
LEMMA SumsCompare ==
    ASSUME NEW S, IsFiniteSet(S), NEW w \in [S -> Nat], NEW v \in [S -> Nat],
           \A x \in S : w[x] <= v[x],
           NEW g, NEW h, IsSum(w, S, g), IsSum(v, S, h)
    PROVE  g[S] \in Nat /\ h[S] \in Nat /\ g[S] <= h[S]
<1> DEFINE Ok(k) == \A s \in SUBSET S : Cardinality(s) <= k =>
                        g[s] \in Nat /\ h[s] \in Nat /\ g[s] <= h[s]
           N == {k \in Nat : Ok(k)}
<1>0. \A s \in SUBSET S : Cardinality(s) \in Nat /\ (Cardinality(s) = 0 <=> s = {})
  BY FS_Subset, FS_CardinalityType, FS_EmptySet
<1>1. \A s \in SUBSET S : g[s] = Added(w, g, s) /\ h[s] = Added(v, h, s)
  BY Zenon DEF IsSum
<1>2. Ok(0)
  <2>1. \A s \in SUBSET S : Cardinality(s) <= 0 => s = {} BY <1>0
  <2>2. g[{}] = 0 /\ h[{}] = 0 BY <1>1 DEF Added
  <2> SUFFICES ASSUME NEW s \in SUBSET S, Cardinality(s) <= 0
               PROVE  g[s] \in Nat /\ h[s] \in Nat /\ g[s] <= h[s]
    OBVIOUS
  <2>3. s = {} BY <2>1
  <2> QED BY <2>2, <2>3
<1>3. ASSUME NEW k \in Nat, Ok(k) PROVE Ok(k + 1)
  <2> SUFFICES ASSUME NEW s \in SUBSET S, Cardinality(s) <= k + 1
               PROVE  g[s] \in Nat /\ h[s] \in Nat /\ g[s] <= h[s]
    OBVIOUS
  <2>1. CASE s = {} BY <1>1, <2>1 DEF Added
  <2>2. CASE s # {}
    <3> DEFINE r == s \ {Pick(s)}
               x == Pick(s)
    <3>1. x \in S /\ r \in SUBSET S /\ Cardinality(r) <= k BY <2>2, PickShrinks
    <3>2. g[s] = w[x] + g[r] /\ h[s] = v[x] + h[r] BY <1>1, <2>2 DEF Added
    <3> HIDE DEF r, x
    <3>3. g[r] \in Nat /\ h[r] \in Nat /\ g[r] <= h[r] BY <1>3, <3>1
    <3>4. w[x] \in Nat /\ v[x] \in Nat /\ w[x] <= v[x] BY <3>1
    <3> QED BY <3>2, <3>3, <3>4
  <2> QED BY <2>1, <2>2
<1>4. Ok(Cardinality(S))
  <2> HIDE DEF Ok
  <2>1. 0 \in N /\ \A k \in Nat : k \in N => k + 1 \in N BY <1>2, <1>3
  <2> HIDE DEF N
  <2>2. \A k \in Nat : k \in N BY <2>1, Upwards
  <2>3. Cardinality(S) \in Nat BY FS_CardinalityType
  <2> QED BY <2>2, <2>3 DEF N
<1>5. Cardinality(S) <= Cardinality(S) BY FS_CardinalityType
<1> QED BY <1>4, <1>5

\* Size and Weight are such sums.
LEMMA SizeIs ==
    ASSUME NEW S, IsFiniteSet(S), NEW fs, NEW w, \A p \in S : w[p] = fs[p].size
    PROVE  \E g : IsSum(w, S, g) /\ Size(fs, S) = g[S]
<1> DEFINE Is(g) == g = [s \in SUBSET S |->
                           IF s = {} THEN 0 ELSE fs[Pick(s)].size + g[s \ {Pick(s)}]]
           g == CHOOSE g : Is(g)
<1>1. Size(fs, S) = g[S] BY DEF Size, MapThenSumSet, MapThenFoldSet, Pick
<1>2. ASSUME NEW f PROVE Is(f) <=> IsSum(w, S, f)
  <2>1. \A s \in SUBSET S : s # {} => Pick(s) \in S BY DEF Pick
  <2> QED BY <2>1 DEF IsSum, Added
<1> HIDE DEF Is
<1>3. \E f : Is(f) BY <1>2, SumEnds
<1>4. Is(g) BY <1>3, Zenon
<1> HIDE DEF g
<1> QED BY <1>1, <1>2, <1>4

\* (The same of Weight.)
LEMMA WeightIs ==
    ASSUME NEW fs, IsFiniteSet(DOMAIN fs \cap Authored), NEW w,
           \A p \in DOMAIN fs \cap Authored : w[p] = fs[p].size + NameSize[p]
    PROVE  \E g : IsSum(w, DOMAIN fs \cap Authored, g) /\ Weight(fs) = g[DOMAIN fs \cap Authored]
<1> DEFINE S == DOMAIN fs \cap Authored
           Is(g) == g = [s \in SUBSET S |->
                           IF s = {} THEN 0
                           ELSE (fs[Pick(s)].size + NameSize[Pick(s)]) + g[s \ {Pick(s)}]]
           g == CHOOSE g : Is(g)
<1>1. Weight(fs) = g[S] BY DEF Weight, MapThenSumSet, MapThenFoldSet, Pick
<1> HIDE DEF S
<1>2. ASSUME NEW f PROVE Is(f) <=> IsSum(w, S, f)
  <2>1. \A s \in SUBSET S : s # {} => Pick(s) \in S BY DEF Pick
  <2>2. \A p \in S : w[p] = fs[p].size + NameSize[p] BY DEF S
  <2> QED BY <2>1, <2>2 DEF IsSum, Added
<1> HIDE DEF Is
<1>3. IsFiniteSet(S) BY DEF S
<1>4. \E f : Is(f) BY <1>2, <1>3, SumEnds
<1>5. Is(g) BY <1>4, Zenon
<1> HIDE DEF g
<1>6. \E f : IsSum(w, S, f) /\ Weight(fs) = f[S] BY <1>1, <1>2, <1>5
<1> QED BY <1>6 DEF S

-----------------------------------------------------------------------------
(* The author's files: the doors *)

\* A repository holds finitely many paths.
PathsAreFinite == IsFiniteSet(Paths)

TypedTree(t) ==
    /\ t = [canon |-> t.canon, files |-> t.files]
    /\ DOMAIN t.files \subseteq Paths
    /\ \A p \in AuthoredOf(t) : t.files[p] \in Contents

\* What both doors ask of a tree.
GoodTree(t) ==
    /\ t.canon /\ PathsAllowed(t) /\ Regular(t) /\ TextOnly(t)
    /\ Cardinality(AuthoredOf(t)) <= MaxFiles
    /\ Size(t.files, AuthoredOf(t)) <= MaxTreeBytes

\* A push of the draft, and a branch made of main, hand a tree on unjudged: the
\* invariant is about both branches.
GoodMain  == ~mainUnjudged => GoodTree(mainTree)
GoodDraft == draftTree = NoTree \/ draftUnjudged \/ GoodTree(draftTree)

TreeInv ==
    /\ TypedTree(mainTree) /\ TypedTree(draftTree)
    /\ mainUnjudged \in BOOLEAN /\ draftUnjudged \in BOOLEAN
    /\ mainTree.canon /\ (draftTree = NoTree \/ draftTree.canon)
    /\ GoodMain /\ GoodDraft
    /\ promised \subseteq AuthoredOf(mainTree)

\* The contents without their names weigh no more than with them.
LEMMA SizeBelowWeight ==
    ASSUME PathsAreFinite, NEW t, TypedTree(t)
    PROVE  /\ Size(t.files, AuthoredOf(t)) \in Nat /\ Weight(t.files) \in Nat
           /\ Size(t.files, AuthoredOf(t)) <= Weight(t.files)
<1> DEFINE S == DOMAIN t.files \cap Authored
           w == [p \in S |-> t.files[p].size]
           v == [p \in S |-> t.files[p].size + NameSize[p]]
<1>1. IsFiniteSet(S) BY FS_Subset DEF PathsAreFinite, TypedTree
<1>2. \A p \in S : t.files[p].size \in Nat /\ NameSize[p] \in Nat
  BY TreeAssumption DEF TypedTree, AuthoredOf
<1>3. w \in [S -> Nat] /\ v \in [S -> Nat] /\ \A p \in S : w[p] <= v[p] BY <1>2
<1>4. /\ \A p \in S : w[p] = t.files[p].size
      /\ \A p \in S : v[p] = t.files[p].size + NameSize[p]
  OBVIOUS
<1> HIDE DEF w, v
<1>5. PICK g : IsSum(w, S, g) /\ Size(t.files, S) = g[S]
  <2>1. \A p \in S : w[p] = t.files[p].size BY <1>4
  <2> HIDE DEF S
  <2> QED BY <1>1, <2>1, SizeIs
<1>6. PICK h : IsSum(v, S, h) /\ Weight(t.files) = h[S]
  <2>1. \A p \in S : v[p] = t.files[p].size + NameSize[p] BY <1>4
  <2>2. DOMAIN t.files \cap Authored = S OBVIOUS
  <2> HIDE DEF S
  <2> QED BY <1>1, <2>1, <2>2, WeightIs
<1>7. g[S] \in Nat /\ h[S] \in Nat /\ g[S] <= h[S]
  BY <1>1, <1>3, <1>5, <1>6, SumsCompare
<1> QED BY <1>5, <1>6, <1>7 DEF AuthoredOf

\* Trees with the same author's files weigh the same.
LEMMA SameFilesSameSums ==
    ASSUME PathsAreFinite, NEW t, NEW u, TypedTree(t), TypedTree(u),
           AuthoredOf(u) = AuthoredOf(t),
           \A p \in AuthoredOf(t) : u.files[p] = t.files[p]
    PROVE  /\ Size(u.files, AuthoredOf(u)) = Size(t.files, AuthoredOf(t))
           /\ Weight(u.files) = Weight(t.files)
<1> DEFINE S == DOMAIN t.files \cap Authored
           w == [p \in S |-> t.files[p].size]
           v == [p \in S |-> t.files[p].size + NameSize[p]]
<1>1. IsFiniteSet(S) BY FS_Subset DEF PathsAreFinite, TypedTree
<1>2. \A p \in S : t.files[p].size \in Nat /\ NameSize[p] \in Nat
  BY TreeAssumption DEF TypedTree, AuthoredOf
<1>3. /\ w \in [S -> Nat] /\ v \in [S -> Nat]
      /\ \A p \in S : w[p] <= w[p] /\ v[p] <= v[p]
  BY <1>2
<1>4. /\ \A p \in S : w[p] = t.files[p].size /\ w[p] = u.files[p].size
      /\ \A p \in S : /\ v[p] = t.files[p].size + NameSize[p]
                      /\ v[p] = u.files[p].size + NameSize[p]
  BY DEF AuthoredOf
<1>5. DOMAIN u.files \cap Authored = S BY DEF AuthoredOf
<1> HIDE DEF w, v
<1>6. PICK g : IsSum(w, S, g) /\ Size(t.files, S) = g[S]
  <2>1. \A p \in S : w[p] = t.files[p].size BY <1>4
  <2> HIDE DEF S
  <2> QED BY <1>1, <2>1, SizeIs
<1>7. PICK h : IsSum(w, S, h) /\ Size(u.files, S) = h[S]
  <2>1. \A p \in S : w[p] = u.files[p].size BY <1>4
  <2> HIDE DEF S
  <2> QED BY <1>1, <2>1, SizeIs
<1>8. g[S] = h[S]
  <2>1. g[S] \in Nat /\ h[S] \in Nat /\ g[S] <= h[S]
    BY <1>1, <1>3, <1>6, <1>7, SumsCompare
  <2>2. h[S] <= g[S] BY <1>1, <1>3, <1>6, <1>7, SumsCompare
  <2> QED BY <2>1, <2>2
<1>9. PICK a : IsSum(v, S, a) /\ Weight(t.files) = a[S]
  <2>1. \A p \in S : v[p] = t.files[p].size + NameSize[p] BY <1>4
  <2>2. DOMAIN t.files \cap Authored = S OBVIOUS
  <2> HIDE DEF S
  <2> QED BY <1>1, <2>1, <2>2, WeightIs
<1>10. PICK b : IsSum(v, S, b) /\ Weight(u.files) = b[S]
  <2>1. \A p \in S : v[p] = u.files[p].size + NameSize[p] BY <1>4
  <2> HIDE DEF S
  <2> QED BY <1>1, <1>5, <2>1, WeightIs
<1>11. a[S] = b[S]
  <2>1. a[S] \in Nat /\ b[S] \in Nat /\ a[S] <= b[S]
    BY <1>1, <1>3, <1>9, <1>10, SumsCompare
  <2>2. b[S] <= a[S] BY <1>1, <1>3, <1>9, <1>10, SumsCompare
  <2> QED BY <2>1, <2>2
<1> QED BY <1>5, <1>6, <1>7, <1>8, <1>9, <1>10, <1>11 DEF AuthoredOf

\* An empty repository is a good one.
LEMMA EmptyIsGood ==
    /\ TypedTree(Tree(<<>>)) /\ AuthoredOf(Tree(<<>>)) = {} /\ GoodTree(Tree(<<>>))
<1> DEFINE t == Tree(<<>>)
<1>1. t = [canon |-> TRUE, files |-> <<>>] BY DEF Tree
<1>2. DOMAIN t.files = {} /\ t.canon = TRUE BY <1>1
<1>3. TypedTree(t) BY <1>1, <1>2 DEF TypedTree, AuthoredOf
<1> HIDE DEF t
<1>4. AuthoredOf(t) = {} BY <1>2 DEF AuthoredOf
<1>5. PathsAllowed(t) /\ Regular(t) /\ TextOnly(t)
  BY <1>2, <1>4 DEF PathsAllowed, Regular, TextOnly
<1>6. Size(t.files, {}) = 0
  <2> DEFINE w == [p \in {} |-> 0]
  <2>1. PICK g : IsSum(w, {}, g) /\ Size(t.files, {}) = g[{}]
    BY FS_EmptySet, SizeIs
  <2> QED BY <2>1 DEF IsSum, Added
<1>7. Cardinality({}) = 0 BY FS_EmptySet
<1>8. 0 <= MaxFiles /\ 0 <= MaxTreeBytes BY TreeAssumption
<1>9. GoodTree(t) BY <1>2, <1>4, <1>5, <1>6, <1>7, <1>8 DEF GoodTree
<1> QED BY <1>3, <1>4, <1>9 DEF t

\* What the writers make of a tree is a tree.
LEMMA EditsTyped ==
    ASSUME NEW t, TypedTree(t), NEW e \in Edits(t)
    PROVE  TypedTree(e)
<1> DEFINE Less(p) == [t EXCEPT !.files = Only(@, Paths \ {p})]
           More(p, c) ==
               [t EXCEPT !.files = [q \in DOMAIN @ \cup {p} |-> IF q = p THEN c ELSE @[q]]]
<1>1. ASSUME NEW p \in Paths, e = Less(p) PROVE TypedTree(e)
  <2>1. e = [canon |-> t.canon, files |-> Only(t.files, Paths \ {p})] BY <1>1 DEF TypedTree
  <2>2. /\ DOMAIN e.files = DOMAIN t.files \cap (Paths \ {p})
        /\ \A q \in DOMAIN e.files : e.files[q] = t.files[q]
    BY <2>1 DEF Only
  <2>3. e = [canon |-> e.canon, files |-> e.files] BY <2>1
  <2> QED BY <2>2, <2>3 DEF TypedTree, AuthoredOf
<1>2. ASSUME NEW p \in Paths, NEW c \in ContentsFor(p), e = More(p, c)
      PROVE  TypedTree(e)
  <2>1. e = [canon |-> t.canon,
             files |-> [q \in DOMAIN t.files \cup {p} |-> IF q = p THEN c ELSE t.files[q]]]
    BY <1>2 DEF TypedTree
  <2>2. p \in Authored => c \in Contents BY <1>2 DEF ContentsFor
  <2>3. /\ DOMAIN e.files = DOMAIN t.files \cup {p}
        /\ \A q \in DOMAIN e.files : e.files[q] = IF q = p THEN c ELSE t.files[q]
    BY <2>1
  <2>4. e = [canon |-> e.canon, files |-> e.files] BY <2>1
  <2>5. DOMAIN e.files \subseteq Paths BY <2>3 DEF TypedTree
  <2>6. ASSUME NEW q \in AuthoredOf(e) PROVE e.files[q] \in Contents
    BY <2>2, <2>3, <2>6 DEF TypedTree, AuthoredOf
  <2> QED BY <2>4, <2>5, <2>6 DEF TypedTree
<1>3. ASSUME e = [t EXCEPT !.canon = FALSE] PROVE TypedTree(e)
  <2>1. e = [canon |-> FALSE, files |-> t.files] BY <1>3 DEF TypedTree
  <2>2. e.files = t.files /\ e = [canon |-> e.canon, files |-> e.files] BY <2>1
  <2> QED BY <2>2 DEF TypedTree, AuthoredOf
<1>4. TypedTree(Tree(<<>>)) BY EmptyIsGood
<1>5. e \in {Less(p) : p \in Paths}
                \cup (UNION {{More(p, c) : c \in ContentsFor(p)} : p \in Paths})
                \cup {[t EXCEPT !.canon = FALSE], Tree(<<>>)}
  BY DEF Edits
<1> HIDE DEF Less, More
<1>6. \/ \E p \in Paths : e = Less(p)
      \/ \E p \in Paths : \E c \in ContentsFor(p) : e = More(p, c)
      \/ e = [t EXCEPT !.canon = FALSE]
      \/ e = Tree(<<>>)
  BY <1>5
<1> QED BY <1>1, <1>2, <1>3, <1>4, <1>6, Zenon

\* (A clean merge, and a tree made anew with the author's files.)
LEMMA MergesTyped ==
    ASSUME NEW t, NEW u, TypedTree(t), TypedTree(u), NEW fs \in Merges(t.files, u.files)
    PROVE  TypedTree(Tree(fs))
<1>1. PICK T \in SUBSET Differ(t.files, u.files) : fs = Mixed(t.files, u.files, T)
  BY DEF Merges
<1>2. /\ DOMAIN fs = (DOMAIN t.files \ T) \cup (DOMAIN u.files \cap T)
      /\ \A p \in DOMAIN fs : fs[p] = IF p \in T THEN u.files[p] ELSE t.files[p]
  BY <1>1 DEF Mixed
<1> QED BY <1>2 DEF TypedTree, Tree, AuthoredOf

\* A carried tree has the author's files, and only them.
LEMMA CarriedIs ==
    ASSUME NEW t, TypedTree(t)
    PROVE  /\ TypedTree(Carried(t)) /\ Carried(t).canon = TRUE
           /\ DOMAIN Carried(t).files = AuthoredOf(t)
           /\ AuthoredOf(Carried(t)) = AuthoredOf(t)
           /\ \A p \in AuthoredOf(t) : Carried(t).files[p] = t.files[p]
<1>1. Carried(t) = [canon |-> TRUE, files |-> Only(t.files, Authored)]
  BY DEF Carried, Tree
<1>2. /\ DOMAIN Only(t.files, Authored) = AuthoredOf(t)
      /\ \A p \in AuthoredOf(t) : Only(t.files, Authored)[p] = t.files[p]
  BY DEF Only, AuthoredOf
<1> QED BY <1>1, <1>2 DEF TypedTree, AuthoredOf

\* A carried tree is as good as the one it comes from.
LEMMA CarriedIsGood ==
    ASSUME PathsAreFinite, NEW t, TypedTree(t), GoodTree(t)
    PROVE  GoodTree(Carried(t))
<1> DEFINE c == Carried(t)
<1>1. /\ TypedTree(c) /\ c.canon = TRUE
      /\ DOMAIN c.files = AuthoredOf(t)
      /\ AuthoredOf(c) = AuthoredOf(t)
      /\ \A p \in AuthoredOf(t) : c.files[p] = t.files[p]
  BY CarriedIs
<1> HIDE DEF c
<1>2. Size(c.files, AuthoredOf(c)) = Size(t.files, AuthoredOf(t)) BY <1>1, SameFilesSameSums
<1>3. PathsAllowed(c) BY <1>1 DEF PathsAllowed, AuthoredOf, Authored
<1>4. Regular(c) /\ TextOnly(c) BY <1>1 DEF GoodTree, Regular, TextOnly
<1>5. GoodTree(c) BY <1>1, <1>2, <1>3, <1>4 DEF GoodTree
<1> QED BY <1>5 DEF c

\* The first repository is a good one, and there is no draft.
LEMMA TreeStarts ==
    ASSUME PathsAreFinite, TreeInit
    PROVE  TreeInv
<1>1. draftTree = [canon |-> FALSE, files |-> <<>>] BY DEF TreeInit, NoTree
<1>2. DOMAIN draftTree.files = {} BY <1>1
<1>3. TypedTree(draftTree) BY <1>1, <1>2 DEF TypedTree, AuthoredOf
<1>4. GoodDraft BY DEF TreeInit, GoodDraft
<1>5. GoodTree(mainTree) /\ mainTree.canon BY EmptyIsGood DEF TreeInit, GoodTree
<1> QED BY <1>3, <1>4, <1>5, EmptyIsGood DEF TreeInv, TreeInit, GoodMain

\* What the hook lets in as a new commit, and what update_main does, is good for
\* both.
LEMMA DoorsAgree ==
    ASSUME PathsAreFinite, NEW t, TypedTree(t), HookAllows(t, TRUE) \/ UpdateAllows(t)
    PROVE  GoodTree(t)
<1>1. CASE HookAllows(t, TRUE) BY <1>1 DEF HookAllows, HookJudges, GoodTree
<1>2. CASE UpdateAllows(t)
  <2>1. Size(t.files, AuthoredOf(t)) <= MaxTreeBytes
    <3>1. Weight(t.files) <= MaxTreeBytes BY <1>2 DEF UpdateAllows, TallyFits
    <3> QED BY <3>1, SizeBelowWeight, TreeAssumption
  <2> QED BY <1>2, <2>1 DEF UpdateAllows, TallyFits, GoodTree, AuthoredOf
<1> QED BY <1>1, <1>2

\* A judged tree on main, with the draft as it was.
LEMMA MainJudged ==
    ASSUME PathsAreFinite, TreeInv,
           NEW t, TypedTree(t), HookAllows(t, TRUE) \/ UpdateAllows(t),
           mainTree' = t, mainUnjudged' = FALSE, promised' \subseteq AuthoredOf(t),
           UNCHANGED <<draftTree, draftUnjudged>>
    PROVE  TreeInv'
<1>1. GoodTree(t) /\ t.canon BY DoorsAgree DEF GoodTree
<1>2. GoodMain' BY <1>1 DEF GoodMain, GoodTree, PathsAllowed, Regular, TextOnly, AuthoredOf
<1>3. GoodDraft'
  BY DEF TreeInv, GoodDraft, GoodTree, PathsAllowed, Regular, TextOnly, AuthoredOf
<1> QED BY <1>1, <1>2, <1>3 DEF TreeInv, AuthoredOf, TypedTree

\* A tree on the draft, good or marked as unjudged, with main as it was.
LEMMA DraftMoves ==
    ASSUME TreeInv,
           NEW t, TypedTree(t), draftTree' = t, draftUnjudged' \in BOOLEAN,
           t = NoTree \/ t.canon, t = NoTree \/ draftUnjudged' \/ GoodTree(t),
           UNCHANGED <<mainTree, promised, mainUnjudged>>
    PROVE  TreeInv'
<1>1. GoodDraft' BY DEF GoodDraft, GoodTree, PathsAllowed, Regular, TextOnly, AuthoredOf
<1>2. GoodMain' BY DEF TreeInv, GoodMain, GoodTree, PathsAllowed, Regular, TextOnly, AuthoredOf
<1> QED BY <1>1, <1>2 DEF TreeInv, AuthoredOf, TypedTree

\* Every writer keeps the invariant.
LEMMA TreeKeeps ==
    ASSUME PathsAreFinite, TreeInv, [TreeNext]_treeVars
    PROVE  TreeInv'
<1>0. TypedTree(mainTree) /\ TypedTree(draftTree) BY DEF TreeInv
<1>1. CASE PushToMain
  <2>1. PICK t \in Edits(mainTree) :
            /\ HookAllows(t, TRUE) /\ mainTree' = t /\ promised' = AuthoredOf(t)
            /\ mainUnjudged' = FALSE /\ UNCHANGED <<draftTree, draftUnjudged>>
    BY <1>1 DEF PushToMain
  <2>2. TypedTree(t) BY <1>0, EditsTyped
  <2> QED BY <2>1, <2>2, MainJudged
<1>2. CASE PushDraftToMain
  <2>1. /\ draftTree # NoTree /\ mainTree' = draftTree /\ promised' = AuthoredOf(draftTree)
        /\ mainUnjudged' = draftUnjudged /\ UNCHANGED <<draftTree, draftUnjudged>>
    BY <1>2 DEF PushDraftToMain
  <2>2. (draftUnjudged \/ GoodTree(draftTree)) /\ draftTree.canon
    BY <2>1 DEF TreeInv, GoodDraft
  <2>3. GoodMain'
    BY <2>1, <2>2 DEF GoodMain, GoodTree, PathsAllowed, Regular, TextOnly, AuthoredOf
  <2>4. GoodDraft'
    BY <2>1, <2>2 DEF GoodDraft, GoodTree, PathsAllowed, Regular, TextOnly, AuthoredOf
  <2> QED BY <2>1, <2>2, <2>3, <2>4 DEF TreeInv, AuthoredOf, TypedTree
<1>3. CASE PushToDraft
  <2>1. PICK t \in Edits(IF draftTree = NoTree THEN mainTree ELSE draftTree) :
            /\ HookAllows(t, TRUE) /\ draftTree' = t /\ draftUnjudged' = FALSE
            /\ UNCHANGED <<mainTree, promised, mainUnjudged>>
    BY <1>3 DEF PushToDraft
  <2>2. TypedTree(t) BY <1>0, EditsTyped
  <2>3. GoodTree(t) /\ t.canon BY <2>1, <2>2, DoorsAgree DEF GoodTree
  <2> QED BY <2>1, <2>2, <2>3, DraftMoves
<1>4. CASE CreateBranch
  <2>1. /\ draftTree' = mainTree /\ draftUnjudged' = mainUnjudged
        /\ UNCHANGED <<mainTree, promised, mainUnjudged>>
    BY <1>4 DEF CreateBranch
  <2>2. draftUnjudged' \in BOOLEAN /\ (draftUnjudged' \/ GoodTree(mainTree)) /\ mainTree.canon
    BY <2>1 DEF TreeInv, GoodMain
  <2> QED BY <1>0, <2>1, <2>2, DraftMoves
<1>5. CASE CommitToDraft
  <2>1. /\ draftTree # NoTree /\ draftTree' = Carried(draftTree)
        /\ UNCHANGED <<mainTree, promised, mainUnjudged, draftUnjudged>>
    BY <1>5 DEF CommitToDraft, Carried
  <2>2. TypedTree(Carried(draftTree)) /\ Carried(draftTree).canon BY <1>0, CarriedIs
  <2>3. draftUnjudged \/ GoodTree(draftTree) BY <2>1 DEF TreeInv, GoodDraft
  <2>4. draftUnjudged' \in BOOLEAN /\ (draftUnjudged' \/ GoodTree(Carried(draftTree)))
    BY <1>0, <2>1, <2>3, CarriedIsGood DEF TreeInv
  <2> QED BY <2>1, <2>2, <2>4, DraftMoves
<1>6. CASE DropDraft
  <2>1. /\ draftTree' = NoTree /\ draftUnjudged' = FALSE
        /\ UNCHANGED <<mainTree, promised, mainUnjudged>>
    BY <1>6 DEF DropDraft
  <2>2. NoTree = [canon |-> FALSE, files |-> <<>>] BY DEF NoTree
  <2>3. DOMAIN NoTree.files = {} BY <2>2
  <2>4. TypedTree(NoTree) BY <2>2, <2>3 DEF TypedTree, AuthoredOf
  <2> QED BY <2>1, <2>4, DraftMoves
<1>7. CASE WebEdit \/ MergeResolvedTree
  <2>1. /\ UpdateAllows(Carried(mainTree)) /\ mainTree' = Carried(mainTree)
        /\ mainUnjudged' = FALSE /\ UNCHANGED <<draftTree, promised, draftUnjudged>>
    BY <1>7 DEF WebEdit, MergeResolvedTree
  <2>2. TypedTree(Carried(mainTree)) /\ AuthoredOf(Carried(mainTree)) = AuthoredOf(mainTree)
    BY <1>0, CarriedIs
  <2>3. promised' \subseteq AuthoredOf(Carried(mainTree)) BY <2>1, <2>2 DEF TreeInv
  <2> QED BY <2>1, <2>2, <2>3, MainJudged
<1>8. CASE WebReplace
  <2>1. PICK fs \in Sendable :
            /\ UpdateAllows(Tree(fs))
            /\ mainTree' = Tree(fs) /\ promised' = DOMAIN fs /\ mainUnjudged' = FALSE
            /\ UNCHANGED <<draftTree, draftUnjudged>>
    BY <1>8 DEF WebReplace
  <2>2. PICK S \in SUBSET {p \in Authored : ShapeOf[p] # "dotted"} : fs \in [S -> Contents]
    BY DEF Sendable, FileSets
  <2>3. DOMAIN fs \subseteq Authored /\ \A p \in DOMAIN fs : fs[p] \in Contents BY <2>2
  <2>4. /\ TypedTree(Tree(fs)) /\ AuthoredOf(Tree(fs)) = DOMAIN fs
    BY <2>3 DEF TypedTree, Tree, AuthoredOf, Authored
  <2> QED BY <2>1, <2>4, MainJudged
<1>9. CASE MergeBranch
  <2>1. PICK fs : /\ \/ fs = draftTree.files
                     \/ standing # "ahead" /\ fs \in Merges(mainTree.files, draftTree.files)
                  /\ UpdateAllows(Tree(fs))
                  /\ mainTree' = Tree(fs) /\ promised' = DOMAIN fs \cap Authored
    BY <1>9 DEF MergeBranch
  <2>2. /\ mainUnjudged' = FALSE /\ draftTree' = draftTree /\ draftTree # NoTree
        /\ \/ draftUnjudged' = draftUnjudged
           \/ standing = "ahead" /\ draftUnjudged' = FALSE
    BY <1>9, Zenon DEF MergeBranch
  <2>3. AuthoredOf(Tree(fs)) = DOMAIN fs \cap Authored BY DEF AuthoredOf, Tree
  <2>4. TypedTree(Tree(fs))
    <3>1. CASE fs = draftTree.files BY <1>0, <3>1 DEF TypedTree, Tree, AuthoredOf
    <3>2. CASE fs \in Merges(mainTree.files, draftTree.files) BY <1>0, <3>2, MergesTyped
    <3> QED BY <2>1, <3>1, <3>2
  <2>5. CASE draftUnjudged' = draftUnjudged BY <2>1, <2>2, <2>3, <2>4, <2>5, MainJudged
  <2>6. CASE standing = "ahead" /\ draftUnjudged' = FALSE
    <3>1. draftTree = Tree(fs) BY <2>1, <2>2, <2>6 DEF TreeInv, TypedTree, Tree
    <3>2. GoodTree(draftTree) BY <1>0, <2>1, <3>1, DoorsAgree
    <3>3. GoodMain'
      BY <2>1, <3>1, <3>2 DEF GoodMain, GoodTree, PathsAllowed, Regular, TextOnly, AuthoredOf
    <3>4. GoodDraft'
      BY <2>2, <3>2 DEF GoodDraft, GoodTree, PathsAllowed, Regular, TextOnly, AuthoredOf
    <3>5. promised' \subseteq AuthoredOf(mainTree') BY <2>1, <2>3
    <3> QED BY <2>1, <2>2, <2>6, <3>1, <3>3, <3>4, <3>5 DEF TreeInv, TypedTree, AuthoredOf
  <2> QED BY <2>2, <2>5, <2>6
<1>10. CASE UpdateBranch
  <2>1. UNCHANGED <<mainTree, promised, mainUnjudged>> BY <1>10 DEF UpdateBranch
  <2>2. CASE draftTree' = mainTree /\ draftUnjudged' = mainUnjudged
    <3>1. draftUnjudged' \in BOOLEAN /\ (draftUnjudged' \/ GoodTree(mainTree)) /\ mainTree.canon
      BY <2>2 DEF TreeInv, GoodMain
    <3> QED BY <1>0, <2>1, <2>2, <3>1, DraftMoves
  <2>3. CASE /\ \E fs \in Merges(draftTree.files, mainTree.files) : draftTree' = Tree(fs)
             /\ draftUnjudged' = TRUE
    <3>1. PICK fs \in Merges(draftTree.files, mainTree.files) : draftTree' = Tree(fs) BY <2>3
    <3>2. TypedTree(Tree(fs)) /\ Tree(fs).canon BY <1>0, MergesTyped DEF Tree
    <3> QED BY <2>1, <2>3, <3>1, <3>2, DraftMoves
  <2> QED BY <1>10, <2>2, <2>3 DEF UpdateBranch
<1>11. CASE UNCHANGED treeVars
  BY <1>11 DEF treeVars, TreeInv, GoodMain, GoodDraft, GoodTree, TypedTree, PathsAllowed, Regular,
               TextOnly, AuthoredOf
<1> QED
  BY <1>1, <1>2, <1>3, <1>4, <1>5, <1>6, <1>7, <1>8, <1>9, <1>10, <1>11 DEF TreeNext

\* A main that is good for both doors stays writable by both.
LEMMA GoodIsWritable ==
    ASSUME PathsAreFinite, TreeInv
    PROVE  AuthoredFilesAreSafe
<1> USE DEF TreeInv
<1>1. FilesAreKept BY DEF FilesAreKept, AuthoredOf
<1>2. ASSUME ~mainUnjudged PROVE MainStaysWritable
  <2>1. GoodTree(mainTree) BY <1>2 DEF GoodMain
  <2>2. Listed(mainTree) => HookAllows(mainTree, TRUE)
    BY <2>1 DEF GoodTree, HookAllows, HookJudges
  <2>3. ASSUME Weight(mainTree.files) <= MaxTreeBytes PROVE UpdateAllows(Carried(mainTree))
    <3> DEFINE c == Carried(mainTree)
    <3>1. /\ TypedTree(c) /\ c.canon = TRUE
          /\ DOMAIN c.files = AuthoredOf(mainTree)
          /\ AuthoredOf(c) = AuthoredOf(mainTree)
          /\ \A p \in AuthoredOf(mainTree) : c.files[p] = mainTree.files[p]
      BY CarriedIs
    <3>2. GoodTree(c) BY <2>1, CarriedIsGood
    <3> HIDE DEF c
    <3>3. Weight(c.files) = Weight(mainTree.files) BY <3>1, SameFilesSameSums
    <3>4. UpdateAllows(c)
      BY <2>3, <3>1, <3>2, <3>3 DEF UpdateAllows, TallyFits, GoodTree, AuthoredOf
    <3> QED BY <3>4 DEF c
  <2> QED BY <2>2, <2>3 DEF MainStaysWritable
<1> QED BY <1>1, <1>2 DEF AuthoredFilesAreSafe, JudgedMainStaysWritable

\* Whoever wrote main, both doors let its next writer in, unless a push put a merge
\* of update_branch there and no door has judged main since; and nobody loses an
\* author's file in passing: of any finite set of paths, of any files, under any
\* limits.
THEOREM FilesAreSafe ==
    ASSUME PathsAreFinite
    PROVE  TreeSpec => []AuthoredFilesAreSafe
<1>1. TreeInit => TreeInv BY TreeStarts
<1>2. TreeInv /\ [TreeNext]_treeVars => TreeInv' BY TreeKeeps
<1>3. TreeInv => AuthoredFilesAreSafe BY GoodIsWritable
<1> QED BY <1>1, <1>2, <1>3, PTL DEF TreeSpec

-----------------------------------------------------------------------------
(* The write gate: questions *)

\* Bytes adds up the texts of a question.
LEMMA BytesAre ==
    ASSUME NEW q \in Seq(Texts)
    PROVE  \E f \in [0..Len(q) -> Nat] :
              /\ Bytes(q) = f[Len(q)] /\ f[0] = 0
              /\ \A i \in 1..Len(q) : f[i] = f[i - 1] + SizeOf[q[i]]
<1> DEFINE n == Len(q)
           Body(f, i) == IF i = 0 THEN 0 ELSE f[i - 1] + SizeOf[q[i]]
           Is(f) == f = [i \in 0..n |-> Body(f, i)]
           G == [z \in (1..n) \X Nat |-> z[2] + SizeOf[q[z[1]]]]
<1>0. n \in Nat /\ \A i \in 1..n : q[i] \in Texts /\ SizeOf[q[i]] \in Nat
  <2>1. ASSUME NEW i \in 1..n PROVE q[i] \in Texts BY ElementOfSeq
  <2>2. \A y \in Texts : SizeOf[y] \in Nat BY GateAssumption
  <2> QED BY <2>1, <2>2, LenProperties
<1>1. StaysIn(n, Nat, G) BY <1>0 DEF StaysIn
<1>2. \A i \in 1..n : \A v \in Nat : G[<<i, v>>] = v + SizeOf[q[i]] OBVIOUS
<1> HIDE DEF G
<1>3. PICK h \in [0..n -> Nat] : h[0] = 0 /\ \A i \in 1..n : h[i] = G[<<i, h[i - 1]>>]
  <2>1. 0 \in Nat /\ n \in Nat BY <1>0
  <2> HIDE DEF n
  <2>2. \E h : IsRun(n, Nat, 0, G, h) BY <1>1, <2>1, LoopRuns, Zenon
  <2> QED BY <2>2 DEF IsRun
<1>4. Is(h)
  <2>1. ASSUME NEW i \in 0..n PROVE h[i] = Body(h, i)
    <3>1. CASE i = 0 BY <1>3, <3>1
    <3>2. CASE i # 0
      <4>1. i \in 1..n /\ i - 1 \in 0..n BY <1>0, <3>2
      <4>2. h[i - 1] \in Nat BY <4>1
      <4> QED BY <1>2, <1>3, <3>2, <4>1, <4>2
    <3> QED BY <3>1, <3>2
  <2> HIDE DEF Body
  <2>2. [i \in 0..n |-> h[i]] = [i \in 0..n |-> Body(h, i)] BY <2>1, Zenon
  <2> QED BY <2>2
<1> DEFINE f == CHOOSE f : Is(f)
<1>5. Is(f) BY <1>4, Zenon
<1>6. Bytes(q) = f[n] BY DEF Bytes
<1> HIDE DEF f
<1>7. f[0] = 0 /\ \A i \in 1..n : f[i] = f[i - 1] + SizeOf[q[i]] BY <1>0, <1>5
<1> DEFINE S == {k \in Nat : k <= n => f[k] \in Nat}
<1>8. \A k \in Nat : k \in S
  <2>1. 0 \in S BY <1>7
  <2>2. ASSUME NEW k \in Nat, k \in S PROVE k + 1 \in S
    <3> SUFFICES ASSUME k + 1 <= n PROVE f[k + 1] \in Nat OBVIOUS
    <3>1. k + 1 \in 1..n /\ (k + 1) - 1 = k BY <1>0
    <3>2. f[k + 1] = f[k] + SizeOf[q[k + 1]] BY <1>7, <3>1
    <3>3. f[k] \in Nat BY <2>2, <1>0
    <3> QED BY <1>0, <3>1, <3>2, <3>3
  <2> HIDE DEF S
  <2> QED BY <2>1, <2>2, Upwards
<1>9. f \in [0..n -> Nat]
  <2>1. \A k \in 0..n : f[k] \in Nat BY <1>0, <1>8
  <2>2. DOMAIN f = 0..n /\ f = [k \in 0..n |-> f[k]] BY <1>5
  <2> HIDE DEF Is
  <2> QED BY <2>1, <2>2
<1> HIDE DEF Is
<1> QED BY <1>6, <1>7, <1>9

\* A text more is its bytes more.
LEMMA BytesGrow ==
    ASSUME NEW q \in Seq(Texts), NEW x \in Texts
    PROVE  Bytes(q) \in Nat /\ Bytes(Append(q, x)) = Bytes(q) + SizeOf[x]
<1> DEFINE n == Len(q)
           r == Append(q, x)
<1>0. /\ n \in Nat /\ r \in Seq(Texts) /\ Len(r) = n + 1 /\ r[n + 1] = x
      /\ \A i \in 1..n : r[i] = q[i]
  OBVIOUS
<1> HIDE DEF r
<1>1. PICK f \in [0..n -> Nat] :
          /\ Bytes(q) = f[n] /\ f[0] = 0
          /\ \A i \in 1..n : f[i] = f[i - 1] + SizeOf[q[i]]
  BY BytesAre
<1>2. PICK g \in [0..(n + 1) -> Nat] :
          /\ Bytes(r) = g[n + 1] /\ g[0] = 0
          /\ \A i \in 1..(n + 1) : g[i] = g[i - 1] + SizeOf[r[i]]
  BY <1>0, BytesAre, SMTT(60)
<1> DEFINE S == {k \in Nat : k <= n => g[k] = f[k]}
<1>3. \A k \in Nat : k \in S
  <2>1. 0 \in S BY <1>1, <1>2
  <2>2. ASSUME NEW k \in Nat, k \in S PROVE k + 1 \in S
    <3> SUFFICES ASSUME k + 1 <= n PROVE g[k + 1] = f[k + 1] OBVIOUS
    <3>1. k + 1 \in 1..n /\ k + 1 \in 1..(n + 1) /\ (k + 1) - 1 = k BY <1>0
    <3>2. g[k + 1] = g[k] + SizeOf[r[k + 1]] BY <1>2, <3>1
    <3>3. f[k + 1] = f[k] + SizeOf[q[k + 1]] BY <1>1, <3>1
    <3>4. g[k] = f[k] /\ r[k + 1] = q[k + 1] BY <1>0, <2>2, <3>1
    <3> QED BY <3>2, <3>3, <3>4
  <2> HIDE DEF S
  <2> QED BY <2>1, <2>2, Upwards
<1>4. g[n] = f[n] BY <1>0, <1>3, SMTT(60)
<1>5. n + 1 \in 1..(n + 1) /\ (n + 1) - 1 = n BY <1>0
<1>6. g[n + 1] = g[n] + SizeOf[x] BY <1>0, <1>2, <1>5
<1>7. f[n] \in Nat BY <1>0
<1> QED BY <1>1, <1>2, <1>4, <1>6, <1>7 DEF r

\* Portions that carry the texts of T, none larger than a question may be.
Fits(q) == Bytes(q) <= MaxBytes \/ Len(q) = 1
GoodPortions(ps, T) ==
    /\ ps \in Seq(Seq(Texts))
    /\ \A i \in 1..Len(ps) : Fits(ps[i])
    /\ UNION {ToSet(ps[i]) : i \in 1..Len(ps)} = T

\* One turn of text_portions adds its text and keeps the portions good.
LEMMA TextIsAdded ==
    ASSUME NEW ps, NEW T, GoodPortions(ps, T), NEW x \in Texts
    PROVE  GoodPortions(WithText(ps, x), T \cup {x})
<1> USE DEF GoodPortions
<1>1. CASE ps # <<>> /\ FitsIn(Last(ps), x)
  <2> DEFINE n == Len(ps)
             q == ps[n]
             r == Append(q, x)
             rs == Append(Front(ps), r)
  <2>1. n \in Nat /\ n # 0 /\ n \in 1..n /\ q \in Seq(Texts) BY <1>1
  <2>2. WithText(ps, x) = rs BY <1>1 DEF WithText, Last
  <2>3. /\ Front(ps) \in Seq(Seq(Texts)) /\ Len(Front(ps)) = n - 1
        /\ \A i \in 1..(n - 1) : Front(ps)[i] = ps[i]
    <3>1. \A i \in 1..(n - 1) : ps[i] \in Seq(Texts) BY <2>1
    <3>2. /\ SubSeq(ps, 1, n - 1) \in Seq(Seq(Texts))
          /\ Len(SubSeq(ps, 1, n - 1)) = IF 1 <= n - 1 THEN (n - 1) - 1 + 1 ELSE 0
          /\ \A i \in 1..((n - 1) - 1 + 1) : SubSeq(ps, 1, n - 1)[i] = ps[1 + i - 1]
      BY <2>1, <3>1, SubSeqProperties
    <3>3. (n - 1) - 1 + 1 = n - 1 /\ \A i \in 1..(n - 1) : 1 + i - 1 = i BY <2>1
    <3> HIDE DEF n
    <3> QED BY <2>1, <3>2, <3>3 DEF Front, n
  <2>4. r \in Seq(Texts) BY <2>1
  <2>5. Bytes(r) <= MaxBytes BY <1>1, <2>1, BytesGrow DEF FitsIn, Last
  <2>6. ToSet(r) = ToSet(q) \cup {x}
    <3>1. Len(r) = Len(q) + 1 /\ DOMAIN r = 1..(Len(q) + 1) /\ DOMAIN q = 1..Len(q) BY <2>1, <2>4
    <3>2. r[Len(q) + 1] = x /\ \A i \in 1..Len(q) : r[i] = q[i] BY <2>1
    <3>3. Len(q) \in Nat BY <2>1
    <3> HIDE DEF r, q
    <3> QED BY <3>1, <3>2, <3>3 DEF ToSet
  <2> HIDE DEF r
  <2>7. /\ rs \in Seq(Seq(Texts)) /\ Len(rs) = n /\ rs[n] = r
        /\ \A i \in 1..(n - 1) : rs[i] = ps[i]
    <3> DEFINE fr == Front(ps)
    <3>1. n \in Nat \ {0} BY <2>1
    <3>2. fr \in Seq(Seq(Texts)) /\ Len(fr) = n - 1 BY <2>3
    <3>3. \A i \in 1..(n - 1) : fr[i] = ps[i] BY <2>3
    <3>4. rs = Append(fr, r) OBVIOUS
    <3> HIDE DEF fr, rs, n
    <3>5. rs \in Seq(Seq(Texts)) /\ Len(rs) = n BY <2>4, <3>1, <3>2, <3>4, SMTT(30)
    <3>6. rs[n] = r BY <2>4, <3>1, <3>2, <3>4, SMTT(30)
    <3>7. \A i \in 1..(n - 1) : rs[i] = fr[i] BY <2>4, <3>1, <3>2, <3>4, SMTT(30)
    <3> QED BY <3>3, <3>5, <3>6, <3>7
  <2> HIDE DEF rs
  <2>8. ASSUME NEW i \in 1..n PROVE Fits(rs[i])
    <3>1. CASE i = n BY <2>5, <2>7, <3>1 DEF Fits
    <3>2. CASE i # n
      <4>1. i \in 1..(n - 1) BY <2>1, <3>2
      <4> QED BY <2>7, <4>1
    <3> QED BY <3>1, <3>2
  <2>9. UNION {ToSet(rs[i]) : i \in 1..n} = T \cup {x}
    <3>1. \A i \in 1..n : i = n \/ (i \in 1..(n - 1) /\ rs[i] = ps[i]) BY <2>1, <2>7
    <3>2. \A i \in 1..n : ToSet(rs[i]) = ToSet(ps[i]) \cup (IF i = n THEN {x} ELSE {})
      BY <2>6, <2>7, <3>1
    <3> HIDE DEF n, q
    <3>3. n \in 1..n BY <2>1
    <3>4. UNION {ToSet(ps[i]) : i \in 1..n} = T BY DEF n
    <3> HIDE DEF GoodPortions
    <3>5. ASSUME NEW y \in UNION {ToSet(rs[i]) : i \in 1..n} PROVE y \in T \cup {x}
      <4>1. PICK i \in 1..n : y \in ToSet(rs[i]) OBVIOUS
      <4>2. y \in ToSet(ps[i]) \/ y = x BY <3>2, <4>1
      <4> QED BY <3>4, <4>2
    <3>6. ASSUME NEW y \in T PROVE y \in UNION {ToSet(rs[i]) : i \in 1..n}
      <4>1. PICK i \in 1..n : y \in ToSet(ps[i]) BY <3>4
      <4>2. y \in ToSet(rs[i]) BY <3>2, <4>1
      <4> QED BY <4>2
    <3>7. x \in ToSet(rs[n]) BY <3>2, <3>3
    <3> QED BY <3>3, <3>5, <3>6, <3>7
  <2> QED BY <2>2, <2>7, <2>8, <2>9
<1>2. CASE ~(ps # <<>> /\ FitsIn(Last(ps), x))
  <2> DEFINE n == Len(ps)
             rs == Append(ps, <<x>>)
  <2>1. WithText(ps, x) = rs BY <1>2 DEF WithText
  <2>2. n \in Nat /\ <<x>> \in Seq(Texts) OBVIOUS
  <2>3. /\ rs \in Seq(Seq(Texts)) /\ Len(rs) = n + 1 /\ rs[n + 1] = <<x>>
        /\ \A i \in 1..n : rs[i] = ps[i]
    BY <2>2
  <2> HIDE DEF rs
  <2>4. ToSet(<<x>>) = {x} BY DEF ToSet
  <2>5. ASSUME NEW i \in 1..(n + 1) PROVE Fits(rs[i])
    <3>1. CASE i = n + 1 BY <2>3, <3>1 DEF Fits
    <3>2. CASE i # n + 1
      <4>1. i \in 1..n BY <2>2, <3>2
      <4> QED BY <2>3, <4>1
    <3> QED BY <3>1, <3>2
  <2>6. UNION {ToSet(rs[i]) : i \in 1..(n + 1)} = T \cup {x}
    <3>1. \A i \in 1..(n + 1) : i = n + 1 \/ i \in 1..n BY <2>2
    <3>2. n + 1 \in 1..(n + 1) /\ 1..n \subseteq 1..(n + 1) BY <2>2
    <3>3. \A i \in 1..n : ToSet(rs[i]) = ToSet(ps[i]) BY <2>3
    <3>4. ToSet(rs[n + 1]) = {x} BY <2>3, <2>4
    <3>5. UNION {ToSet(ps[i]) : i \in 1..n} = T OBVIOUS
    <3> HIDE DEF n
    <3> QED BY <3>1, <3>2, <3>3, <3>4, <3>5, ZenonT(60)
  <2> QED BY <2>1, <2>3, <2>5, <2>6
<1> QED BY <1>1, <1>2

\* The portions carry all texts, and none is larger than a question may be.
LEMMA PortionsAreGood ==
    ASSUME NEW texts \in Seq(Texts)
    PROVE  GoodPortions(Portions(texts), ToSet(texts))
<1> DEFINE n == Len(texts)
           V == Seq(Seq(Texts))
           Body(f, i) == IF i = 0 THEN <<>> ELSE WithText(f[i - 1], texts[i])
           Is(f) == f = [i \in 0..n |-> Body(f, i)]
           G == [z \in (1..n) \X V |-> WithText(z[2], texts[z[1]])]
           Upto(k) == {texts[i] : i \in 1..k}
<1>0. n \in Nat /\ \A i \in 1..n : texts[i] \in Texts
  <2>1. ASSUME NEW i \in 1..n PROVE texts[i] \in Texts BY ElementOfSeq
  <2> QED BY <2>1, LenProperties
<1>1. \A i \in 1..n : \A v \in V : G[<<i, v>>] = WithText(v, texts[i]) OBVIOUS
<1> HIDE DEF G
<1>2. <<>> \in V OBVIOUS
<1> HIDE DEF V
<1>3. \A x \in Texts : \A ps \in V : WithText(ps, x) \in V
  <2> SUFFICES ASSUME NEW x \in Texts, NEW ps \in V PROVE WithText(ps, x) \in V OBVIOUS
  <2>1. CASE ps # <<>>
    <3> DEFINE m == Len(ps)
    <3>1. m \in Nat /\ m # 0 /\ ps[m] \in Seq(Texts) /\ \A i \in 1..m : ps[i] \in Seq(Texts)
      BY <2>1 DEF V
    <3>2. Append(Last(ps), x) \in Seq(Texts) BY <3>1 DEF Last
    <3>3. \A i \in 1..(m - 1) : ps[i] \in Seq(Texts) BY <3>1
    <3>4. m - 1 \in Int BY <3>1
    <3> HIDE DEF m
    <3>5. SubSeq(ps, 1, m - 1) \in V BY <3>3, <3>4, SubSeqProperties DEF V
    <3> QED BY <3>2, <3>5 DEF WithText, Front, V, m
  <2>2. CASE ps = <<>> BY <2>2 DEF WithText, V
  <2> QED BY <2>1, <2>2
<1>4. StaysIn(n, V, G) BY <1>0, <1>1, <1>3 DEF StaysIn
<1>5. PICK h : IsRun(n, V, <<>>, G, h)
  <2>1. n \in Nat BY <1>0
  <2> HIDE DEF n
  <2> QED BY <1>2, <1>4, <2>1, LoopRuns, Zenon
<1>6. Is(h)
  <2>1. ASSUME NEW i \in 0..n PROVE h[i] = Body(h, i)
    <3>1. CASE i = 0 BY <1>5, <3>1 DEF IsRun
    <3>2. CASE i # 0
      <4>1. i \in 1..n /\ i - 1 \in 0..n BY <1>0, <3>2
      <4>2. h[i - 1] \in V /\ h[i] = G[<<i, h[i - 1]>>] BY <1>5, <4>1 DEF IsRun
      <4> QED BY <1>1, <3>2, <4>1, <4>2
    <3> QED BY <3>1, <3>2
  <2>2. h = [i \in 0..n |-> h[i]] BY <1>5 DEF IsRun
  <2> HIDE DEF Body
  <2>3. [i \in 0..n |-> h[i]] = [i \in 0..n |-> Body(h, i)] BY <2>1, Zenon
  <2> QED BY <2>2, <2>3
<1> DEFINE f == CHOOSE f : Is(f)
<1>7. Is(f) BY <1>6, Zenon
<1>8. Portions(texts) = f[n] BY DEF Portions
<1> HIDE DEF f
<1>9. f[0] = <<>> /\ \A i \in 1..n : f[i] = WithText(f[i - 1], texts[i]) BY <1>0, <1>7
<1> HIDE DEF Is
<1> DEFINE S == {k \in Nat : k <= n => GoodPortions(f[k], Upto(k))}
<1>10. 0 \in S
  <2>1. Upto(0) = {} OBVIOUS
  <2>2. GoodPortions(<<>>, {}) BY DEF GoodPortions
  <2> HIDE DEF Upto
  <2> QED BY <1>9, <2>1, <2>2
<1>11. ASSUME NEW k \in Nat, k \in S PROVE k + 1 \in S
  <2> SUFFICES ASSUME k + 1 <= n PROVE GoodPortions(f[k + 1], Upto(k + 1)) OBVIOUS
  <2>1. k + 1 \in 1..n /\ (k + 1) - 1 = k /\ k <= n BY <1>0
  <2>2. f[k + 1] = WithText(f[k], texts[k + 1]) BY <1>9, <2>1
  <2>3. Upto(k + 1) = Upto(k) \cup {texts[k + 1]}
    <3>1. \A i \in 1..(k + 1) : i = k + 1 \/ i \in 1..k OBVIOUS
    <3>2. k + 1 \in 1..(k + 1) /\ 1..k \subseteq 1..(k + 1) OBVIOUS
    <3> QED BY <3>1, <3>2
  <2>4. GoodPortions(f[k], Upto(k)) /\ texts[k + 1] \in Texts BY <1>0, <1>11, <2>1
  <2> HIDE DEF Upto
  <2> QED BY <2>2, <2>3, <2>4, TextIsAdded
<1> HIDE DEF S
<1>12. \A k \in Nat : k \in S BY <1>10, <1>11, Upwards
<1>13. GoodPortions(f[n], Upto(n))
  <2>1. n \in S /\ n <= n BY <1>0, <1>12
  <2> HIDE DEF Upto
  <2> QED BY <2>1 DEF S
<1>14. Upto(n) = ToSet(texts) BY DEF ToSet
<1> QED BY <1>8, <1>13, <1>14

-----------------------------------------------------------------------------
(* The write gate: order *)

\* A finite set has a last element, in any order of its elements.
IsOrder(R, S) ==
    /\ \A x, y \in S : x # y => <<x, y>> \in R \/ <<y, x>> \in R
    /\ \A x, y, z \in S : <<x, y>> \in R /\ <<y, z>> \in R => <<x, z>> \in R
IsLast(R, T, m) == m \in T /\ \A x \in T \ {m} : <<x, m>> \in R
LEMMA LastExists ==
    ASSUME NEW S, NEW R, IsOrder(R, S), NEW T \in SUBSET S, IsFiniteSet(T), T # {}
    PROVE  \E m : IsLast(R, T, m)
<1> DEFINE Ok(k) == \A U \in SUBSET T : Cardinality(U) = k /\ U # {} => \E m : IsLast(R, U, m)
           N == {k \in Nat : Ok(k)}
<1>1. \A U \in SUBSET T : IsFiniteSet(U) /\ Cardinality(U) \in Nat /\ (Cardinality(U) = 0 <=> U = {})
  BY FS_Subset, FS_CardinalityType, FS_EmptySet
<1>2. 0 \in N BY <1>1
<1>3. ASSUME NEW k \in Nat, k \in N PROVE k + 1 \in N
  <2> SUFFICES ASSUME NEW U \in SUBSET T, Cardinality(U) = k + 1, U # {}
               PROVE  \E m : IsLast(R, U, m)
    OBVIOUS
  <2>1. PICK x \in U : TRUE OBVIOUS
  <2> DEFINE W == U \ {x}
  <2>2. W \in SUBSET T /\ Cardinality(W) = k
    <3>1. IsFiniteSet(U) BY <1>1
    <3>2. Cardinality(W) = Cardinality(U) - 1 BY <2>1, <3>1, FS_RemoveElement
    <3> QED BY <3>2
  <2>3. CASE W = {} BY <2>1, <2>3 DEF IsLast
  <2>4. CASE W # {}
    <3>1. PICK m : IsLast(R, W, m) BY <1>3, <2>2, <2>4
    <3>2. m \in S /\ x \in S /\ m # x BY <2>1, <2>2, <3>1 DEF IsLast
    <3>3. CASE <<x, m>> \in R
      <4>1. IsLast(R, U, m) BY <3>1, <3>3 DEF IsLast
      <4> QED BY <4>1
    <3>4. CASE <<m, x>> \in R
      <4>1. IsLast(R, U, x)
        <5> SUFFICES ASSUME NEW y \in U \ {x} PROVE <<y, x>> \in R BY <2>1 DEF IsLast
        <5>1. y = m \/ <<y, m>> \in R BY <3>1 DEF IsLast
        <5>2. y \in S OBVIOUS
        <5> QED BY <3>2, <3>4, <5>1, <5>2 DEF IsOrder
      <4> QED BY <4>1
    <3> QED BY <3>2, <3>3, <3>4 DEF IsOrder
  <2> QED BY <2>3, <2>4
<1> HIDE DEF N
<1>4. \A k \in Nat : k \in N BY <1>2, <1>3, Upwards
<1>5. Cardinality(T) \in Nat /\ T \in SUBSET T BY <1>1
<1>6. Ok(Cardinality(T)) BY <1>4, <1>5 DEF N
<1> QED BY <1>5, <1>6

\* A finite set can be put in order.
Enumerates(R, n, S, s) == s \in [1..n -> S] /\ \A i, j \in 1..n : i < j => <<s[i], s[j]>> \in R
LEMMA SortExists ==
    ASSUME NEW S, NEW R, IsOrder(R, S), IsFiniteSet(S)
    PROVE  \E s : Enumerates(R, Cardinality(S), S, s)
<1> DEFINE Ok(k) == \A T \in SUBSET S : Cardinality(T) = k => \E s : Enumerates(R, k, T, s)
           N == {k \in Nat : Ok(k)}
<1>1. \A T \in SUBSET S : IsFiniteSet(T) /\ Cardinality(T) \in Nat /\ (Cardinality(T) = 0 <=> T = {})
  BY FS_Subset, FS_CardinalityType, FS_EmptySet
<1>2. 0 \in N
  <2> SUFFICES ASSUME NEW T \in SUBSET S, Cardinality(T) = 0 PROVE \E s : Enumerates(R, 0, T, s)
    OBVIOUS
  <2>1. Enumerates(R, 0, T, [i \in 1..0 |-> {}]) BY DEF Enumerates
  <2> QED BY <2>1
<1>3. ASSUME NEW k \in Nat, k \in N PROVE k + 1 \in N
  <2> SUFFICES ASSUME NEW T \in SUBSET S, Cardinality(T) = k + 1
               PROVE  \E s : Enumerates(R, k + 1, T, s)
    OBVIOUS
  <2>1. T # {} BY <1>1
  <2>2. PICK m : IsLast(R, T, m) BY <1>1, <2>1, LastExists
  <2>3. m \in T BY <2>2 DEF IsLast
  <2> DEFINE W == T \ {m}
  <2>4. W \in SUBSET S /\ Cardinality(W) = k
    <3>1. IsFiniteSet(T) BY <1>1
    <3>2. Cardinality(W) = Cardinality(T) - 1 BY <2>3, <3>1, FS_RemoveElement
    <3> QED BY <3>2
  <2>5. PICK s : Enumerates(R, k, W, s) BY <1>3, <2>4
  <2> DEFINE r == [i \in 1..(k + 1) |-> IF i = k + 1 THEN m ELSE s[i]]
  <2>6. \A i \in 1..(k + 1) : i = k + 1 \/ i \in 1..k OBVIOUS
  <2>7. r \in [1..(k + 1) -> T] BY <2>3, <2>5, <2>6 DEF Enumerates
  <2>8. ASSUME NEW i \in 1..(k + 1), NEW j \in 1..(k + 1), i < j PROVE <<r[i], r[j]>> \in R
    <3>1. i \in 1..k /\ r[i] = s[i] /\ s[i] \in W BY <2>5, <2>8 DEF Enumerates
    <3>2. CASE j = k + 1 BY <2>2, <3>1, <3>2 DEF IsLast
    <3>3. CASE j \in 1..k
      <4>1. r[j] = s[j] BY <3>3
      <4> QED BY <2>5, <2>8, <3>1, <3>3, <4>1 DEF Enumerates
    <3> QED BY <2>6, <3>2, <3>3
  <2> HIDE DEF r
  <2>9. Enumerates(R, k + 1, T, r) BY <2>7, <2>8 DEF Enumerates
  <2> QED BY <2>9
<1> HIDE DEF N
<1>4. \A k \in Nat : k \in N BY <1>2, <1>3, Upwards
<1>5. Cardinality(S) \in Nat /\ S \in SUBSET S BY <1>1
<1>6. Ok(Cardinality(S)) BY <1>4, <1>5 DEF N
<1> QED BY <1>5, <1>6

-----------------------------------------------------------------------------
(* The write gate: history *)

\* A tree holds finitely many files.
TextsAreFinite == IsFiniteSet(Texts)

HistoryTypes ==
    /\ trees \in [Commits -> SUBSET Texts]
    /\ parents \in [Commits -> SUBSET Commits]
    /\ \A c \in Commits : parents[c] \subseteq 1..(c - 1)
    /\ main \in 0..MaxCommit

\* Ancestry goes up through the parents.
LEMMA AncestryIs ==
    ASSUME HistoryTypes
    PROVE  /\ \A c \in 0..MaxCommit : Ancestry(c) \subseteq 1..c
           /\ \A c \in Commits : Ancestry(c) = {c} \cup UNION {Ancestry(e) : e \in parents[c]}
<1> USE GateAssumption DEF Commits
<1> DEFINE n == MaxCommit
           Body(g, d) == IF d = 0 THEN {} ELSE {d} \cup UNION {g[e] : e \in parents[d]}
           Is(g) == g = [d \in 0..n |-> Body(g, d)]
           Good(g, k) == \A d \in 0..n : d <= k => g[d] = Body(g, d)
           Ok(k) == \E g : g = [d \in 0..n |-> g[d]] /\ Good(g, k)
           S == {k \in Nat : Ok(k)}
<1>0. n \in Nat /\ \A d \in 1..n : \A e \in parents[d] : e \in 0..n /\ e < d
  BY DEF HistoryTypes
<1>1. Ok(0)
  <2> DEFINE g == [d \in 0..n |-> {}]
  <2>1. g = [d \in 0..n |-> g[d]] /\ Good(g, 0) BY <1>0
  <2> HIDE DEF g
  <2> QED BY <2>1
<1>2. ASSUME NEW k \in Nat, Ok(k) PROVE Ok(k + 1)
  <2>1. PICK g : g = [d \in 0..n |-> g[d]] /\ Good(g, k) BY <1>2
  <2> DEFINE h == [d \in 0..n |-> Body(g, d)]
  <2>2. h = [d \in 0..n |-> h[d]] /\ \A d \in 0..n : h[d] = Body(g, d) OBVIOUS
  <2> HIDE DEF h
  <2>3. Good(h, k + 1)
    <3> SUFFICES ASSUME NEW d \in 0..n, d <= k + 1 PROVE h[d] = Body(h, d) OBVIOUS
    <3>1. CASE d = 0 BY <2>2, <3>1
    <3>2. CASE d # 0
      <4>1. ASSUME NEW e \in parents[d] PROVE h[e] = g[e]
        <5>1. d \in 1..n BY <3>2, <1>0
        <5>2. e \in 0..n /\ e < d BY <1>0, <5>1
        <5>3. e <= k BY <1>0, <5>1, <5>2
        <5> HIDE DEF Body
        <5> QED BY <2>1, <2>2, <5>2, <5>3
      <4>2. {h[e] : e \in parents[d]} = {g[e] : e \in parents[d]} BY <4>1
      <4> QED BY <2>2, <3>2, <4>2
    <3> QED BY <3>1, <3>2
  <2> QED BY <2>2, <2>3
<1>3. Ok(n)
  <2> HIDE DEF Ok
  <2>1. 0 \in S /\ \A k \in Nat : k \in S => k + 1 \in S BY <1>1, <1>2
  <2> HIDE DEF S
  <2>2. \A k \in Nat : k \in S BY <2>1, Upwards
  <2> QED BY <1>0, <2>2 DEF S
<1>4. \E g : Is(g)
  <2>1. PICK g : g = [d \in 0..n |-> g[d]] /\ Good(g, n) BY <1>3
  <2>2. ASSUME NEW d \in 0..n PROVE g[d] = Body(g, d)
    <3>1. d <= n OBVIOUS
    <3> HIDE DEF Body
    <3> QED BY <2>1, <3>1
  <2> HIDE DEF Body
  <2>3. [d \in 0..n |-> g[d]] = [d \in 0..n |-> Body(g, d)] BY <2>2, Zenon
  <2> QED BY <2>1, <2>3, Zenon
<1> DEFINE up == CHOOSE g : Is(g)
<1>5. Is(up) BY <1>4, Zenon
<1>6. \A c : Ancestry(c) = up[c] BY DEF Ancestry
<1> HIDE DEF up
<1>7. /\ up[0] = {}
      /\ \A d \in 1..n : up[d] = {d} \cup UNION {up[e] : e \in parents[d]}
  <2>1. \A d \in 0..n : up[d] = Body(up, d)
    <3> HIDE DEF Body
    <3> QED BY <1>5
  <2>2. up[0] = {}
    <3>1. 0 \in 0..n /\ Body(up, 0) = {} BY <1>0
    <3> HIDE DEF Body
    <3> QED BY <2>1, <3>1
  <2>3. ASSUME NEW d \in 1..n PROVE up[d] = {d} \cup UNION {up[e] : e \in parents[d]}
    <3>1. d \in 0..n /\ d # 0 BY <1>0
    <3>2. up[d] = Body(up, d) BY <2>1, <3>1
    <3>3. Body(up, d) = {d} \cup UNION {up[e] : e \in parents[d]} BY <3>1
    <3> HIDE DEF Body
    <3> QED BY <3>2, <3>3
  <2> QED BY <2>2, <2>3
<1> DEFINE B == {k \in Nat : \A d \in 0..n : d <= k => up[d] \subseteq 1..d}
<1>8. 0 \in B BY <1>0, <1>7
<1>9. ASSUME NEW k \in Nat, k \in B PROVE k + 1 \in B
  <2> SUFFICES ASSUME NEW d \in 0..n, d = k + 1, NEW x \in up[d] PROVE x \in 1..d
    <3>1. \A d \in 0..n : d <= k + 1 => d <= k \/ d = k + 1 BY <1>0
    <3> QED BY <1>9, <3>1
  <2>1. d \in 1..n BY <1>0
  <2>2. CASE x = d BY <1>0, <2>1, <2>2
  <2>3. CASE x # d
    <3>1. PICK e \in parents[d] : x \in up[e] BY <1>7, <2>1, <2>3
    <3>2. e \in 0..n /\ e < d BY <1>0, <2>1
    <3>3. e <= k BY <1>0, <2>1, <3>2
    <3>4. x \in 1..e BY <1>9, <3>1, <3>2, <3>3
    <3> QED BY <2>1, <3>2, <3>4
  <2> QED BY <2>2, <2>3
<1> HIDE DEF B
<1>10. \A k \in Nat : k \in B BY <1>8, <1>9, Upwards
<1>11. \A d \in 0..n : up[d] \subseteq 1..d BY <1>0, <1>10 DEF B
<1> HIDE DEF Is
<1> QED BY <1>6, <1>7, <1>11

\* A parent of an ancestor is an ancestor.
LEMMA ParentsAreAncestors ==
    ASSUME HistoryTypes, NEW t \in Commits, NEW c \in Ancestry(t), NEW p \in parents[c]
    PROVE  c \in Commits /\ p \in Ancestry(t) /\ p \in Commits /\ p < c
<1> USE GateAssumption DEF Commits
<1> DEFINE B == {k \in Nat : \A d \in 1..MaxCommit : d <= k /\ c \in Ancestry(d) => p \in Ancestry(d)}
<1>1. c \in 1..MaxCommit BY AncestryIs
<1>2. p \in 1..MaxCommit /\ p < c BY <1>1 DEF HistoryTypes
<1>3. p \in Ancestry(p) BY <1>2, AncestryIs
<1>4. 0 \in B OBVIOUS
<1>5. ASSUME NEW k \in Nat, k \in B PROVE k + 1 \in B
  <2> SUFFICES ASSUME NEW d \in 1..MaxCommit, d = k + 1, c \in Ancestry(d) PROVE p \in Ancestry(d)
    <3>1. \A d \in 1..MaxCommit : d <= k + 1 => d <= k \/ d = k + 1 OBVIOUS
    <3> QED BY <1>5, <3>1
  <2>1. Ancestry(d) = {d} \cup UNION {Ancestry(e) : e \in parents[d]} BY AncestryIs
  <2>2. CASE c = d BY <1>3, <2>1, <2>2
  <2>3. CASE c # d
    <3>1. PICK e \in parents[d] : c \in Ancestry(e) BY <2>1, <2>3
    <3>2. e \in 1..MaxCommit /\ e < d BY DEF HistoryTypes
    <3>3. e <= k BY <3>2
    <3>4. p \in Ancestry(e) BY <1>5, <3>1, <3>2, <3>3
    <3> QED BY <2>1, <3>4
  <2> QED BY <2>2, <2>3
<1> HIDE DEF B
<1>6. \A k \in Nat : k \in B BY <1>4, <1>5, Upwards
<1>7. t \in Nat /\ t <= t OBVIOUS
<1>8. p \in Ancestry(t) BY <1>6, <1>7 DEF B
<1> QED BY <1>1, <1>2, <1>8

\* What is in the history of the tip was brought by a new commit, or is in main's.
LEMMA HistoryIsBrought ==
    ASSUME HistoryTypes, NEW c \in Ancestry(Tip), NEW x \in trees[c]
    PROVE  x \in Fresh \/ \E d \in Ancestry(main) : x \in trees[d]
<1> USE GateAssumption DEF Commits, Tip
<1> DEFINE W == {d \in Ancestry(Tip) : x \in trees[d]}
<1>1. MaxCommit \in Commits /\ MaxCommit \in 0..MaxCommit OBVIOUS
<1>2. W \subseteq 1..MaxCommit BY <1>1, AncestryIs
<1>3. c \in W OBVIOUS
<1> HIDE DEF W
<1>4. PICK e \in W : \A d \in W : e <= d
  <2>1. W \subseteq Nat /\ W # {} BY <1>2, <1>3
  <2> QED BY <2>1, LeastExists
<1>5. e \in Ancestry(Tip) /\ x \in trees[e] BY <1>4 DEF W
<1>6. CASE e \in Ancestry(main) BY <1>5, <1>6
<1>7. CASE e \notin Ancestry(main)
  <2>1. e \in NewCommits(Tip) BY <1>5, <1>7 DEF NewCommits
  <2>2. ASSUME NEW p \in parents[e] PROVE x \notin trees[p]
    <3>1. p \in Ancestry(MaxCommit) /\ p \in Commits /\ p < e /\ e \in Commits
      BY <1>1, <1>5, ParentsAreAncestors
    <3>2. p \notin W BY <1>4, <3>1
    <3> QED BY <3>1, <3>2 DEF W
  <2>3. x \in Brings(e) BY <1>5, <2>2 DEF Brings
  <2> QED BY <2>1, <2>3 DEF Fresh
<1> QED BY <1>6, <1>7

\* The newest commit that brings a text.
LEMMA FromIs ==
    ASSUME HistoryTypes, NEW x \in Fresh
    PROVE  From(x) \in Commits
<1> USE GateAssumption DEF Commits, Tip
<1> DEFINE W == {c \in NewCommits(Tip) : x \in Brings(c)}
           L == {MaxCommit - c : c \in W}
<1>1. W \subseteq 1..MaxCommit
  <2>1. MaxCommit \in 0..MaxCommit OBVIOUS
  <2>2. Ancestry(MaxCommit) \subseteq 1..MaxCommit BY <2>1, AncestryIs
  <2> QED BY <2>2 DEF NewCommits
<1>2. W # {} BY DEF Fresh
<1> HIDE DEF W
<1>3. L \subseteq Nat /\ L # {}
  <2>1. \A c \in W : MaxCommit - c \in Nat BY <1>1
  <2>2. PICK c \in W : TRUE BY <1>2
  <2>3. MaxCommit - c \in L OBVIOUS
  <2> QED BY <2>1, <2>3
<1>4. PICK l \in L : \A m \in L : l <= m
  <2> HIDE DEF L
  <2> QED BY <1>3, LeastExists
<1>5. PICK c \in W : l = MaxCommit - c OBVIOUS
<1>6. \A d \in W : d <= c
  <2> SUFFICES ASSUME NEW d \in W PROVE d <= c OBVIOUS
  <2>1. MaxCommit - d \in L OBVIOUS
  <2>2. MaxCommit - c <= MaxCommit - d BY <1>4, <1>5, <2>1
  <2>3. c \in 1..MaxCommit /\ d \in 1..MaxCommit BY <1>1
  <2> QED BY <2>2, <2>3
<1> HIDE DEF L
<1>7. From(x) \in NewCommits(Tip) /\ x \in Brings(From(x))
  <2>1. c \in NewCommits(Tip) /\ x \in Brings(c)
        /\ \A d \in NewCommits(Tip) : x \in Brings(d) => d <= c
    BY <1>5, <1>6 DEF W
  <2> QED BY <2>1 DEF From
<1>8. From(x) \in W BY <1>7 DEF W
<1> QED BY <1>1, <1>8

\* The texts of a push are what its new commits bring, each of them.
LEMMA TextsArePushed ==
    ASSUME TextsAreFinite, HistoryTypes
    PROVE  PushedTexts \in Seq(Texts) /\ ToSet(PushedTexts) = Fresh
<1> DEFINE n == Cardinality(Fresh)
           R == {z \in Fresh \X Fresh : Earlier(z[1], z[2])}
<1>1. Fresh \subseteq Texts
  <2>1. NewCommits(Tip) \subseteq Commits
    <3>1. MaxCommit \in 0..MaxCommit BY GateAssumption
    <3> QED BY <3>1, AncestryIs DEF NewCommits, Tip, Commits
  <2>2. \A c \in Commits : Brings(c) \subseteq Texts BY DEF Brings, HistoryTypes
  <2> QED BY <2>1, <2>2 DEF Fresh
<1>2. IsFiniteSet(Fresh) /\ n \in Nat BY <1>1, FS_Subset, FS_CardinalityType DEF TextsAreFinite
<1>3. \A x \in Fresh : x \in Nat /\ From(x) \in Nat
  <2>1. \A x \in Fresh : From(x) \in Nat BY FromIs, GateAssumption DEF Commits
  <2> QED BY <1>1, <2>1, GateAssumption
<1>4. \A x, y \in Fresh : <<x, y>> \in R <=> (From(x) > From(y) \/ (From(x) = From(y) /\ x < y))
  BY DEF Earlier
<1> HIDE DEF R
<1>5. IsOrder(R, Fresh)
  <2>1. ASSUME NEW x \in Fresh, NEW y \in Fresh, x # y PROVE <<x, y>> \in R \/ <<y, x>> \in R
    BY <1>3, <1>4, <2>1
  <2>2. ASSUME NEW x \in Fresh, NEW y \in Fresh, NEW z \in Fresh, <<x, y>> \in R, <<y, z>> \in R
        PROVE  <<x, z>> \in R
    BY <1>3, <1>4, <2>2
  <2> QED BY <2>1, <2>2 DEF IsOrder
<1> DEFINE Is(s) == s \in [1..n -> Fresh] /\ \A i, j \in 1..n : i < j => Earlier(s[i], s[j])
<1>6. \E s : Is(s)
  <2>1. PICK s : Enumerates(R, n, Fresh, s) BY <1>2, <1>5, SortExists
  <2>2. Is(s) BY <2>1, <1>4 DEF Enumerates, Earlier
  <2> QED BY <2>2
<1> DEFINE s == CHOOSE s : Is(s)
<1>7. Is(s) BY <1>6, Zenon
<1>8. PushedTexts = s
  <2>1. PushedTexts = CHOOSE s_ \in [1..n -> Fresh] : \A i, j \in 1..n : i < j => Earlier(s_[i], s_[j])
    BY DEF PushedTexts
  <2> QED BY <2>1
<1> HIDE DEF s
<1>9. \A i, j \in 1..n : i # j => s[i] # s[j]
  <2> SUFFICES ASSUME NEW i \in 1..n, NEW j \in 1..n, i < j, s[i] = s[j] PROVE FALSE
    BY <1>2
  <2>1. Earlier(s[i], s[i]) /\ s[i] \in Fresh BY <1>7
  <2> QED BY <1>3, <2>1 DEF Earlier
<1>10. s \in Injection(1..n, Fresh) BY <1>7, <1>9 DEF Injection, IsInjective
<1>11. s \in Surjection(1..n, Fresh)
  <2>1. IsFiniteSet(1..n) /\ Cardinality(1..n) = n
    <3>1. 1 \in Int /\ n \in Int BY <1>2
    <3>2. Cardinality(1..n) = IF 1 > n THEN 0 ELSE n - 1 + 1 BY <3>1, FS_Interval
    <3> QED BY <1>2, <3>1, <3>2, FS_Interval
  <2> HIDE DEF Is
  <2> QED BY <1>2, <1>10, <2>1, FS_Injection
<1>12. ToSet(s) = Fresh
  <2>1. DOMAIN s = 1..n /\ \A i \in 1..n : s[i] \in Fresh BY <1>7
  <2>2. \A x \in Fresh : \E i \in 1..n : s[i] = x BY <1>11 DEF Surjection
  <2> QED BY <2>1, <2>2 DEF ToSet
<1>13. s \in Seq(Texts) BY <1>1, <1>2, <1>7
<1> QED BY <1>8, <1>12, <1>13

\* The history of a push stays as it is while the application is asked.
LEMMA PushStays ==
    ASSUME UNCHANGED history
    PROVE  Fresh' = Fresh
<1>1. trees' = trees /\ parents' = parents /\ main' = main BY DEF history
<1>2. Ancestry(main)' = Ancestry(main) /\ Ancestry(Tip)' = Ancestry(Tip) BY <1>1 DEF Ancestry, Tip
<1> QED BY <1>1, <1>2 DEF Fresh, NewCommits, Brings

-----------------------------------------------------------------------------
(* The write gate: what an accepted push was asked *)

Question == [cmds : BOOLEAN, files : Seq(Texts)]
AskedIn(qs) == UNION {ToSet(qs[i].files) : i \in 1..Len(qs)}

\* Before its texts are read a push has been asked nothing; while it is asked,
\* what was let in and what is still to be asked are all it brings, and the
\* commands are judged or the next to be.
GateInv ==
    /\ HistoryTypes
    /\ asking \in Seq(Question)
    /\ answered \subseteq Texts /\ judged \in BOOLEAN
    /\ gate \in {"writable", "texts"} => answered = {} /\ ~judged
    /\ gate = "asking" =>
          /\ \A i \in 1..Len(asking) : Fits(asking[i].files)
          /\ answered \cup AskedIn(asking) = Fresh
          /\ judged \/ (asking # <<>> /\ asking[1].cmds)
    /\ gate = "accepted" => Fresh \subseteq answered /\ (judged \/ command = "none")

\* The questions carry the portions, and the first one the commands.
LEMMA QuestionsAre ==
    ASSUME NEW texts \in Seq(Texts)
    PROVE  LET qs == Questions(Portions(texts))
           IN  /\ qs \in Seq(Question) /\ qs # <<>> /\ qs[1].cmds
               /\ \A i \in 1..Len(qs) : Fits(qs[i].files)
               /\ AskedIn(qs) = ToSet(texts)
<1> DEFINE ps == Portions(texts)
           qs == Questions(ps)
<1>1. GoodPortions(ps, ToSet(texts)) BY PortionsAreGood
<1> HIDE DEF ps
<1>2. CASE ps = <<>>
  <2>1. qs = <<[cmds |-> TRUE, files |-> <<>>]>> BY <1>2 DEF Questions
  <2>2. Len(qs) = 1 /\ qs[1] = [cmds |-> TRUE, files |-> <<>>] BY <2>1
  <2>3. qs \in Seq(Question)
    <3>1. [cmds |-> TRUE, files |-> <<>>] \in Question BY DEF Question
    <3> QED BY <2>1, <3>1
  <2>4. Fits(<<>>)
    <3>1. <<>> \in Seq(Texts) /\ Len(<<>>) = 0 OBVIOUS
    <3>2. Bytes(<<>>) = 0 BY <3>1, BytesAre
    <3> QED BY <3>2, GateAssumption DEF Fits
  <2>5. ToSet(<<>>) = {} BY DEF ToSet
  <2>6. ToSet(texts) = {} BY <1>1, <1>2 DEF GoodPortions
  <2> HIDE DEF qs
  <2>7. AskedIn(qs) = {} BY <2>2, <2>5 DEF AskedIn
  <2>8. \A i \in 1..Len(qs) : Fits(qs[i].files) BY <2>2, <2>4
  <2> QED BY <2>1, <2>2, <2>3, <2>6, <2>7, <2>8 DEF qs, ps
<1>3. CASE ps # <<>>
  <2> DEFINE n == Len(ps)
  <2>1. n \in Nat /\ n # 0 /\ \A i \in 1..n : ps[i] \in Seq(Texts)
    BY <1>1, <1>3 DEF GoodPortions
  <2>2. qs = [i \in 1..n |-> [cmds |-> i = 1, files |-> ps[i]]] BY <1>3 DEF Questions
  <2> HIDE DEF qs
  <2>3. \A i \in 1..n : qs[i] = [cmds |-> i = 1, files |-> ps[i]] BY <2>2
  <2>4. ASSUME NEW i \in 1..n PROVE qs[i] \in Question /\ qs[i].files = ps[i]
    <3>1. (i = 1) \in BOOLEAN OBVIOUS
    <3>2. \A b \in BOOLEAN : \A fs \in Seq(Texts) :
              /\ [cmds |-> b, files |-> fs] \in Question
              /\ [cmds |-> b, files |-> fs].files = fs
      BY Zenon DEF Question
    <3>3. ps[i] \in Seq(Texts) BY <2>1
    <3> QED BY <2>3, <3>1, <3>2, <3>3, ZenonT(60)
  <2>5. qs \in Seq(Question) /\ Len(qs) = n BY <2>1, <2>2, <2>4
  <2>6. 1 \in 1..n /\ qs[1].cmds /\ qs # <<>>
    <3>1. 1 \in 1..n /\ qs # <<>> BY <2>1, <2>5
    <3>2. (1 = 1) = TRUE OBVIOUS
    <3>3. qs[1] = [cmds |-> TRUE, files |-> ps[1]] BY <2>3, <3>1, <3>2
    <3>4. qs[1].cmds BY <3>3
    <3> QED BY <3>1, <3>4
  <2>7. \A i \in 1..n : Fits(qs[i].files) BY <1>1, <2>4 DEF GoodPortions
  <2>8. AskedIn(qs) = ToSet(texts)
    <3>1. \A i \in 1..n : ToSet(qs[i].files) = ToSet(ps[i]) BY <2>4
    <3>2. {ToSet(qs[i].files) : i \in 1..n} = {ToSet(ps[i]) : i \in 1..n} BY <3>1
    <3> QED BY <1>1, <2>5, <3>2 DEF GoodPortions, AskedIn
  <2> QED BY <2>5, <2>6, <2>7, <2>8 DEF qs, ps
<1> QED BY <1>2, <1>3

\* An answered question leaves the others.
LEMMA OthersAreLeft ==
    ASSUME NEW qs \in Seq(Question), qs # <<>>
    PROVE  /\ Head(qs) = qs[1] /\ Head(qs) \in Question
           /\ Tail(qs) \in Seq(Question)
           /\ \A i \in 1..Len(Tail(qs)) : i + 1 \in 1..Len(qs) /\ Tail(qs)[i] = qs[i + 1]
           /\ AskedIn(qs) = ToSet(Head(qs).files) \cup AskedIn(Tail(qs))
<1>1. /\ Head(qs) = qs[1] /\ Head(qs) \in Question
      /\ Tail(qs) \in Seq(Question) /\ Len(Tail(qs)) = Len(qs) - 1
      /\ \A i \in 1..Len(Tail(qs)) : Tail(qs)[i] = qs[i + 1]
  BY HeadTailProperties
<1>2. Len(qs) \in Nat /\ Len(qs) # 0 /\ 1 \in 1..Len(qs) OBVIOUS
<1>3. \A i \in 1..Len(Tail(qs)) : i + 1 \in 1..Len(qs) BY <1>1, <1>2
<1>4. \A i \in 1..Len(qs) : i = 1 \/ (i - 1 \in 1..Len(Tail(qs)) /\ (i - 1) + 1 = i)
  BY <1>1, <1>2
<1>5. AskedIn(qs) = ToSet(Head(qs).files) \cup AskedIn(Tail(qs))
  <2>1. ASSUME NEW x \in AskedIn(qs) PROVE x \in ToSet(Head(qs).files) \cup AskedIn(Tail(qs))
    <3>1. PICK i \in 1..Len(qs) : x \in ToSet(qs[i].files) BY DEF AskedIn
    <3>2. CASE i = 1 BY <1>1, <3>1, <3>2
    <3>3. CASE i # 1
      <4>1. i - 1 \in 1..Len(Tail(qs)) /\ Tail(qs)[i - 1] = qs[i] BY <1>1, <1>4, <3>3
      <4> QED BY <3>1, <4>1 DEF AskedIn
    <3> QED BY <3>2, <3>3
  <2>2. ToSet(Head(qs).files) \subseteq AskedIn(qs) BY <1>1, <1>2 DEF AskedIn
  <2>3. ASSUME NEW x \in AskedIn(Tail(qs)) PROVE x \in AskedIn(qs)
    <3>1. PICK i \in 1..Len(Tail(qs)) : x \in ToSet(Tail(qs)[i].files) BY DEF AskedIn
    <3>2. i + 1 \in 1..Len(qs) /\ x \in ToSet(qs[i + 1].files) BY <1>1, <1>3, <3>1
    <3> QED BY <3>2 DEF AskedIn
  <2> QED BY <2>1, <2>2, <2>3
<1> QED BY <1>1, <1>3, <1>5

\* A push starts unasked.
LEMMA GateStarts == GateInit => GateInv
<1> SUFFICES ASSUME GateInit PROVE GateInv OBVIOUS
<1>1. HistoryTypes BY GateAssumption DEF GateInit, HistoryTypes
<1>2. asking = <<>> /\ answered = {} /\ judged = FALSE /\ gate = "writable" BY DEF GateInit
<1>3. asking \in Seq(Question) BY <1>2
<1>4. gate # "asking" /\ gate # "accepted" BY <1>2
<1> QED BY <1>1, <1>2, <1>3, <1>4, Zenon DEF GateInv

\* Every step of the gate keeps the account.
LEMMA GateKeeps == ASSUME TextsAreFinite, GateInv, [GateNext]_gateVars PROVE GateInv'
<1> USE DEF GateInv
<1>0. UNCHANGED history => HistoryTypes' /\ Fresh' = Fresh /\ command' = command
  <2> SUFFICES ASSUME UNCHANGED history PROVE HistoryTypes' /\ Fresh' = Fresh /\ command' = command
    OBVIOUS
  <2>1. HistoryTypes' BY DEF HistoryTypes, history
  <2> QED BY <2>1, PushStays DEF history
<1>1. CASE AskWritable \/ NotWritable \/ TextsUnread \/ BinaryMissing \/ ContentRefused
  BY <1>0, <1>1 DEF AskWritable, NotWritable, TextsUnread, BinaryMissing, ContentRefused
<1>2. CASE ReadTexts
  <2>1. UNCHANGED <<history, answered, judged>> /\ gate = "texts" BY <1>2 DEF ReadTexts
  <2>2. PushedTexts \in Seq(Texts) /\ ToSet(PushedTexts) = Fresh BY TextsArePushed
  <2>3. CASE PushedTexts = <<>> /\ command = "none"
    <3>1. gate' = "accepted" /\ asking' = <<>> BY <1>2, <2>3 DEF ReadTexts
    <3>2. Fresh = {} BY <2>2, <2>3 DEF ToSet
    <3> QED BY <1>0, <2>1, <2>3, <3>1, <3>2
  <2>4. CASE ~(PushedTexts = <<>> /\ command = "none")
    <3> DEFINE qs == Questions(Portions(PushedTexts))
    <3>1. gate' = "asking" /\ asking' = qs BY <1>2, <2>4 DEF ReadTexts
    <3>2. /\ qs \in Seq(Question) /\ qs # <<>> /\ qs[1].cmds
          /\ \A i \in 1..Len(qs) : Fits(qs[i].files)
          /\ AskedIn(qs) = Fresh
      BY <2>2, QuestionsAre
    <3> HIDE DEF qs
    <3>3. AskedIn(asking)' = Fresh BY <3>1, <3>2 DEF AskedIn
    <3>4. answered' \cup AskedIn(asking)' = Fresh' BY <1>0, <2>1, <3>3
    <3>5. \A i \in 1..Len(asking') : Fits(asking'[i].files) BY <3>1, <3>2
    <3> QED BY <1>0, <2>1, <3>1, <3>2, <3>4, <3>5
  <2> QED BY <2>3, <2>4
<1>3. CASE AskContent
  <2>1. /\ gate = "asking" /\ asking # <<>> /\ asking' = Tail(asking)
        /\ answered' = answered \cup ToSet(Head(asking).files)
        /\ judged' = (judged \/ Head(asking).cmds)
        /\ UNCHANGED <<history, gate>>
    BY <1>3 DEF AskContent
  <2>2. /\ Head(asking) = asking[1] /\ Head(asking) \in Question
        /\ Tail(asking) \in Seq(Question)
        /\ \A i \in 1..Len(Tail(asking)) : i + 1 \in 1..Len(asking) /\ Tail(asking)[i] = asking[i + 1]
        /\ AskedIn(asking) = ToSet(Head(asking).files) \cup AskedIn(Tail(asking))
    BY <2>1, OthersAreLeft
  <2>3. ToSet(Head(asking).files) \subseteq Texts BY <2>2 DEF Question, ToSet
  <2>4. judged' /\ judged' \in BOOLEAN BY <2>1, <2>2
  <2>5. answered' \cup AskedIn(asking)' = Fresh'
    <3>1. AskedIn(asking)' = AskedIn(Tail(asking)) BY <2>1 DEF AskedIn
    <3> QED BY <1>0, <2>1, <2>2, <3>1
  <2>6. \A i \in 1..Len(asking') : Fits(asking'[i].files) BY <2>1, <2>2
  <2> QED BY <1>0, <2>1, <2>2, <2>3, <2>4, <2>5, <2>6
<1>4. CASE AllAnswered
  <2>1. /\ gate = "asking" /\ asking = <<>> /\ gate' = "accepted"
        /\ UNCHANGED <<history, asking, answered, judged>>
    BY <1>4 DEF AllAnswered
  <2>2. AskedIn(asking) = {} BY <2>1 DEF AskedIn
  <2> QED BY <1>0, <2>1, <2>2
<1>5. CASE UNCHANGED gateVars
  <2>1. /\ UNCHANGED <<history, gate, asking, answered, judged>>
        /\ AskedIn(asking)' = AskedIn(asking)
    BY <1>5 DEF gateVars, history, AskedIn
  <2> QED BY <1>0, <2>1
<1> QED BY <1>1, <1>2, <1>3, <1>4, <1>5 DEF GateNext

\* The account says that a push that was let in was judged.
LEMMA AccountIsJudgement == ASSUME TextsAreFinite, GateInv PROVE PushIsJudged
<1> USE DEF GateInv
<1>1. HistoryIsJudged
  <2> SUFFICES ASSUME gate = "accepted", NEW c \in Ancestry(Tip), NEW x \in trees[c]
               PROVE  x \in answered \/ \E d \in Ancestry(main) : x \in trees[d]
    BY DEF HistoryIsJudged
  <2> QED BY HistoryIsBrought
<1>2. CommandsAreJudged BY DEF CommandsAreJudged
<1>3. QuestionsFit
  <2> SUFFICES ASSUME gate = "asking"
               PROVE  /\ \A i \in 1..Len(asking) : Fits(asking[i].files)
                      /\ answered \cup AskedIn(asking) = ToSet(PushedTexts)
    BY DEF QuestionsFit, Fits, AskedIn
  <2> QED BY TextsArePushed
<1> QED BY <1>1, <1>2, <1>3 DEF PushIsJudged

\* Of any history, with any texts and any limit: whatever the push brings along
\* is asked about before main moves, also what a later commit removes, what a
\* draft carried before and what a merge brought, in questions the application
\* can take, and so are the commands.
THEOREM PushesAreJudged ==
    ASSUME TextsAreFinite
    PROVE  GateSpec => []PushIsJudged
<1>1. GateInit => GateInv BY GateStarts
<1>2. GateInv /\ [GateNext]_gateVars => GateInv' BY GateKeeps
<1>3. GateInv => PushIsJudged BY AccountIsJudgement
<1> QED BY <1>1, <1>2, <1>3, PTL DEF GateSpec

=============================================================================
