------------------------ MODULE CycleTrackersProofs ------------------------
(***************************************************************************)
(* The TTL queue is a heap of any size whose root is the earliest refresh; *)
(* the churn ring counts exactly the addresses of the last churnRingSize   *)
(* cycles.                                                                 *)
(***************************************************************************)
EXTENDS CycleTrackers, FiniteSetTheorems, SequenceTheorems, TLAPS

\* A set of numbers that is not empty has a least element.
LEMMA LeastExists ==
    ASSUME NEW T, T \subseteq Nat, T # {}
    PROVE  Min(T) \in T /\ \A x \in T : Min(T) <= x
<1>1. PICK x \in T : \A y \in T : ~(<<y, x>> \in OpToRel(<, Nat))
  BY NatLessThanWellFounded, WFMin
<1>2. \A y \in T : x <= y
  <2> SUFFICES ASSUME NEW y \in T PROVE x <= y
    OBVIOUS
  <2>1. x \in Nat /\ y \in Nat
    OBVIOUS
  <2>2. ~(y < x)
    BY <1>1, <2>1 DEF OpToRel
  <2> QED
    BY <2>1, <2>2
<1> QED
  BY <1>2 DEF Min
----------------------------------------------------------------------------
(* Loops.                                                                  *)

\* What holds before a loop and is kept by each iteration holds throughout.
LEMMA LoopInvariant ==
    ASSUME NEW n \in Nat, NEW f, NEW A, f[0] \in A[0],
           \A k \in 1..n : f[k - 1] \in A[k - 1] => f[k] \in A[k]
    PROVE  \A k \in 0..n : f[k] \in A[k]
<1> DEFINE T == {k \in 0..n : f[k] \notin A[k]}
<1> SUFFICES ASSUME T # {} PROVE FALSE
  OBVIOUS
<1>1. T \subseteq Nat
  OBVIOUS
<1>2. Min(T) \in T /\ \A x \in T : Min(T) <= x
  BY <1>1, LeastExists
<1> DEFINE m == Min(T)
<1>3. m \in 1..n
  BY <1>2
<1>4. m - 1 \in 0..n /\ m - 1 \notin T
  BY <1>2, <1>3
<1>5. f[m - 1] \in A[m - 1]
  BY <1>4
<1> QED
  BY <1>2, <1>3, <1>5

\* The states of a loop, from the first.
IsLoop(g, a, step, n) == g[0] = a /\ \A k \in 1..n : g[k] = step[g[k - 1]]

\* A loop over a set of states makes a finite sequence of them.
LEMMA LoopExists ==
    ASSUME NEW A, NEW step \in [A -> A], NEW a \in A, NEW n \in Nat
    PROVE  \E g \in [0..n -> A] : IsLoop(g, a, step, n)
<1> DEFINE Good(m) == \E g \in [0..m -> A] : g[0] = a /\ \A k \in 1..m : g[k] = step[g[k - 1]]
           T == {m \in Nat : ~Good(m)}
<1>1. T = {}
  <2> SUFFICES ASSUME T # {} PROVE FALSE
    OBVIOUS
  <2>1. T \subseteq Nat
    OBVIOUS
  <2>2. Min(T) \in T /\ \A x \in T : Min(T) <= x
    BY <2>1, LeastExists
  <2> DEFINE m == Min(T)
  <2>3. m \in Nat /\ ~Good(m)
    BY <2>2
  <2>4. Good(0)
    <3> DEFINE g == [k \in 0..0 |-> a]
    <3>1. g \in [0..0 -> A] /\ g[0] = a /\ \A k \in 1..0 : g[k] = step[g[k - 1]]
      OBVIOUS
    <3> QED
      BY <3>1
  <2>5. m # 0
    BY <2>3, <2>4
  <2>6. m - 1 \in Nat /\ m - 1 \notin T
    <3> HIDE DEF T
    <3> QED
      BY <2>2, <2>3, <2>5
  <2> HIDE DEF m
  <2>7. PICK g \in [0..(m - 1) -> A] : g[0] = a /\ \A k \in 1..(m - 1) : g[k] = step[g[k - 1]]
    BY <2>6
  <2> DEFINE h == [k \in 0..m |-> IF k = m THEN step[g[m - 1]] ELSE g[k]]
  <2>8. h \in [0..m -> A]
    BY <2>3, <2>5, <2>6, <2>7
  <2>9. h[0] = a
    BY <2>3, <2>5, <2>7
  <2>10. \A k \in 1..m : h[k] = step[h[k - 1]]
    BY <2>3, <2>5, <2>6, <2>7
  <2> QED
    BY <2>3, <2>8, <2>9, <2>10
<1> QED
  BY <1>1 DEF IsLoop
----------------------------------------------------------------------------
(* The heap.                                                               *)

\* The arrangements of the hosts S in n positions, with refresh times nx: each
\* host is at the position its entry believes to have.
Heaps(S, n, nx) ==
    {q \in [items: [1..n -> S], next: {nx}, index: [S -> 1..n]] :
        /\ \A i \in 1..n : q.index[q.items[i]] = i
        /\ \A x \in S : q.items[q.index[x]] = x}

key(q, i) == q.next[q.items[i]]

\* Positions and their parents.
LEMMA Parents ==
    ASSUME NEW i \in Nat, i >= 2
    PROVE  i \div 2 \in Nat /\ 1 <= i \div 2 /\ i \div 2 < i
           /\ (i = 2 * (i \div 2) \/ i = 2 * (i \div 2) + 1)
OBVIOUS

\* A position is the parent of its two children.
LEMMA Children ==
    ASSUME NEW i \in Nat, i >= 1
    PROVE  (2 * i) \div 2 = i /\ (2 * i + 1) \div 2 = i
OBVIOUS

\* The size and the refresh times of a heap.
LEMMA HeapKeys ==
    ASSUME NEW S, NEW n \in Nat, NEW nx \in [S -> Int]
    PROVE  \A q \in Heaps(S, n, nx) : Len(q.items) = n /\ \A i \in 1..n : key(q, i) \in Int
<1> SUFFICES ASSUME NEW q \in Heaps(S, n, nx)
             PROVE  Len(q.items) = n /\ \A i \in 1..n : key(q, i) \in Int
  OBVIOUS
<1>1. q.items \in [1..n -> S] /\ q.next = nx
  BY DEF Heaps
<1>2. q.items \in Seq(S)
  BY <1>1, SeqDef
<1>3. Len(q.items) = n
  BY <1>1, <1>2, LenProperties
<1>4. \A i \in 1..n : key(q, i) \in Int
  BY <1>1 DEF key
<1> QED
  BY <1>3, <1>4

\* Swap exchanges two entries, and they learn their new positions.
LEMMA SwapHeap ==
    ASSUME NEW S, NEW n \in Nat, NEW nx \in [S -> Int], NEW q \in Heaps(S, n, nx),
           NEW i \in 1..n, NEW j \in 1..n, i # j
    PROVE  /\ Swap(q, i, j) \in Heaps(S, n, nx)
           /\ \A k \in 1..n : key(Swap(q, i, j), k) =
                  IF k = i THEN key(q, j) ELSE IF k = j THEN key(q, i) ELSE key(q, k)
<1> DEFINE t == [q.items EXCEPT ![i] = q.items[j], ![j] = q.items[i]]
           x == [q.index EXCEPT ![q.items[j]] = i, ![q.items[i]] = j]
           w == Swap(q, i, j)
<1>1. q \in [items: [1..n -> S], next: {nx}, index: [S -> 1..n]]
      /\ (\A k \in 1..n : q.index[q.items[k]] = k) /\ (\A y \in S : q.items[q.index[y]] = y)
  BY DEF Heaps
<1>2. w = [q EXCEPT !.items = t, !.index = x]
  BY DEF Swap
<1>3. w \in [items: [1..n -> S], next: {nx}, index: [S -> 1..n]]
      /\ w.items = t /\ w.index = x /\ w.next = nx
  <2>1. t \in [1..n -> S]
    BY <1>1
  <2>2. x \in [S -> 1..n]
    BY <1>1
  <2> HIDE DEF t, x, w
  <2> QED
    BY <1>1, <1>2, <2>1, <2>2
<1>4. \A k \in 1..n : t[k] = IF k = i THEN q.items[j] ELSE IF k = j THEN q.items[i] ELSE q.items[k]
  BY <1>1
<1>5. q.items[i] \in S /\ q.items[j] \in S /\ q.items[i] # q.items[j]
  BY <1>1
<1>6. \A y \in S : x[y] = IF y = q.items[j] THEN i ELSE IF y = q.items[i] THEN j ELSE q.index[y]
  BY <1>1, <1>5
<1>7. q.next = nx
  BY <1>1
<1> HIDE DEF t, x, w
<1>8. ASSUME NEW k \in 1..n PROVE x[t[k]] = k
  <2>1. q.items[k] \in S /\ q.index[q.items[k]] = k
    BY <1>1
  <2>2. q.index[q.items[i]] = i /\ q.index[q.items[j]] = j
    BY <1>1
  <2>3. CASE k = i
    BY <1>4, <1>5, <1>6, <2>3
  <2>4. CASE k = j
    BY <1>4, <1>5, <1>6, <2>4
  <2>5. CASE k # i /\ k # j
    <3>1. t[k] = q.items[k] /\ q.items[k] # q.items[i] /\ q.items[k] # q.items[j]
      BY <1>4, <2>1, <2>2, <2>5
    <3> QED
      BY <1>6, <2>1, <3>1
  <2> QED
    BY <2>3, <2>4, <2>5
<1>9. \A y \in S : t[x[y]] = y
  BY <1>1, <1>4, <1>5, <1>6
<1>10. w \in Heaps(S, n, nx)
  BY <1>3, <1>8, <1>9 DEF Heaps
<1>11. \A k \in 1..n : key(w, k) =
           IF k = i THEN key(q, j) ELSE IF k = j THEN key(q, i) ELSE key(q, k)
  BY <1>3, <1>4, <1>7 DEF key
<1> QED
  BY <1>10, <1>11 DEF w

\* The parent of every position but the root is refreshed no later.
Ordered(q, n) == \A i \in 2..n : key(q, i \div 2) <= key(q, i)

\* The order while up is at a position: it may fail between that position and
\* its parent only, and the parent comes before the children.
OrderedBut(q, n, at) ==
    /\ \A i \in 2..n : i # at => key(q, i \div 2) <= key(q, i)
    /\ \A i \in 2..n : i \div 2 = at /\ at >= 2 => key(q, at \div 2) <= key(q, i)

\* Where up stops.
UpStopped(s) == s.at = 1 \/ ~Less(s.q, s.at, s.at \div 2)

\* The states of up after k iterations from position j.
UpStates(S, n, nx, j, k) ==
    {s \in [q: Heaps(S, n, nx), at: 1..n] :
        OrderedBut(s.q, n, s.at) /\ (UpStopped(s) \/ s.at <= j - k)}

\* One iteration of up.
LEMMA UpStepKeeps ==
    ASSUME NEW S, NEW n \in Nat, NEW nx \in [S -> Int], NEW j \in Nat, NEW k \in Nat,
           NEW s \in UpStates(S, n, nx, j, k)
    PROVE  UpStep(s) \in UpStates(S, n, nx, j, k + 1)
<1> DEFINE q == s.q
           a == s.at
           p == s.at \div 2
<1>1. q \in Heaps(S, n, nx) /\ a \in 1..n /\ OrderedBut(q, n, a)
      /\ s \in [q: Heaps(S, n, nx), at: 1..n] /\ (UpStopped(s) \/ a <= j - k)
  BY DEF UpStates
<1>2. CASE UpStopped(s)
  <2>1. UpStep(s) = s
    BY <1>2 DEF UpStep, UpStopped
  <2> QED
    BY <1>1, <1>2, <2>1 DEF UpStates
<1>3. CASE ~UpStopped(s)
  <2> DEFINE w == Swap(q, a, p)
             t == [q |-> w, at |-> p]
  <2>1. UpStep(s) = t
    BY <1>3 DEF UpStep, UpStopped
  <2>2. a >= 2 /\ key(q, a) < key(q, p)
    BY <1>1, <1>3 DEF UpStopped, Less, key
  <2>3. p \in 1..n /\ p < a /\ a \in Nat
    BY <1>1, <2>2, Parents
  <2>4. w \in Heaps(S, n, nx)
        /\ \A i \in 1..n : key(w, i) =
               IF i = a THEN key(q, p) ELSE IF i = p THEN key(q, a) ELSE key(q, i)
    <3> HIDE DEF q, a, p
    <3> QED
      BY <1>1, <2>3, SwapHeap
  <2>5. \A i \in 1..n : key(q, i) \in Int
    BY <1>1, HeapKeys
  <2>6. \A i \in 2..n : i \div 2 \in 1..n /\ i \div 2 < i /\ i \in 1..n
    BY Parents
  <2>7. /\ \A i \in 2..n : i # a => key(q, i \div 2) <= key(q, i)
        /\ \A i \in 2..n : i \div 2 = a => key(q, p) <= key(q, i)
    BY <1>1, <2>2 DEF OrderedBut
  <2>8. a \div 2 = p
    OBVIOUS
  <2> HIDE DEF w, p, q, a
  <2>9. ASSUME NEW i \in 2..n, i # p PROVE key(w, i \div 2) <= key(w, i)
    <3> DEFINE d == i \div 2
    <3>1. d \in 1..n /\ d < i /\ i \in 1..n
      BY <2>6
    <3>2. (i # a => key(q, d) <= key(q, i)) /\ (d = a => key(q, p) <= key(q, i)) /\ (i = a => d = p)
      BY <2>7, <2>8
    <3> HIDE DEF d
    <3>3. key(w, d) = IF d = a THEN key(q, p) ELSE IF d = p THEN key(q, a) ELSE key(q, d)
      BY <2>4, <3>1
    <3>4. key(w, i) = IF i = a THEN key(q, p) ELSE key(q, i)
      BY <2>4, <2>9, <3>1
    <3>5. {key(q, i), key(q, d), key(q, p), key(q, a)} \subseteq Int
      BY <1>1, <2>3, <2>5, <3>1
    <3>6. key(w, d) <= key(w, i)
      BY <2>2, <2>9, <3>1, <3>2, <3>3, <3>4, <3>5
    <3> QED
      BY <3>6 DEF d
  <2>10. ASSUME NEW i \in 2..n, i \div 2 = p, p >= 2 PROVE key(w, p \div 2) <= key(w, i)
    <3> DEFINE e == p \div 2
    <3>1. p \in 2..n /\ e \in 1..n /\ e < p /\ i \in 1..n /\ p < i
      BY <2>3, <2>6, <2>10
    <3>2. key(q, e) <= key(q, p) /\ (i # a => key(q, p) <= key(q, i))
      BY <2>3, <2>7, <2>10, <3>1
    <3> HIDE DEF e
    <3>3. key(w, e) = key(q, e)
      BY <2>3, <2>4, <3>1
    <3>4. key(w, i) = IF i = a THEN key(q, p) ELSE key(q, i)
      BY <2>4, <3>1
    <3>5. {key(q, i), key(q, e), key(q, p)} \subseteq Int
      BY <2>3, <2>5, <3>1
    <3>6. key(w, e) <= key(w, i)
      BY <3>2, <3>3, <3>4, <3>5
    <3> QED
      BY <3>6 DEF e
  <2>11. OrderedBut(w, n, p)
    BY <2>9, <2>10 DEF OrderedBut
  <2>12. p <= j - (k + 1)
    BY <1>1, <1>3, <2>3
  <2>13. t \in [q: Heaps(S, n, nx), at: 1..n] /\ t.q = w /\ t.at = p
    BY <2>3, <2>4
  <2> HIDE DEF t
  <2> QED
    BY <2>1, <2>11, <2>12, <2>13 DEF UpStates
<1> QED
  BY <1>2, <1>3

\* up puts an entry that is too early for its position where it belongs.
LEMMA UpHeap ==
    ASSUME NEW S, NEW n \in Nat, NEW nx \in [S -> Int], NEW q \in Heaps(S, n, nx),
           NEW j \in 1..n, OrderedBut(q, n, j)
    PROVE  up(q, j) \in Heaps(S, n, nx) /\ Ordered(up(q, j), n)
<1> DEFINE U(k) == UpStates(S, n, nx, j, k)
           A == UNION {U(k) : k \in Nat}
           step == [s \in A |-> UpStep(s)]
           a == [q |-> q, at |-> j]
           P(f) == f = [k \in 0..Len(q.items) |-> IF k = 0 THEN a ELSE UpStep(f[k - 1])]
           f == UpLoop(q, j)
<1>1. a \in U(0)
  BY DEF UpStates
<1>2. \A k \in Nat : \A s \in U(k) : UpStep(s) \in U(k + 1)
  BY UpStepKeeps
<1> HIDE DEF U, a
<1>3. a \in A
  BY <1>1
<1>4. step \in [A -> A]
  BY <1>2
<1>5. Len(q.items) = n
  BY HeapKeys
<1>6. \E g : P(g)
  <2>1. PICK B, st, b : B = A /\ st = step /\ b = a
    OBVIOUS
  <2>2. b \in B /\ st \in [B -> B] /\ \A s \in B : st[s] = UpStep(s)
    BY <1>3, <1>4, <2>1
  <2>3. PICK g \in [0..n -> B] : IsLoop(g, b, st, n)
    BY <2>2, LoopExists
  <2>4. g[0] = b /\ \A k \in 1..n : g[k] = UpStep(g[k - 1])
    BY <2>2, <2>3 DEF IsLoop
  <2>5. P(g)
    BY <1>5, <2>1, <2>3, <2>4
  <2> QED
    BY <2>5
<1>7. f = CHOOSE g : P(g)
  BY Zenon DEF UpLoop, a
<1> HIDE DEF P, f
<1>8. P(f)
  BY <1>6, <1>7, Zenon
<1>9. f[0] = a /\ \A k \in 1..n : f[k] = UpStep(f[k - 1])
  BY <1>5, <1>8 DEF P
<1> DEFINE B == [k \in 0..n |-> U(k)]
<1>10. f[0] \in B[0]
  BY <1>1, <1>9
<1>11. ASSUME NEW k \in 1..n, f[k - 1] \in B[k - 1] PROVE f[k] \in B[k]
  <2>1. k - 1 \in Nat /\ (k - 1) + 1 = k /\ f[k - 1] \in U(k - 1)
    BY <1>11
  <2>2. UpStep(f[k - 1]) \in U(k)
    BY <1>2, <2>1
  <2> QED
    BY <1>9, <2>2
<1> HIDE DEF B
<1>12. f[n] \in B[n]
  BY <1>10, <1>11, LoopInvariant
<1>13. f[n] \in UpStates(S, n, nx, j, n)
  BY <1>12 DEF B, U
<1> DEFINE e == f[n]
<1>14. e.q \in Heaps(S, n, nx) /\ e.at \in 1..n /\ OrderedBut(e.q, n, e.at) /\ UpStopped(e)
  BY <1>13 DEF UpStates
<1>15. up(q, j) = e.q
  BY <1>5 DEF up, f
<1> HIDE DEF e
<1>16. Ordered(e.q, n)
  <2> SUFFICES ASSUME NEW i \in 2..n PROVE key(e.q, i \div 2) <= key(e.q, i)
    BY DEF Ordered
  <2>1. CASE i # e.at
    BY <1>14, <2>1 DEF OrderedBut
  <2>2. CASE i = e.at
    <3>1. ~(key(e.q, i) < key(e.q, i \div 2))
      BY <1>14, <2>2 DEF UpStopped, Less, key
    <3>2. i \div 2 \in 1..n /\ i \in 1..n
      BY Parents
    <3>3. key(e.q, i) \in Int /\ key(e.q, i \div 2) \in Int
      BY <1>14, <3>2, HeapKeys
    <3> QED
      BY <3>1, <3>3
  <2> QED
    BY <2>1, <2>2
<1> QED
  BY <1>14, <1>15, <1>16

\* The order while down is at a position: it may fail towards the children, and
\* towards the parent until down has moved; the parent comes before the children.
OrderedAround(q, n, at, moved) ==
    /\ \A i \in 2..n : i \div 2 # at /\ (i # at \/ moved) => key(q, i \div 2) <= key(q, i)
    /\ \A i \in 2..n : i \div 2 = at /\ at >= 2 => key(q, at \div 2) <= key(q, i)

\* Where down stops.
DownStopped(s) == 2 * s.at > Len(s.q.items) \/ ~Less(s.q, Child(s.q, s.at), s.at)

\* The states of down after k iterations from position i of q.
DownStates(S, n, nx, q, i, k) ==
    {s \in [q: Heaps(S, n, nx), at: 1..n] :
        /\ s.at >= i /\ (s.at = i => s.q = q)
        /\ OrderedAround(s.q, n, s.at, s.at # i)
        /\ DownStopped(s) \/ s.at >= i + k}

\* The smaller child.
LEMMA ChildIsSmaller ==
    ASSUME NEW S, NEW n \in Nat, NEW nx \in [S -> Int], NEW q \in Heaps(S, n, nx),
           NEW a \in 1..n, 2 * a <= n
    PROVE  /\ Child(q, a) \in 2..n /\ Child(q, a) \div 2 = a /\ Child(q, a) > a
           /\ \A i \in 2..n : i \div 2 = a => key(q, Child(q, a)) <= key(q, i)
<1>1. Len(q.items) = n /\ \A i \in 1..n : key(q, i) \in Int
  BY HeapKeys
<1>2. (2 * a) \div 2 = a /\ (2 * a + 1) \div 2 = a /\ a >= 1
  BY Children
<1>3. Child(q, a) = IF 2 * a + 1 <= n /\ key(q, 2 * a + 1) < key(q, 2 * a) THEN 2 * a + 1 ELSE 2 * a
  BY <1>1 DEF Child, Less, key
<1>4. ASSUME NEW i \in 2..n, i \div 2 = a PROVE key(q, Child(q, a)) <= key(q, i)
  <2>1. i = 2 * a \/ i = 2 * a + 1
    BY <1>4, Parents
  <2>2. key(q, 2 * a) \in Int /\ (2 * a + 1 <= n => key(q, 2 * a + 1) \in Int)
    BY <1>1
  <2>3. CASE i = 2 * a
    BY <1>3, <2>2, <2>3
  <2>4. CASE i = 2 * a + 1
    BY <1>3, <2>2, <2>4
  <2> QED
    BY <2>1, <2>3, <2>4
<1>5. Child(q, a) \in 2..n /\ Child(q, a) \div 2 = a /\ Child(q, a) > a
  BY <1>2, <1>3
<1> QED
  BY <1>4, <1>5

\* One iteration of down.
LEMMA DownStepKeeps ==
    ASSUME NEW S, NEW n \in Nat, NEW nx \in [S -> Int], NEW q0, NEW i0 \in 1..n, NEW k \in Nat,
           NEW s \in DownStates(S, n, nx, q0, i0, k)
    PROVE  DownStep(s) \in DownStates(S, n, nx, q0, i0, k + 1)
<1> DEFINE q == s.q
           a == s.at
           c == Child(q, a)
<1>1. q \in Heaps(S, n, nx) /\ a \in 1..n /\ OrderedAround(q, n, a, a # i0) /\ a >= i0
      /\ (a = i0 => q = q0) /\ s \in [q: Heaps(S, n, nx), at: 1..n]
      /\ (DownStopped(s) \/ a >= i0 + k)
  BY DEF DownStates
<1>2. CASE DownStopped(s)
  <2>1. DownStep(s) = s
    BY <1>2 DEF DownStep, DownStopped
  <2> QED
    BY <1>1, <1>2, <2>1 DEF DownStates
<1>3. CASE ~DownStopped(s)
  <2> DEFINE w == Swap(q, c, a)
             t == [q |-> w, at |-> c]
  <2>1. DownStep(s) = t
    BY <1>3 DEF DownStep, DownStopped
  <2>2. Len(q.items) = n /\ \A i \in 1..n : key(q, i) \in Int
    BY <1>1, HeapKeys
  <2>3. 2 * a <= n /\ key(q, c) < key(q, a)
    BY <1>1, <1>3, <2>2 DEF DownStopped, Less, key
  <2>4. c \in 2..n /\ c \div 2 = a /\ c > a
        /\ \A i \in 2..n : i \div 2 = a => key(q, c) <= key(q, i)
    BY <1>1, <2>3, ChildIsSmaller
  <2> HIDE DEF q, a, c
  <2>5. c \in 1..n /\ c # a
    BY <1>1, <2>4
  <2>6. w \in Heaps(S, n, nx)
        /\ \A i \in 1..n : key(w, i) =
               IF i = c THEN key(q, a) ELSE IF i = a THEN key(q, c) ELSE key(q, i)
    BY <1>1, <2>5, SwapHeap
  <2>7. \A i \in 2..n : i \div 2 \in 1..n /\ i \div 2 < i /\ i \in 1..n
    BY Parents
  <2>8. /\ \A i \in 2..n : i \div 2 # a /\ i # a => key(q, i \div 2) <= key(q, i)
        /\ \A i \in 2..n : i \div 2 = a /\ a >= 2 => key(q, a \div 2) <= key(q, i)
    BY <1>1 DEF OrderedAround
  <2> HIDE DEF w
  <2>9. ASSUME NEW i \in 2..n, i \div 2 # c PROVE key(w, i \div 2) <= key(w, i)
    <3> DEFINE d == i \div 2
    <3>1. d \in 1..n /\ d < i /\ i \in 1..n
      BY <2>7
    <3>2. /\ d # a /\ i # a => key(q, d) <= key(q, i)
          /\ d = a => key(q, c) <= key(q, i)
          /\ i = a => key(q, d) <= key(q, c)
          /\ i = c => d = a
      BY <2>4, <2>8, <2>9
    <3> HIDE DEF d
    <3>3. d # c
      BY <2>9 DEF d
    <3>4. key(w, d) = IF d = a THEN key(q, c) ELSE key(q, d)
      BY <2>6, <3>1, <3>3
    <3>5. key(w, i) = IF i = c THEN key(q, a) ELSE IF i = a THEN key(q, c) ELSE key(q, i)
      BY <2>6, <3>1
    <3>6. {key(q, i), key(q, d), key(q, c), key(q, a)} \subseteq Int
      BY <1>1, <2>2, <2>5, <3>1
    <3>7. key(w, d) <= key(w, i)
      BY <2>3, <2>5, <3>1, <3>2, <3>4, <3>5, <3>6
    <3> QED
      BY <3>7 DEF d
  <2>10. ASSUME NEW i \in 2..n, i \div 2 = c PROVE key(w, c \div 2) <= key(w, i)
    <3>1. i \in 1..n /\ i > c /\ i # a /\ i # c /\ c # a
      BY <1>1, <2>4, <2>7, <2>10
    <3>2. key(q, c) <= key(q, i)
      BY <2>8, <2>10, <3>1
    <3>3. key(w, a) = key(q, c) /\ key(w, i) = key(q, i)
      BY <1>1, <2>6, <3>1
    <3> QED
      BY <2>4, <3>2, <3>3
  <2>11. OrderedAround(w, n, c, TRUE)
    BY <2>9, <2>10 DEF OrderedAround
  <2>12. c >= i0 + (k + 1) /\ c >= i0 /\ c # i0
    BY <1>1, <1>3, <2>4
  <2>13. t \in [q: Heaps(S, n, nx), at: 1..n] /\ t.q = w /\ t.at = c
    BY <2>5, <2>6
  <2> HIDE DEF t
  <2> QED
    BY <2>1, <2>11, <2>12, <2>13 DEF DownStates, OrderedAround
<1> QED
  BY <1>2, <1>3

\* down ends where no child comes first.
LEMMA DownHeap ==
    ASSUME NEW S, NEW n \in Nat, NEW nx \in [S -> Int], NEW q \in Heaps(S, n, nx),
           NEW i \in 1..n, OrderedAround(q, n, i, FALSE)
    PROVE  down(q, i) \in DownStates(S, n, nx, q, i, n) /\ DownStopped(down(q, i))
<1> DEFINE D(k) == DownStates(S, n, nx, q, i, k)
           A == UNION {D(k) : k \in Nat}
           step == [s \in A |-> DownStep(s)]
           a == [q |-> q, at |-> i]
           P(f) == f = [k \in 0..Len(q.items) |-> IF k = 0 THEN a ELSE DownStep(f[k - 1])]
           f == DownLoop(q, i)
<1>1. a \in D(0)
  <2>1. a \in [q: Heaps(S, n, nx), at: 1..n] /\ a.q = q /\ a.at = i
    OBVIOUS
  <2>2. (a.at # i) = FALSE
    BY <2>1
  <2>3. OrderedAround(a.q, n, a.at, a.at # i)
    BY <2>1, <2>2
  <2> QED
    BY <2>1, <2>3 DEF DownStates
<1>2. \A k \in Nat : \A s \in D(k) : DownStep(s) \in D(k + 1)
  BY DownStepKeeps
<1> HIDE DEF D, a
<1>3. a \in A
  BY <1>1
<1>4. step \in [A -> A]
  BY <1>2
<1>5. Len(q.items) = n
  BY HeapKeys
<1>6. \E g : P(g)
  <2>1. PICK B, st, b : B = A /\ st = step /\ b = a
    OBVIOUS
  <2>2. b \in B /\ st \in [B -> B] /\ \A s \in B : st[s] = DownStep(s)
    BY <1>3, <1>4, <2>1
  <2>3. PICK g \in [0..n -> B] : IsLoop(g, b, st, n)
    BY <2>2, LoopExists
  <2>4. g[0] = b /\ \A k \in 1..n : g[k] = DownStep(g[k - 1])
    BY <2>2, <2>3 DEF IsLoop
  <2>5. P(g)
    BY <1>5, <2>1, <2>3, <2>4
  <2> QED
    BY <2>5
<1>7. f = CHOOSE g : P(g)
  BY Zenon DEF DownLoop, a
<1> HIDE DEF P, f
<1>8. P(f)
  BY <1>6, <1>7, Zenon
<1>9. f[0] = a /\ \A k \in 1..n : f[k] = DownStep(f[k - 1])
  BY <1>5, <1>8 DEF P
<1> DEFINE B == [k \in 0..n |-> D(k)]
<1>10. f[0] \in B[0]
  BY <1>1, <1>9
<1>11. ASSUME NEW k \in 1..n, f[k - 1] \in B[k - 1] PROVE f[k] \in B[k]
  <2>1. k - 1 \in Nat /\ (k - 1) + 1 = k /\ f[k - 1] \in D(k - 1)
    BY <1>11
  <2>2. DownStep(f[k - 1]) \in D(k)
    BY <1>2, <2>1
  <2> QED
    BY <1>9, <2>2
<1> HIDE DEF B
<1>12. f[n] \in B[n]
  BY <1>10, <1>11, LoopInvariant
<1>13. f[n] \in DownStates(S, n, nx, q, i, n)
  BY <1>12 DEF B, D
<1>14. DownStopped(f[n])
  BY <1>13 DEF DownStates
<1>15. down(q, i) = f[n]
  BY <1>5 DEF down, f
<1> QED
  BY <1>13, <1>14, <1>15

\* heap.Fix restores the order around a position whose refresh time changed.
LEMMA FixHeap ==
    ASSUME NEW S, NEW n \in Nat, NEW nx \in [S -> Int], NEW q \in Heaps(S, n, nx),
           NEW i \in 1..n, OrderedAround(q, n, i, FALSE)
    PROVE  Fix(q, i) \in Heaps(S, n, nx) /\ Ordered(Fix(q, i), n)
<1>1. PICK s : s = down(q, i)
  OBVIOUS
<1>2. s \in DownStates(S, n, nx, q, i, n) /\ DownStopped(s)
  BY <1>1, DownHeap
<1>3. PICK w, a : w = s.q /\ a = s.at
  OBVIOUS
<1>4. w \in Heaps(S, n, nx) /\ a \in 1..n /\ a >= i /\ (a = i => w = q)
      /\ OrderedAround(w, n, a, a # i)
  BY <1>2, <1>3 DEF DownStates
<1>5. Len(w.items) = n /\ \A x \in 1..n : key(w, x) \in Int
  BY <1>4, HeapKeys
<1>6. 2 * a > n \/ ~(key(w, Child(w, a)) < key(w, a))
  BY <1>2, <1>3, <1>5 DEF DownStopped, Less, key
<1>7. ASSUME NEW x \in 2..n, x \div 2 = a PROVE key(w, a) <= key(w, x)
  <2>1. 2 * a <= n
    BY <1>4, <1>7, Parents
  <2>2. Child(w, a) \in 2..n /\ key(w, Child(w, a)) <= key(w, x)
    BY <1>4, <1>7, <2>1, ChildIsSmaller
  <2>3. ~(key(w, Child(w, a)) < key(w, a))
    BY <1>4, <1>6, <2>1
  <2>4. Child(w, a) \in 1..n /\ x \in 1..n
    BY <2>2
  <2>5. key(w, Child(w, a)) \in Int /\ key(w, a) \in Int /\ key(w, x) \in Int
    BY <1>4, <1>5, <2>4
  <2> QED
    BY <2>2, <2>3, <2>5
<1>8. CASE a > i
  <2>1. Ordered(w, n)
    BY <1>4, <1>7, <1>8 DEF Ordered, OrderedAround
  <2> QED
    BY <1>1, <1>3, <1>4, <1>8, <2>1 DEF Fix
<1>9. CASE ~(a > i)
  <2>1. a = i /\ w = q
    BY <1>4, <1>9
  <2>2. OrderedBut(q, n, i)
    BY <1>4, <1>7, <2>1 DEF OrderedBut, OrderedAround
  <2>3. Fix(q, i) = up(q, i)
    BY <1>1, <1>3, <1>9 DEF Fix
  <2> QED
    BY <2>2, <2>3, UpHeap
<1> QED
  BY <1>8, <1>9

\* The queue of a cycle: a heap of the hosts that asked for a refresh.
IsHeap(q) ==
    /\ Len(q.items) \in Nat /\ q.next \in [DOMAIN q.next -> Int]
    /\ q \in Heaps(DOMAIN q.next, Len(q.items), q.next)
    /\ Ordered(q, Len(q.items))

\* The empty queue.
LEMMA NewHeap == IsHeap(NewTTLQueue)
<1> DEFINE q == NewTTLQueue
<1>1. q.items = <<>> /\ q.next = <<>> /\ q.index = <<>> /\ Len(q.items) = 0
      /\ q = [items |-> <<>>, next |-> <<>>, index |-> <<>>]
  BY DEF NewTTLQueue
<1>2. DOMAIN q.next = {} /\ 1..0 = {}
  BY <1>1
<1>3. q.items \in [{} -> {}] /\ q.index \in [{} -> {}] /\ q.next \in [{} -> Int]
  BY <1>1
<1>4. q \in Heaps({}, 0, <<>>)
  BY <1>1, <1>2, <1>3 DEF Heaps
<1> QED
  BY <1>1, <1>2, <1>3, <1>4 DEF IsHeap, Ordered

\* The hosts of a queue are the ones with a refresh time.
LEMMA HeapHosts ==
    ASSUME NEW q, IsHeap(q)
    PROVE  Range(q.items) = DOMAIN q.next
<1> DEFINE S == DOMAIN q.next
           n == Len(q.items)
<1>1. /\ q.items \in [1..n -> S] /\ q.index \in [S -> 1..n]
      /\ \A x \in S : q.items[q.index[x]] = x
  BY DEF IsHeap, Heaps
<1> QED
  BY <1>1 DEF Range

\* A queue of hosts S is a heap.
LEMMA HeapOf ==
    ASSUME NEW S, NEW n \in Nat, NEW nx \in [S -> Int], NEW q \in Heaps(S, n, nx), Ordered(q, n)
    PROVE  IsHeap(q) /\ q.next = nx
<1>1. Len(q.items) = n
  BY HeapKeys
<1>2. q.next = nx /\ DOMAIN nx = S
  BY DEF Heaps
<1> QED
  BY <1>1, <1>2 DEF IsHeap

\* Upsert of a host that is queued: its refresh time changes.
LEMMA UpsertKnown ==
    ASSUME NEW q, IsHeap(q), NEW h \in DOMAIN q.next, NEW t \in Int
    PROVE  /\ IsHeap(Upsert(q, h, t))
           /\ Upsert(q, h, t).next = [q.next EXCEPT ![h] = t]
<1> DEFINE w == [q EXCEPT !.next[h] = t]
<1>1. PICK S, n, nx, i, my : S = DOMAIN q.next /\ n = Len(q.items) /\ nx = q.next /\ i = q.index[h]
                             /\ my = [nx EXCEPT ![h] = t]
  OBVIOUS
<1>2. n \in Nat /\ nx \in [S -> Int] /\ q \in Heaps(S, n, nx) /\ Ordered(q, n) /\ h \in S
  BY <1>1 DEF IsHeap
<1>3. q \in [items: [1..n -> S], next: {nx}, index: [S -> 1..n]]
      /\ (\A k \in 1..n : q.index[q.items[k]] = k) /\ (\A y \in S : q.items[q.index[y]] = y)
  BY <1>2 DEF Heaps
<1>4. i \in 1..n /\ q.items[i] = h
  BY <1>1, <1>2, <1>3
<1>5. my \in [S -> Int] /\ my[h] = t /\ \A y \in S : y # h => my[y] = nx[y]
  BY <1>1, <1>2
<1>6. w = [q EXCEPT !.next = my]
  BY <1>1
<1>7. w \in [items: [1..n -> S], next: {my}, index: [S -> 1..n]]
      /\ w.items = q.items /\ w.index = q.index /\ w.next = my
  BY <1>3, <1>6
<1>8. w \in Heaps(S, n, my)
  BY <1>3, <1>7 DEF Heaps
<1>9. \A k \in 1..n : key(w, k) = IF k = i THEN t ELSE key(q, k)
  <2> SUFFICES ASSUME NEW k \in 1..n PROVE key(w, k) = IF k = i THEN t ELSE key(q, k)
    OBVIOUS
  <2>1. q.items[k] \in S /\ (q.items[k] = h <=> k = i)
    BY <1>1, <1>3, <1>4
  <2>2. key(w, k) = my[q.items[k]] /\ key(q, k) = nx[q.items[k]]
    BY <1>7, <1>3 DEF key
  <2> QED
    BY <1>5, <2>1, <2>2
<1>10. \A k \in 1..n : key(q, k) \in Int
  BY <1>2, HeapKeys
<1>11. \A k \in 2..n : k \div 2 \in 1..n /\ k \div 2 < k /\ k \in 1..n /\ key(q, k \div 2) <= key(q, k)
  BY <1>2, Parents DEF Ordered
<1> HIDE DEF w
<1>12. OrderedAround(w, n, i, FALSE)
  <2>1. ASSUME NEW k \in 2..n, k \div 2 # i, k # i PROVE key(w, k \div 2) <= key(w, k)
    BY <1>9, <1>11, <2>1
  <2>2. ASSUME NEW k \in 2..n, k \div 2 = i, i >= 2 PROVE key(w, i \div 2) <= key(w, k)
    <3> DEFINE e == i \div 2
    <3>1. i \in 2..n /\ e \in 1..n /\ e < i /\ key(q, e) <= key(q, i)
      BY <1>4, <1>11, <2>2
    <3>2. key(q, i) <= key(q, k) /\ k \in 1..n /\ k > i
      BY <1>11, <2>2
    <3> HIDE DEF e
    <3>3. key(w, e) = key(q, e) /\ key(w, k) = key(q, k)
      BY <1>9, <3>1, <3>2
    <3>4. key(q, e) \in Int /\ key(q, i) \in Int /\ key(q, k) \in Int
      BY <1>4, <1>10, <3>1, <3>2
    <3>5. key(w, e) <= key(w, k)
      BY <3>1, <3>2, <3>3, <3>4
    <3> QED
      BY <3>5 DEF e
  <2> QED
    BY <2>1, <2>2 DEF OrderedAround
<1>13. PICK r : r = Fix(w, i)
  OBVIOUS
<1>14. r \in Heaps(S, n, my) /\ Ordered(r, n)
  BY <1>2, <1>4, <1>5, <1>8, <1>12, <1>13, FixHeap
<1>15. IsHeap(r) /\ r.next = my
  BY <1>2, <1>5, <1>14, HeapOf
<1>16. Upsert(q, h, t) = r
  BY <1>1, <1>13, HeapHosts DEF Upsert, w
<1> QED
  BY <1>1, <1>15, <1>16

\* Upsert of another host: heap.Push.
LEMMA UpsertNew ==
    ASSUME NEW q, IsHeap(q), NEW h, h \notin DOMAIN q.next, NEW t \in Int
    PROVE  /\ IsHeap(Upsert(q, h, t))
           /\ Upsert(q, h, t).next = [x \in DOMAIN q.next \cup {h} |-> IF x = h THEN t ELSE q.next[x]]
<1>1. PICK S, n, nx : S = DOMAIN q.next /\ n = Len(q.items) /\ nx = q.next
  OBVIOUS
<1>2. n \in Nat /\ nx \in [S -> Int] /\ q \in Heaps(S, n, nx) /\ Ordered(q, n) /\ h \notin S
  BY <1>1 DEF IsHeap
<1>3. q \in [items: [1..n -> S], next: {nx}, index: [S -> 1..n]]
      /\ (\A k \in 1..n : q.index[q.items[k]] = k) /\ (\A y \in S : q.items[q.index[y]] = y)
  BY <1>2 DEF Heaps
<1>4. PICK R, m, my, ix, it :
          /\ R = S \cup {h} /\ m = n + 1
          /\ my = [x \in R |-> IF x = h THEN t ELSE nx[x]]
          /\ ix = [x \in R |-> IF x = h THEN m ELSE q.index[x]]
          /\ it = Append(q.items, h)
  OBVIOUS
<1>5. my \in [R -> Int]
  BY <1>2, <1>4
<1>6. ix \in [R -> 1..m]
  BY <1>2, <1>3, <1>4
<1>7. it \in [1..m -> R] /\ it[m] = h /\ \A k \in 1..n : it[k] = q.items[k]
  <2>1. q.items \in Seq(R) /\ h \in R
    <3>1. q.items \in [1..n -> R]
      BY <1>3, <1>4
    <3> QED
      BY <1>2, <1>4, <3>1, SeqDef
  <2>2. it \in Seq(R) /\ Len(it) = m /\ it[m] = h /\ \A k \in 1..n : it[k] = q.items[k]
    BY <1>1, <1>4, <2>1, AppendProperties
  <2> QED
    BY <2>2, LenProperties
<1> DEFINE w == [items |-> it, next |-> my, index |-> ix]
<1>8. \A k \in 1..m : ix[it[k]] = k
  <2> SUFFICES ASSUME NEW k \in 1..m PROVE ix[it[k]] = k
    OBVIOUS
  <2>1. CASE k = m
    BY <1>4, <1>7, <2>1
  <2>2. CASE k # m
    <3>1. k \in 1..n
      BY <1>2, <1>4, <2>2
    <3>2. it[k] = q.items[k] /\ q.items[k] \in S /\ q.index[q.items[k]] = k
      BY <1>3, <1>7, <3>1
    <3> QED
      BY <1>2, <1>4, <3>2
  <2> QED
    BY <2>1, <2>2
<1>9. \A y \in R : it[ix[y]] = y
  <2> SUFFICES ASSUME NEW y \in R PROVE it[ix[y]] = y
    OBVIOUS
  <2>1. CASE y = h
    BY <1>4, <1>7, <2>1
  <2>2. CASE y # h
    <3>1. y \in S /\ ix[y] = q.index[y] /\ q.index[y] \in 1..n
      BY <1>3, <1>4, <2>2
    <3> QED
      BY <1>3, <1>7, <3>1
  <2> QED
    BY <2>1, <2>2
<1>10. w \in Heaps(R, m, my)
  BY <1>5, <1>6, <1>7, <1>8, <1>9 DEF Heaps
<1>11. \A k \in 1..n : key(w, k) = key(q, k)
  <2> SUFFICES ASSUME NEW k \in 1..n PROVE key(w, k) = key(q, k)
    OBVIOUS
  <2>1. it[k] = q.items[k] /\ q.items[k] \in S /\ q.next = nx
    BY <1>3, <1>7
  <2>2. my[it[k]] = nx[q.items[k]]
    BY <1>2, <1>4, <2>1
  <2> QED
    BY <2>1, <2>2 DEF key
<1> HIDE DEF w
<1>12. OrderedBut(w, m, m)
  <2>1. ASSUME NEW k \in 2..m, k # m PROVE key(w, k \div 2) <= key(w, k)
    <3>1. k \in 2..n
      BY <1>2, <1>4, <2>1
    <3>2. key(q, k \div 2) <= key(q, k) /\ k \in 1..n /\ k \div 2 \in 1..n
      BY <1>2, <3>1, Parents DEF Ordered
    <3> QED
      BY <1>11, <3>2
  <2>2. ASSUME NEW k \in 2..m, k \div 2 = m PROVE FALSE
    BY <1>2, <1>4, <2>2, Parents
  <2> QED
    BY <2>1, <2>2 DEF OrderedBut
<1>13. m \in Nat /\ m \in 1..m
  BY <1>2, <1>4
<1>14. PICK r : r = up(w, m)
  OBVIOUS
<1>15. r \in Heaps(R, m, my) /\ Ordered(r, m)
  BY <1>5, <1>10, <1>12, <1>13, <1>14, UpHeap
<1>16. IsHeap(r) /\ r.next = my
  BY <1>5, <1>13, <1>15, HeapOf
<1>17. Upsert(q, h, t) = r
  <2>1. Range(q.items) = S
    BY <1>1, HeapHosts
  <2> QED
    BY <1>1, <1>2, <1>4, <1>14, <2>1 DEF Upsert, w
<1> QED
  BY <1>1, <1>4, <1>16, <1>17

\* The root is refreshed first.
LEMMA RootFirst ==
    ASSUME NEW q, IsHeap(q), Len(q.items) > 0
    PROVE  \A i \in 1..Len(q.items) : key(q, 1) <= key(q, i)
<1>1. PICK n : n = Len(q.items)
  OBVIOUS
<1>2. n \in Nat /\ n > 0 /\ Ordered(q, n) /\ \A i \in 1..n : key(q, i) \in Int
  BY <1>1, HeapKeys DEF IsHeap
<1> DEFINE T == {i \in 1..n : ~(key(q, 1) <= key(q, i))}
<1> SUFFICES ASSUME T # {} PROVE FALSE
  BY <1>1
<1>3. T \subseteq Nat
  OBVIOUS
<1>4. PICK m : m = Min(T)
  OBVIOUS
<1>5. m \in T /\ \A x \in T : m <= x
  BY <1>3, <1>4, LeastExists
<1>6. m \in 2..n
  BY <1>2, <1>5
<1>7. m \div 2 \in 1..n /\ m \div 2 < m /\ key(q, m \div 2) <= key(q, m)
  BY <1>2, <1>6, Parents DEF Ordered
<1>8. m \div 2 \notin T
  BY <1>5, <1>6, <1>7
<1>9. key(q, 1) <= key(q, m \div 2)
  BY <1>7, <1>8
<1>10. key(q, 1) \in Int /\ key(q, m) \in Int /\ key(q, m \div 2) \in Int
  BY <1>2, <1>6, <1>7
<1> QED
  BY <1>5, <1>7, <1>9, <1>10

\* PeekNext is the earliest of the refreshes queued.
LEMMA PeekFirst ==
    ASSUME NEW q, IsHeap(q)
    PROVE  /\ q.items = <<>> <=> Range(q.next) = {}
           /\ q.items # <<>> => PeekNext(q) = Min(Range(q.next)) /\ PeekNext(q) \in Int
<1>1. PICK S, n : S = DOMAIN q.next /\ n = Len(q.items)
  OBVIOUS
<1>2. n \in Nat /\ q.next \in [S -> Int] /\ q.items \in [1..n -> S] /\ q.index \in [S -> 1..n]
      /\ \A x \in S : q.items[q.index[x]] = x
  BY <1>1 DEF IsHeap, Heaps
<1>3. q.items \in Seq(S)
  BY <1>2, SeqDef
<1>4. CASE n = 0
  <2>1. q.items = <<>>
    BY <1>1, <1>3, <1>4, EmptySeq
  <2>2. S = {}
    BY <1>2, <1>4
  <2>3. Range(q.next) = {}
    BY <1>1, <2>2 DEF Range
  <2> QED
    BY <2>1, <2>3
<1>5. CASE n # 0
  <2>1. q.items # <<>> /\ Len(q.items) > 0 /\ 1 \in 1..n
    BY <1>1, <1>2, <1>3, <1>5, EmptySeq
  <2>2. PICK m : m = key(q, 1)
    OBVIOUS
  <2>3. m = PeekNext(q)
    BY <2>2 DEF PeekNext, key
  <2>4. m \in Range(q.next) /\ m \in Int
    BY <1>1, <1>2, <2>1, <2>2 DEF Range, key
  <2>5. ASSUME NEW y \in Range(q.next) PROVE m <= y /\ y \in Int
    <3>1. PICK x \in S : y = q.next[x]
      BY <1>1, <2>5 DEF Range
    <3>2. q.index[x] \in 1..n /\ y = key(q, q.index[x]) /\ y \in Int
      BY <1>2, <3>1 DEF key
    <3> QED
      BY <1>1, <2>1, <2>2, <3>2, RootFirst
  <2>6. Min(Range(q.next)) = m
    <3> DEFINE R == Range(q.next)
    <3>1. \A z \in R : (\A y \in R : z <= y) => z = m
      BY <2>4, <2>5
    <3> HIDE DEF R
    <3> QED
      BY <2>4, <2>5, <3>1 DEF Min, R
  <2> QED
    BY <2>1, <2>3, <2>4, <2>6
<1> QED
  BY <1>2, <1>4, <1>5

\* MinDelay is the floor without a refresh to wait for, and otherwise the time
\* until the earliest one, but not less than the floor.
LEMMA MinDelayOnTime ==
    ASSUME NEW q, IsHeap(q), NEW now \in Int, NEW floor \in Nat
    PROVE  /\ MinDelay(q, now, floor) \in Nat
           /\ MinDelay(q, now, floor) = IF Range(q.next) = {} THEN floor
                                        ELSE Max({floor, Min(Range(q.next)) - now})
<1>1. CASE q.items = <<>>
  BY <1>1, PeekFirst DEF MinDelay
<1>2. CASE q.items # <<>>
  <2>1. PICK m : m = PeekNext(q)
    OBVIOUS
  <2>2. m = Min(Range(q.next)) /\ m \in Int /\ Range(q.next) # {}
    BY <1>2, <2>1, PeekFirst
  <2>3. MinDelay(q, now, floor) = Max({m - now, floor})
    BY <1>2, <2>1 DEF MinDelay
  <2>4. PICK d : d = m - now
    OBVIOUS
  <2>5. d \in Int /\ {d, floor} = {floor, d}
    BY <2>2, <2>4
  <2>6. Max({floor, d}) \in {floor, d} /\ Max({floor, d}) >= floor
    <3>1. \E x \in {floor, d} : \A y \in {floor, d} : x >= y
      <4>1. CASE d >= floor
        BY <2>5, <4>1
      <4>2. CASE ~(d >= floor)
        BY <2>5, <4>2
      <4> QED
        BY <4>1, <4>2
    <3> QED
      BY <3>1 DEF Max
  <2>7. Max({floor, d}) \in Nat
    BY <2>5, <2>6
  <2> QED
    BY <2>2, <2>3, <2>4, <2>5, <2>7
<1> QED
  BY <1>1, <1>2
----------------------------------------------------------------------------
(* The churn ring.                                                         *)

\* How many recordings ago a slot was written.
Age(head, k) == IF k < head THEN head - k ELSE head - k + ChurnRingSize

\* A slot holds the set recorded that many recordings ago, if there were as many.
RingOK(ring, seq) ==
    /\ ring \in [slots: [1..ChurnRingSize -> SUBSET Ips], head: 1..ChurnRingSize]
    /\ seq \in Seq(SUBSET Ips) /\ Len(seq) <= ChurnRingSize
    /\ \A k \in 1..ChurnRingSize :
           ring.slots[k] = IF Age(ring.head, k) <= Len(seq)
                           THEN seq[Len(seq) - Age(ring.head, k) + 1] ELSE {}

\* The ring's head moves to the next slot, after the last one to the first.
LEMMA HeadMoves ==
    ASSUME NEW n \in Nat \ {0}, NEW i \in 1..n
    PROVE  (i % n) + 1 = IF i = n THEN 1 ELSE i + 1
<1>1. CASE i = n
  BY <1>1
<1>2. CASE i # n
  BY <1>2
<1> QED
  BY <1>1, <1>2

\* A new ring, and no recording.
LEMMA NewRingOK == RingOK(NewRing, <<>>)
<1>1. ChurnRingSize \in Nat \ {0}
  BY TrackerConstants
<1>2. NewRing \in [slots: [1..ChurnRingSize -> SUBSET Ips], head: 1..ChurnRingSize]
      /\ NewRing.head = 1 /\ \A k \in 1..ChurnRingSize : NewRing.slots[k] = {}
  BY <1>1 DEF NewRing
<1>3. \A k \in 1..ChurnRingSize : ~(Age(1, k) <= 0)
  BY <1>1 DEF Age
<1>4. <<>> \in Seq(SUBSET Ips) /\ Len(<<>>) = 0
  BY EmptySeq
<1>5. PICK r, s : r = NewRing /\ s = <<>>
  OBVIOUS
<1>6. r \in [slots: [1..ChurnRingSize -> SUBSET Ips], head: 1..ChurnRingSize]
      /\ \A k \in 1..ChurnRingSize : r.slots[k] = {} /\ ~(Age(r.head, k) <= Len(s))
  BY <1>2, <1>3, <1>4, <1>5
<1>7. s \in Seq(SUBSET Ips) /\ Len(s) <= ChurnRingSize
  BY <1>1, <1>4, <1>5
<1>8. RingOK(r, s)
  BY <1>6, <1>7 DEF RingOK
<1> QED
  BY <1>5, <1>8

\* A recording makes every other slot one older.
LEMMA RecordRingOK ==
    ASSUME NEW ring, NEW seq, RingOK(ring, seq), NEW ips \in SUBSET Ips
    PROVE  RingOK(RecordRing(ring, ips),
                  LET all == Append(seq, ips)
                  IN  IF Len(all) > ChurnRingSize THEN Tail(all) ELSE all)
<1>1. PICK N, h, L, all, w :
          /\ N = ChurnRingSize /\ h = ring.head /\ L = Len(seq)
          /\ all = Append(seq, ips) /\ w = RecordRing(ring, ips)
  OBVIOUS
<1>2. N \in Nat \ {0} /\ h \in 1..N /\ L \in Nat /\ L <= N /\ seq \in Seq(SUBSET Ips)
      /\ ring.slots \in [1..N -> SUBSET Ips]
  BY <1>1, TrackerConstants, LenProperties DEF RingOK
<1>3. all \in Seq(SUBSET Ips) /\ Len(all) = L + 1 /\ all[L + 1] = ips
      /\ \A i \in 1..L : all[i] = seq[i]
  BY <1>1, <1>2, AppendProperties
<1>4. w.head = IF h = N THEN 1 ELSE h + 1
  BY <1>1, <1>2, HeadMoves DEF RecordRing
<1>5. w \in [slots: [1..N -> SUBSET Ips], head: 1..N]
      /\ \A k \in 1..N : w.slots[k] = IF k = h THEN ips ELSE ring.slots[k]
  BY <1>1, <1>2, <1>4 DEF RecordRing
<1>6. Age(w.head, h) = 1 /\ \A k \in 1..N : k # h => Age(w.head, k) = Age(h, k) + 1
  <2>1. CASE h = N
    <3>1. w.head = 1
      BY <1>4, <2>1
    <3> QED
      BY <1>1, <1>2, <2>1, <3>1 DEF Age
  <2>2. CASE h # N
    <3>1. w.head = h + 1
      BY <1>4, <2>2
    <3>2. Age(h + 1, h) = 1
      BY <1>1, <1>2 DEF Age
    <3>3. ASSUME NEW k \in 1..N, k # h PROVE Age(h + 1, k) = Age(h, k) + 1
      <4>1. CASE k < h
        BY <1>1, <1>2, <4>1 DEF Age
      <4>2. CASE k > h
        <5>1. ~(k < h) /\ ~(k < h + 1)
          BY <1>2, <4>2
        <5> QED
          BY <1>1, <1>2, <5>1 DEF Age
      <4> QED
        BY <1>2, <3>3, <4>1, <4>2
    <3> QED
      BY <3>1, <3>2, <3>3
  <2> QED
    BY <2>1, <2>2
<1>7. \A k \in 1..N : Age(h, k) \in 1..N /\ (k # h => Age(h, k) < N)
  BY <1>1, <1>2 DEF Age
<1>8. \A k \in 1..N : ring.slots[k] = IF Age(h, k) <= L THEN seq[L - Age(h, k) + 1] ELSE {}
  BY <1>1 DEF RingOK
<1>9. CASE L < N
  <2>1. \A k \in 1..N : w.slots[k] = IF Age(w.head, k) <= L + 1
                                      THEN all[(L + 1) - Age(w.head, k) + 1] ELSE {}
    <3> SUFFICES ASSUME NEW k \in 1..N
                 PROVE  w.slots[k] = IF Age(w.head, k) <= L + 1
                                     THEN all[(L + 1) - Age(w.head, k) + 1] ELSE {}
      OBVIOUS
    <3>1. CASE k = h
      BY <1>2, <1>3, <1>5, <1>6, <3>1
    <3>2. CASE k # h
      <4>1. PICK a : a = Age(h, k)
        OBVIOUS
      <4>2. a \in 1..N /\ Age(w.head, k) = a + 1 /\ w.slots[k] = ring.slots[k]
            /\ ring.slots[k] = IF a <= L THEN seq[L - a + 1] ELSE {}
        BY <1>5, <1>6, <1>7, <1>8, <3>2, <4>1
      <4>3. a <= L => L - a + 1 \in 1..L /\ (L + 1) - (a + 1) + 1 = L - a + 1
        BY <1>2, <4>2
      <4> QED
        BY <1>2, <1>3, <4>2, <4>3
    <3> QED
      BY <3>1, <3>2
  <2>2. ~(Len(all) > N) /\ Len(all) <= N
    BY <1>2, <1>3, <1>9
  <2>3. RingOK(w, all)
    <3>1. \A k \in 1..N : w.slots[k] = IF Age(w.head, k) <= Len(all)
                                        THEN all[Len(all) - Age(w.head, k) + 1] ELSE {}
      BY <1>3, <2>1
    <3> QED
      BY <1>1, <1>3, <1>5, <2>2, <3>1 DEF RingOK
  <2> QED
    BY <1>1, <2>2, <2>3
<1>10. CASE L = N
  <2>1. PICK t : t = Tail(all)
    OBVIOUS
  <2>2. all # <<>>
    BY <1>2, <1>3, EmptySeq
  <2>3. t \in Seq(SUBSET Ips) /\ Len(t) = N /\ \A i \in 1..N : t[i] = all[i + 1]
    BY <1>2, <1>3, <1>10, <2>1, <2>2, HeadTailProperties
  <2>4. \A k \in 1..N : w.slots[k] = IF Age(w.head, k) <= N
                                      THEN t[N - Age(w.head, k) + 1] ELSE {}
    <3> SUFFICES ASSUME NEW k \in 1..N
                 PROVE  w.slots[k] = IF Age(w.head, k) <= N
                                     THEN t[N - Age(w.head, k) + 1] ELSE {}
      OBVIOUS
    <3>1. CASE k = h
      <4>1. t[N] = ips
        BY <1>2, <1>3, <1>10, <2>3
      <4> QED
        BY <1>2, <1>5, <1>6, <3>1, <4>1
    <3>2. CASE k # h
      <4>1. PICK a : a = Age(h, k)
        OBVIOUS
      <4>2. a \in 1..N /\ a < N /\ Age(w.head, k) = a + 1 /\ w.slots[k] = ring.slots[k]
        BY <1>5, <1>6, <1>7, <3>2, <4>1
      <4>5. ring.slots[k] = seq[N - a + 1]
        <5>1. ring.slots[k] = IF a <= L THEN seq[L - a + 1] ELSE {}
          BY <1>8, <4>1
        <5>2. a <= L
          BY <1>2, <1>10, <4>2
        <5> QED
          BY <1>10, <5>1, <5>2
      <4>3. N - a \in 1..N /\ N - (a + 1) + 1 = N - a /\ N - a + 1 \in 1..N
        BY <1>2, <4>2
      <4>4. t[N - a] = seq[N - a + 1]
        BY <1>3, <1>10, <2>3, <4>3
      <4> QED
        BY <1>2, <4>2, <4>3, <4>4, <4>5
    <3> QED
      BY <3>1, <3>2
  <2>5. Len(all) > N
    BY <1>2, <1>3, <1>10
  <2>6. RingOK(w, t)
    BY <1>1, <1>2, <1>5, <2>3, <2>4 DEF RingOK
  <2> QED
    BY <1>1, <2>1, <2>5, <2>6
<1> QED
  BY <1>2, <1>9, <1>10

\* The slots hold the addresses of the recent recordings.
LEMMA RingUnion ==
    ASSUME NEW ring, NEW seq, RingOK(ring, seq)
    PROVE  UNION Range(ring.slots) = UNION Range(seq)
<1>1. PICK N, h, L, slots : N = ChurnRingSize /\ h = ring.head /\ L = Len(seq) /\ slots = ring.slots
  OBVIOUS
<1>2. N \in Nat \ {0} /\ h \in 1..N /\ L \in Nat /\ L <= N /\ DOMAIN seq = 1..L
      /\ DOMAIN slots = 1..N
  BY <1>1, TrackerConstants, LenProperties DEF RingOK
<1>3. \A k \in 1..N : slots[k] = IF Age(h, k) <= L THEN seq[L - Age(h, k) + 1] ELSE {}
  BY <1>1 DEF RingOK
<1>4. \A k \in 1..N : Age(h, k) \in 1..N
  BY <1>1, <1>2 DEF Age
<1>5. ASSUME NEW x \in UNION Range(slots) PROVE x \in UNION Range(seq)
  <2>1. PICK k \in 1..N : x \in slots[k]
    BY <1>2, <1>5 DEF Range
  <2>2. Age(h, k) <= L /\ x \in seq[L - Age(h, k) + 1]
    BY <1>3, <2>1
  <2>3. L - Age(h, k) + 1 \in 1..L
    BY <1>2, <1>4, <2>2
  <2> QED
    BY <1>2, <2>2, <2>3 DEF Range
<1>6. ASSUME NEW x \in UNION Range(seq) PROVE x \in UNION Range(slots)
  <2>1. PICK i \in 1..L : x \in seq[i]
    BY <1>2, <1>6 DEF Range
  <2>2. PICK a, k : a = L - i + 1 /\ k = IF a < h THEN h - a ELSE h - a + N
    OBVIOUS
  <2>3. a \in 1..N /\ a <= L /\ L - a + 1 = i
    BY <1>2, <2>2
  <2>4. k \in 1..N /\ Age(h, k) = a
    BY <1>1, <1>2, <2>2, <2>3 DEF Age
  <2>5. slots[k] = seq[i]
    BY <1>3, <2>3, <2>4
  <2> QED
    BY <1>2, <2>1, <2>4, <2>5 DEF Range
<1> QED
  BY <1>1, <1>5, <1>6
----------------------------------------------------------------------------
(* The inductive invariant.                                                *)

Refreshes == UNION {[S -> Int] : S \in SUBSET Hosts}

Queues == {q \in [items: Seq(Hosts), next: Refreshes, index: Refreshes] : IsHeap(q)}

\* A cycle while it runs: its queue is a heap, and an entry is being enriched
\* exactly while addresses are left to do.
CycleOK(c, elapsed) ==
    /\ c \in [rules: Seq(Hosts), now: 0..elapsed, ttlQueue: Queues,
              at: {"rules", "request", "send", "get"}, todo: Seq(Ips),
              resolved: Seq(Entries), whole: BOOLEAN]
    /\ (c.todo = <<>>) = (c.at = "rules")
    /\ c.todo # <<>> => c.resolved # <<>>

CyclesOK ==
    /\ DOMAIN run = Reconcilers /\ DOMAIN status = Reconcilers /\ DOMAIN requeue = Reconcilers
    /\ \A r \in Reconcilers :
           /\ status[r] \in Seq(Entries)
           /\ requeue[r] = Nil \/ requeue[r] \in Nat
           /\ run[r] # Nil => CycleOK(run[r], setup.maxElapsed) /\ requeue[r] = Nil

RingsOK ==
    /\ DOMAIN rings = Hosts /\ DOMAIN recent = Hosts
    /\ \A h \in Hosts : RingOK(rings[h], recent[h])

EnrichmentOK ==
    /\ DOMAIN entries = Ips
    /\ \A ip \in Ips : entries[ip] # Nil => entries[ip] \in [result: Results, age: 0..CacheTTL]
    /\ queue \in Seq(Ips) /\ Len(queue) <= EnrichQueueLen
    /\ DOMAIN jobs = Workers
    /\ \A w \in Workers : jobs[w] # Nil => jobs[w] \in [ip: Ips, result: Results \cup {Nil}]
    /\ truth \in [Ips -> Results]

BudgetOK == setup \in Setups /\ left \in 0..setup.maxDisruptions

TrackerInv == CyclesOK /\ RingsOK /\ EnrichmentOK /\ BudgetOK

\* The addresses of an answer in some order.
LEMMA SetToSeqLists ==
    ASSUME NEW S, IsFiniteSet(S)
    PROVE  SetToSeq(S) \in Seq(S) /\ (SetToSeq(S) = <<>> <=> S = {})
<1> DEFINE n == Cardinality(S)
           f == SetToSeq(S)
<1>1. n \in Nat /\ Bijection(1..n, S) # {}
  BY FS_CardinalityType DEF ExistsBijection
<1>2. \E g \in [1..n -> S] : IsInjective(g)
  BY <1>1 DEF Bijection, Injection
<1>3. f \in [1..n -> S]
  BY <1>2 DEF SetToSeq
<1>4. f \in Seq(S)
  BY <1>1, <1>3, SeqDef
<1>5. Len(f) = n
  BY <1>1, <1>3, <1>4, LenProperties
<1>6. f = <<>> <=> n = 0
  <2> HIDE DEF f, n
  <2> QED
    BY <1>1, <1>4, <1>5, EmptySeq
<1>7. n = 0 <=> S = {}
  BY FS_EmptySet
<1> QED
  BY <1>4, <1>6, <1>7

\* A heap of hosts.
LEMMA HeapIsQueue ==
    ASSUME NEW q, IsHeap(q), DOMAIN q.next \subseteq Hosts
    PROVE  q \in Queues
<1>1. PICK S, n : S = DOMAIN q.next /\ n = Len(q.items)
  OBVIOUS
<1>2. n \in Nat /\ q.next \in [S -> Int]
      /\ q \in [items: [1..n -> S], next: {q.next}, index: [S -> 1..n]] /\ S \subseteq Hosts
  BY <1>1 DEF IsHeap, Heaps
<1>3. q.items \in [1..n -> Hosts] /\ q.index \in [S -> Int]
  BY <1>2
<1>4. q.items \in Seq(Hosts)
  <2>1. PICK f, H : f = q.items /\ H = Hosts
    OBVIOUS
  <2>2. n \in Nat /\ f \in [1..n -> H]
    BY <1>2, <1>3, <2>1
  <2>3. f \in Seq(H)
    BY <2>2, SeqDef
  <2> QED
    BY <2>1, <2>3
<1>5. q.next \in Refreshes /\ q.index \in Refreshes
  BY <1>2, <1>3 DEF Refreshes
<1>6. q = [items |-> q.items, next |-> q.next, index |-> q.index]
  BY <1>2
<1>7. q \in [items: Seq(Hosts), next: Refreshes, index: Refreshes]
  BY <1>4, <1>5, <1>6
<1> QED
  BY <1>7 DEF Queues

\* Upsert keeps the queue of a cycle.
LEMMA UpsertQueue ==
    ASSUME NEW q \in Queues, NEW h \in Hosts, NEW t \in Int
    PROVE  Upsert(q, h, t) \in Queues
<1>1. IsHeap(q) /\ DOMAIN q.next \subseteq Hosts
  <2>1. IsHeap(q) /\ q.next \in Refreshes
    BY DEF Queues
  <2>2. PICK S \in SUBSET Hosts : q.next \in [S -> Int]
    BY <2>1 DEF Refreshes
  <2> QED
    BY <2>1, <2>2
<1>2. PICK w : w = Upsert(q, h, t)
  OBVIOUS
<1>3. CASE h \in DOMAIN q.next
  <2>1. IsHeap(w) /\ w.next = [q.next EXCEPT ![h] = t]
    BY <1>1, <1>2, <1>3, UpsertKnown
  <2>2. DOMAIN w.next \subseteq Hosts
    BY <1>1, <2>1
  <2> QED
    BY <1>2, <2>1, <2>2, HeapIsQueue
<1>4. CASE h \notin DOMAIN q.next
  <2>1. IsHeap(w) /\ w.next = [x \in DOMAIN q.next \cup {h} |-> IF x = h THEN t ELSE q.next[x]]
    BY <1>1, <1>2, <1>4, UpsertNew
  <2>2. DOMAIN w.next \subseteq Hosts
    BY <1>1, <2>1
  <2> QED
    BY <1>2, <2>1, <2>2, HeapIsQueue
<1> QED
  BY <1>3, <1>4

\* The constants of a setup.
LEMMA SetupFacts ==
    ASSUME NEW s \in Setups
    PROVE  /\ s.maxElapsed \in Nat /\ s.maxDisruptions \in Nat /\ s.ttls \subseteq Nat
           /\ s.enricher \in BOOLEAN
           /\ \A r \in Reconcilers : s.rules[r] = Nil \/ s.rules[r] \in Seq(Hosts)
           /\ s.override = Nil \/ s.override \in TTLFloor..TTLCeiling
           /\ \A a \in s.answers : a = Nil \/ (a \subseteq Ips /\ IsFiniteSet(a))
BY TrackerConstants, FS_Subset

\* The invariant holds initially.
LEMMA InitInv == Init => TrackerInv
<1> SUFFICES ASSUME Init PROVE TrackerInv
  OBVIOUS
<1>1. CyclesOK
  BY EmptySeq DEF Init, CyclesOK
<1>2. RingsOK
  BY NewRingOK DEF Init, RingsOK
<1>3. EnrichmentOK
  BY TrackerConstants, EmptySeq DEF Init, EnrichmentOK
<1>4. BudgetOK
  BY SetupFacts DEF Init, BudgetOK
<1> QED
  BY <1>1, <1>2, <1>3, <1>4 DEF TrackerInv

\* A cycle replaced by another one, or ended.
LEMMA CycleReplaced ==
    ASSUME CyclesOK, NEW r \in Reconcilers, NEW c,
           c # Nil => CycleOK(c, setup.maxElapsed) /\ run[r] # Nil,
           run' = [run EXCEPT ![r] = c], UNCHANGED <<setup, status, requeue>>
    PROVE  CyclesOK'
<1>1. \A x \in Reconcilers : run'[x] = IF x = r THEN c ELSE run[x]
  BY DEF CyclesOK
<1>2. DOMAIN run' = Reconcilers
  BY DEF CyclesOK
<1> QED
  BY <1>1, <1>2 DEF CyclesOK

\* A disruption uses up one unit of the budget.
LEMMA DisruptBudget ==
    ASSUME BudgetOK, Disrupt, UNCHANGED setup
    PROVE  BudgetOK'
BY SetupFacts DEF BudgetOK, Disrupt

\* What leaves rings, enrichments or the budget alone keeps them.
LEMMA RingsKept == RingsOK /\ UNCHANGED <<rings, recent>> => RingsOK'
BY DEF RingsOK

\* The enrichment manager's state.
LEMMA EnrichmentKept == EnrichmentOK /\ UNCHANGED <<entries, queue, jobs, truth>> => EnrichmentOK'
BY DEF EnrichmentOK

\* The reconcilers' state.
LEMMA CyclesKept == CyclesOK /\ UNCHANGED <<setup, run, status, requeue>> => CyclesOK'
BY DEF CyclesOK

\* The budget.
LEMMA BudgetKept == BudgetOK /\ UNCHANGED <<setup, left>> => BudgetOK'
BY DEF BudgetOK

\* Start: a cycle begins with an empty queue.
LEMMA StartStep ==
    ASSUME TrackerInv, NEW r \in Reconcilers, Start(r)
    PROVE  TrackerInv'
<1>1. PICK c : c = [rules |-> setup.rules[r], now |-> 0, ttlQueue |-> NewTTLQueue, at |-> "rules",
                    todo |-> <<>>, resolved |-> <<>>, whole |-> TRUE]
  OBVIOUS
<1>2. run' = [run EXCEPT ![r] = c] /\ requeue' = [requeue EXCEPT ![r] = Nil]
      /\ UNCHANGED <<setup, status, rings, recent, entries, queue, jobs, truth, left>>
      /\ setup.rules[r] # Nil /\ setup \in Setups
  BY <1>1, Zenon DEF Start, TrackerInv, BudgetOK
<1>3. setup.rules[r] \in Seq(Hosts) /\ 0 \in 0..setup.maxElapsed
  BY <1>2, SetupFacts
<1>4. NewTTLQueue \in Queues
  <2>1. DOMAIN NewTTLQueue.next = {}
    BY DEF NewTTLQueue
  <2> QED
    BY <2>1, NewHeap, HeapIsQueue
<1>5. CycleOK(c, setup.maxElapsed)
  BY <1>1, <1>3, <1>4, EmptySeq DEF CycleOK
<1>6. CyclesOK
  BY DEF TrackerInv
<1>7. CyclesOK'
  <2>1. \A x \in Reconcilers : /\ run'[x] = IF x = r THEN c ELSE run[x]
                               /\ requeue'[x] = IF x = r THEN Nil ELSE requeue[x]
    BY <1>2, <1>6 DEF CyclesOK
  <2>2. DOMAIN run' = Reconcilers /\ DOMAIN requeue' = Reconcilers
    BY <1>2, <1>6 DEF CyclesOK
  <2> QED
    BY <1>2, <1>5, <1>6, <2>1, <2>2 DEF CyclesOK
<1> QED
  BY <1>2, <1>7, RingsKept, EnrichmentKept, BudgetKept DEF TrackerInv

\* ResolveFails: a retained entry comes from the status.
LEMMA ResolveFailsStep ==
    ASSUME TrackerInv, NEW r \in Reconcilers, ResolveFails(r)
    PROVE  TrackerInv'
<1>1. PICK c, h, prev, max : c = run[r] /\ h = Head(c.rules) /\ prev = findPrevious(r, h)
                             /\ max = setup.maxElapsed
  OBVIOUS
<1>2. /\ Disrupt /\ c # Nil /\ c.at = "rules" /\ c.rules # <<>>
      /\ UNCHANGED <<setup, status, requeue, rings, recent, entries, queue, jobs, truth, cycled>>
  BY <1>1 DEF ResolveFails, AtRule
<1>3. PICK now \in c.now..max :
          run' = [run EXCEPT ![r] =
              [c EXCEPT !.rules = Tail(c.rules), !.now = now,
                        !.resolved = IF prev = {} THEN c.resolved
                                     ELSE Append(c.resolved, status[r][Min(prev)]),
                        !.ttlQueue = IF prev = {} \/ r = "cluster" THEN c.ttlQueue
                                     ELSE Upsert(c.ttlQueue, h, now + PollInterval)]]
  BY <1>1 DEF ResolveFails
<1>4. PICK rs, ws, tq : rs = Tail(c.rules)
          /\ ws = (IF prev = {} THEN c.resolved ELSE Append(c.resolved, status[r][Min(prev)]))
          /\ tq = IF prev = {} \/ r = "cluster" THEN c.ttlQueue
                  ELSE Upsert(c.ttlQueue, h, now + PollInterval)
  OBVIOUS
<1>5. CyclesOK /\ CycleOK(c, max) /\ status[r] \in Seq(Entries) /\ BudgetOK
  BY <1>1, <1>2 DEF TrackerInv, CyclesOK
<1>6. c \in [rules: Seq(Hosts), now: 0..max, ttlQueue: Queues,
             at: {"rules", "request", "send", "get"}, todo: Seq(Ips),
             resolved: Seq(Entries), whole: BOOLEAN]
      /\ c.todo = <<>>
  BY <1>2, <1>5 DEF CycleOK
<1>7. h \in Hosts /\ rs \in Seq(Hosts)
  BY <1>1, <1>2, <1>4, <1>6, HeadTailProperties
<1>8. max \in Nat /\ now \in 0..max /\ now \in Int /\ now + PollInterval \in Int
  BY <1>1, <1>5, <1>6, SetupFacts, TrackerConstants DEF BudgetOK
<1>9. tq \in Queues
  BY <1>4, <1>6, <1>7, <1>8, UpsertQueue
<1>10. ws \in Seq(Entries)
  <2>1. CASE prev = {}
    BY <1>4, <1>6, <2>1
  <2>2. CASE prev # {}
    <3>1. prev \subseteq DOMAIN status[r] /\ DOMAIN status[r] = 1..Len(status[r]) /\ Len(status[r]) \in Nat
      BY <1>1, <1>5, LenProperties DEF findPrevious
    <3>2. prev \subseteq Nat
      BY <3>1
    <3>3. Min(prev) \in 1..Len(status[r])
      BY <2>2, <3>1, <3>2, LeastExists
    <3>4. PICK e : e = status[r][Min(prev)]
      OBVIOUS
    <3>5. e \in Entries
      BY <1>5, <3>3, <3>4, ElementOfSeq
    <3> QED
      BY <1>4, <1>6, <2>2, <3>4, <3>5, AppendProperties
  <2> QED
    BY <2>1, <2>2
<1> DEFINE d == [c EXCEPT !.rules = rs, !.now = now, !.resolved = ws, !.ttlQueue = tq]
<1>11. run' = [run EXCEPT ![r] = d]
  BY <1>3, <1>4
<1>12. CycleOK(d, max)
  BY <1>2, <1>6, <1>7, <1>8, <1>9, <1>10 DEF CycleOK
<1> HIDE DEF d
<1>13. CyclesOK'
  BY <1>1, <1>2, <1>5, <1>11, <1>12, CycleReplaced
<1> QED
  BY <1>2, <1>13, RingsKept, EnrichmentKept, DisruptBudget DEF TrackerInv

\* ResolveSucceeds: an answer is queued, recorded and kept; enriching starts with
\* its first address.
LEMMA ResolveSucceedsStep ==
    ASSUME TrackerInv, NEW r \in Reconcilers, ResolveSucceeds(r)
    PROVE  TrackerInv'
<1>1. PICK c, h, max : c = run[r] /\ h = Head(c.rules) /\ max = setup.maxElapsed
  OBVIOUS
<1>2. /\ c # Nil /\ c.at = "rules" /\ c.rules # <<>>
      /\ UNCHANGED <<setup, status, requeue, entries, queue, jobs, truth, cycled, left>>
  BY <1>1 DEF ResolveSucceeds, AtRule
<1>3. PICK now \in run[r].now..setup.maxElapsed, ttl \in setup.ttls, ips \in setup.answers :
          /\ run' = [run EXCEPT ![r] =
                 [run[r] EXCEPT
                     !.rules = Tail(run[r].rules), !.now = now,
                     !.ttlQueue = Upsert(run[r].ttlQueue, Head(run[r].rules),
                                         now + (IF ttl = 0 THEN PollInterval ELSE ttl)),
                     !.resolved = IF ips = Nil THEN run[r].resolved
                                  ELSE Append(run[r].resolved, [host |-> Head(run[r].rules), ips |-> ips,
                                                                enrichments |-> <<>>]),
                     !.todo = IF ips = Nil \/ ~setup.enricher THEN <<>> ELSE SetToSeq(ips),
                     !.at = IF ips \in {Nil, {}} \/ ~setup.enricher THEN "rules" ELSE "request"]]
          /\ IF ips = Nil THEN UNCHANGED <<rings, recent>> ELSE Record(Head(run[r].rules), ips)
  BY DEF ResolveSucceeds
<1>4. PICK t, rs, tq, kept, ws, td, at :
          /\ t = now + (IF ttl = 0 THEN PollInterval ELSE ttl)
          /\ rs = Tail(run[r].rules)
          /\ tq = Upsert(run[r].ttlQueue, Head(run[r].rules), t)
          /\ kept = [host |-> Head(run[r].rules), ips |-> ips, enrichments |-> <<>>]
          /\ ws = (IF ips = Nil THEN run[r].resolved ELSE Append(run[r].resolved, kept))
          /\ td = (IF ips = Nil \/ ~setup.enricher THEN <<>> ELSE SetToSeq(ips))
          /\ at = (IF ips \in {Nil, {}} \/ ~setup.enricher THEN "rules" ELSE "request")
  OBVIOUS
<1>5. CyclesOK /\ CycleOK(c, max) /\ BudgetOK /\ RingsOK
  BY <1>1, <1>2 DEF TrackerInv, CyclesOK
<1>6. c \in [rules: Seq(Hosts), now: 0..max, ttlQueue: Queues,
             at: {"rules", "request", "send", "get"}, todo: Seq(Ips),
             resolved: Seq(Entries), whole: BOOLEAN]
  BY <1>5 DEF CycleOK
<1>7. h \in Hosts /\ rs \in Seq(Hosts)
  BY <1>1, <1>2, <1>4, <1>6, HeadTailProperties
<1>8. max \in Nat /\ ttl \in Nat /\ PollInterval \in Nat /\ setup.enricher \in BOOLEAN
      /\ (ips = Nil \/ (ips \subseteq Ips /\ IsFiniteSet(ips)))
  BY <1>1, <1>5, SetupFacts, TrackerConstants DEF BudgetOK
<1>9. now \in 0..max /\ now \in Int
  BY <1>1, <1>6, <1>8
<1>10. tq \in Queues
  <2>1. t \in Int
    BY <1>4, <1>8, <1>9
  <2>2. tq = Upsert(c.ttlQueue, h, t)
    BY <1>1, <1>4
  <2> QED
    BY <1>6, <1>7, <2>1, <2>2, UpsertQueue
<1>11. ips # Nil => kept \in Entries
  BY <1>1, <1>4, <1>7, <1>8, EmptySeq DEF Entries
<1>12. ws \in Seq(Entries) /\ (ips # Nil => ws # <<>>)
  <2>1. CASE ips = Nil
    BY <1>1, <1>4, <1>6, <2>1
  <2>2. CASE ips # Nil
    <3>1. ws = Append(c.resolved, kept)
      BY <1>1, <1>4, <2>2
    <3>2. ws \in Seq(Entries) /\ Len(ws) = Len(c.resolved) + 1 /\ Len(c.resolved) \in Nat
      BY <1>6, <1>11, <2>2, <3>1, AppendProperties, LenProperties
    <3> QED
      BY <3>2, EmptySeq
  <2> QED
    BY <2>1, <2>2
<1>13. td \in Seq(Ips) /\ (td = <<>>) = (at = "rules") /\ at \in {"rules", "request"}
       /\ (td # <<>> => ips # Nil)
  <2>1. CASE ips = Nil \/ ~setup.enricher
    BY <1>4, <2>1, EmptySeq
  <2>2. CASE ips # Nil /\ setup.enricher
    <3>1. td = SetToSeq(ips) /\ at = (IF ips = {} THEN "rules" ELSE "request")
      BY <1>4, <2>2
    <3>2. td \in Seq(ips) /\ (td = <<>> <=> ips = {})
      BY <1>8, <2>2, <3>1, SetToSeqLists
    <3>3. td \in Seq(Ips)
      BY <1>8, <2>2, <3>2, SeqMonotonic
    <3> QED
      BY <2>2, <3>1, <3>2, <3>3
  <2> QED
    BY <2>1, <2>2
<1> DEFINE d == [c EXCEPT !.rules = rs, !.now = now, !.ttlQueue = tq, !.resolved = ws,
                          !.todo = td, !.at = at]
<1>14. run' = [run EXCEPT ![r] = d]
  BY <1>1, <1>3, <1>4, Zenon
<1>15. CycleOK(d, max)
  BY <1>6, <1>7, <1>9, <1>10, <1>12, <1>13 DEF CycleOK
<1> HIDE DEF d
<1>16. CyclesOK'
  BY <1>1, <1>2, <1>5, <1>14, <1>15, CycleReplaced
<1>17. RingsOK'
  <2>1. CASE ips = Nil
    BY <1>3, <1>5, <2>1, RingsKept
  <2>2. CASE ips # Nil
    <3>1. Record(h, ips) /\ ips \in SUBSET Ips
      BY <1>1, <1>3, <1>8, <2>2
    <3>2. /\ DOMAIN rings' = Hosts /\ DOMAIN recent' = Hosts
          /\ \A x \in Hosts \ {h} : rings'[x] = rings[x] /\ recent'[x] = recent[x]
          /\ rings'[h] = RecordRing(rings[h], ips)
      BY <1>5, <1>7, <3>1 DEF RingsOK, Record
    <3>3. recent'[h] = LET all == Append(recent[h], ips)
                       IN  IF Len(all) > ChurnRingSize THEN Tail(all) ELSE all
      BY <1>5, <1>7, <3>1 DEF RingsOK, Record
    <3>4. PICK ring, seq : ring = rings[h] /\ seq = recent[h]
      OBVIOUS
    <3>5. RingOK(ring, seq)
      BY <1>5, <1>7, <3>4 DEF RingsOK
    <3>6. RingOK(rings'[h], recent'[h])
      BY <3>1, <3>2, <3>3, <3>4, <3>5, RecordRingOK
    <3> QED
      BY <1>5, <3>2, <3>6 DEF RingsOK
  <2> QED
    BY <2>1, <2>2
<1> QED
  BY <1>2, <1>16, <1>17, EnrichmentKept, BudgetKept DEF TrackerInv

\* A cycle that enriches has an address at hand, and an entry to add to.
LEMMA EnrichingCycle ==
    ASSUME TrackerInv, NEW r \in Reconcilers, run[r] # Nil, run[r].at # "rules"
    PROVE  /\ CyclesOK /\ CycleOK(run[r], setup.maxElapsed)
           /\ run[r].todo \in Seq(Ips) /\ run[r].todo # <<>> /\ run[r].todo[1] \in Ips
           /\ run[r].resolved \in Seq(Entries) /\ run[r].resolved # <<>>
<1>1. CyclesOK /\ CycleOK(run[r], setup.maxElapsed)
  BY DEF TrackerInv, CyclesOK
<1>2. PICK c, max : c = run[r] /\ max = setup.maxElapsed
  OBVIOUS
<1>3. c.todo \in Seq(Ips) /\ c.todo # <<>> /\ c.resolved \in Seq(Entries) /\ c.resolved # <<>>
  BY <1>1, <1>2 DEF CycleOK
<1>4. 1 \in 1..Len(c.todo)
  BY <1>3, EmptySeq
<1>5. c.todo[1] \in Ips
  BY <1>3, <1>4, ElementOfSeq
<1> QED
  BY <1>1, <1>2, <1>3, <1>5

\* The steps of RequestAsync only move the cycle on.
LEMMA AtReplaced ==
    ASSUME TrackerInv, NEW r \in Reconcilers, run[r] # Nil, run[r].at # "rules",
           NEW at \in {"request", "send", "get"}, run' = [run EXCEPT ![r].at = at],
           UNCHANGED <<setup, status, requeue>>
    PROVE  CyclesOK'
<1>1. PICK c, max : c = run[r] /\ max = setup.maxElapsed
  OBVIOUS
<1>2. CyclesOK /\ CycleOK(c, max) /\ c.todo # <<>>
  BY <1>1, EnrichingCycle
<1> DEFINE d == [c EXCEPT !.at = at]
<1>3. run' = [run EXCEPT ![r] = d]
  BY <1>1
<1>4. CycleOK(d, max)
  BY <1>2 DEF CycleOK
<1> HIDE DEF d
<1> QED
  BY <1>1, <1>2, <1>3, <1>4, CycleReplaced

\* CheckFresh.
LEMMA CheckFreshStep ==
    ASSUME TrackerInv, NEW r \in Reconcilers, CheckFresh(r)
    PROVE  TrackerInv'
<1>1. /\ run[r] # Nil /\ run[r].at = "request"
      /\ UNCHANGED <<setup, status, requeue, rings, recent, entries, queue, jobs, truth, cycled, left>>
  BY DEF CheckFresh, Enriching
<1>2. PICK at : at = IF Fresh(run[r].todo[1]) THEN "get" ELSE "send"
  OBVIOUS
<1>3. run' = [run EXCEPT ![r].at = at] /\ at \in {"request", "send", "get"}
  BY <1>2 DEF CheckFresh
<1>4. CyclesOK'
  BY <1>1, <1>3, AtReplaced
<1> QED
  BY <1>1, <1>4, RingsKept, EnrichmentKept, BudgetKept DEF TrackerInv

\* Send: the channel takes no more than its capacity.
LEMMA SendStep ==
    ASSUME TrackerInv, NEW r \in Reconcilers, Send(r)
    PROVE  TrackerInv'
<1>1. /\ run[r] # Nil /\ run[r].at = "send" /\ run' = [run EXCEPT ![r].at = "get"]
      /\ UNCHANGED <<setup, status, requeue, rings, recent, entries, jobs, truth, cycled, left>>
  BY DEF Send, Enriching
<1>2. PICK ip : ip = run[r].todo[1]
  OBVIOUS
<1>3. ip \in Ips
  BY <1>1, <1>2, EnrichingCycle
<1>4. queue' = IF Len(queue) < EnrichQueueLen THEN Append(queue, ip) ELSE queue
  BY <1>2 DEF Send
<1>5. CyclesOK'
  BY <1>1, AtReplaced
<1>6. EnrichmentOK
  BY DEF TrackerInv
<1>7. queue' \in Seq(Ips) /\ Len(queue') <= EnrichQueueLen
  <2>1. queue \in Seq(Ips) /\ Len(queue) \in Nat /\ Len(queue) <= EnrichQueueLen
        /\ EnrichQueueLen \in Nat
    BY <1>6, LenProperties, TrackerConstants DEF EnrichmentOK
  <2>2. Append(queue, ip) \in Seq(Ips) /\ Len(Append(queue, ip)) = Len(queue) + 1
    BY <1>3, <2>1, AppendProperties
  <2> QED
    BY <1>4, <2>1, <2>2
<1>8. EnrichmentOK'
  BY <1>1, <1>6, <1>7 DEF EnrichmentOK
<1> QED
  BY <1>1, <1>5, <1>8, RingsKept, BudgetKept DEF TrackerInv

\* Get: what is cached is added to the entry at hand.
LEMMA GetStep ==
    ASSUME TrackerInv, NEW r \in Reconcilers, Get(r)
    PROVE  TrackerInv'
<1>1. PICK c, max, ip, rest, last, shown, known, en, at :
          /\ c = run[r] /\ max = setup.maxElapsed
          /\ ip = run[r].todo[1] /\ rest = Tail(run[r].todo)
          /\ last = Len(run[r].resolved) /\ shown = run[r].resolved[last].enrichments
          /\ known = (entries[ip] # Nil /\ entries[ip].result # NoData)
          /\ en = (IF known THEN Append(shown, <<ip, entries[ip].result>>) ELSE shown)
          /\ at = (IF rest = <<>> THEN "rules" ELSE "request")
  OBVIOUS
<1>2. c # Nil /\ c.at = "get"
      /\ UNCHANGED <<setup, status, requeue, rings, recent, entries, queue, jobs, truth, cycled, left>>
  BY <1>1 DEF Get, Enriching
<1>3. run' = [run EXCEPT ![r] = [c EXCEPT !.todo = rest, !.at = at, !.resolved[last].enrichments = en]]
  BY <1>1 DEF Get
<1>4. /\ CyclesOK /\ CycleOK(c, max)
      /\ c.todo \in Seq(Ips) /\ c.todo # <<>> /\ ip \in Ips
      /\ c.resolved \in Seq(Entries) /\ c.resolved # <<>>
  BY <1>1, <1>2, EnrichingCycle
<1>5. rest \in Seq(Ips)
  BY <1>1, <1>4, HeadTailProperties
<1>6. last \in 1..Len(c.resolved)
  BY <1>1, <1>4, EmptySeq
<1>7. PICK e : e = c.resolved[last]
  OBVIOUS
<1>8. e \in Entries
  BY <1>4, <1>6, <1>7, ElementOfSeq
<1>9. shown = e.enrichments /\ shown \in Seq(Ips \X Results)
  BY <1>1, <1>7, <1>8 DEF Entries
<1>10. en \in Seq(Ips \X Results)
  <2>1. CASE known
    <3>1. entries[ip] \in [result: Results, age: 0..CacheTTL]
      BY <1>1, <1>4, <2>1 DEF TrackerInv, EnrichmentOK
    <3>2. PICK pair : pair = <<ip, entries[ip].result>>
      OBVIOUS
    <3>3. pair \in Ips \X Results
      BY <1>4, <3>1, <3>2
    <3> QED
      BY <1>1, <1>9, <2>1, <3>2, <3>3, AppendProperties
  <2>2. CASE ~known
    BY <1>1, <1>9, <2>2
  <2> QED
    BY <2>1, <2>2
<1> DEFINE f == [e EXCEPT !.enrichments = en]
           ws == [c.resolved EXCEPT ![last] = f]
           d == [c EXCEPT !.todo = rest, !.at = at, !.resolved = ws]
<1>11. f \in Entries
  BY <1>8, <1>10 DEF Entries
<1>12. ws \in Seq(Entries) /\ ws # <<>>
  <2> HIDE DEF f
  <2>1. ws \in Seq(Entries) /\ Len(ws) = Len(c.resolved) /\ Len(c.resolved) \in Nat \ {0}
    BY <1>4, <1>6, <1>11, ExceptSeq, EmptySeq
  <2> QED
    BY <2>1, EmptySeq
<1>13. [c EXCEPT !.todo = rest, !.at = at, !.resolved[last].enrichments = en] = d
  BY <1>4, <1>7 DEF CycleOK
<1>14. run' = [run EXCEPT ![r] = d]
  BY <1>3, <1>13
<1>15. CycleOK(d, max)
  <2> HIDE DEF ws, f
  <2>1. at \in {"rules", "request"} /\ (rest = <<>>) = (at = "rules")
    BY <1>1
  <2> QED
    BY <1>4, <1>5, <1>12, <2>1 DEF CycleOK
<1> HIDE DEF d
<1>16. CyclesOK'
  BY <1>1, <1>2, <1>4, <1>14, <1>15, CycleReplaced
<1> QED
  BY <1>2, <1>16, RingsKept, EnrichmentKept, BudgetKept DEF TrackerInv

\* A cycle's RequeueAfter: the override, or else the time until the earliest
\* refresh its queue holds, but at least PollInterval.
LEMMA RequeueDelay ==
    ASSUME setup \in Setups, NEW q \in Queues, NEW now \in Nat
    PROVE  /\ nextRequeue(q, now) \in Nat
           /\ nextRequeue(q, now) =
                  IF setup.override # Nil THEN setup.override
                  ELSE IF Range(q.next) = {} THEN PollInterval
                  ELSE Max({PollInterval, Min(Range(q.next)) - now})
<1>1. TTLFloor \in Nat /\ TTLCeiling \in Nat /\ PollInterval \in Nat
  BY TrackerConstants
<1>2. CASE setup.override # Nil
  <2>1. PICK o : o = setup.override
    OBVIOUS
  <2>2. o \in TTLFloor..TTLCeiling
    BY <1>2, <2>1, SetupFacts
  <2>3. clamp(o) = o /\ o \in Nat
    BY <1>1, <2>2 DEF clamp
  <2> QED
    BY <1>2, <2>1, <2>3 DEF nextRequeue
<1>3. CASE setup.override = Nil
  <2>1. IsHeap(q)
    BY DEF Queues
  <2>2. PICK d : d = MinDelay(q, now, PollInterval)
    OBVIOUS
  <2>3. d \in Nat /\ d = IF Range(q.next) = {} THEN PollInterval
                         ELSE Max({PollInterval, Min(Range(q.next)) - now})
    BY <1>1, <2>1, <2>2, MinDelayOnTime
  <2> QED
    BY <1>3, <2>2, <2>3 DEF nextRequeue
<1> QED
  BY <1>2, <1>3

\* What Finish returns.
LEMMA FinishRequeues ==
    ASSUME TrackerInv, NEW r \in Reconcilers, Finish(r)
    PROVE  \E now \in run[r].now..setup.maxElapsed :
               /\ requeue' = [requeue EXCEPT ![r] = nextRequeue(run[r].ttlQueue, now)]
               /\ now \in Nat /\ run[r].ttlQueue \in Queues /\ setup \in Setups
<1>1. PICK now \in run[r].now..setup.maxElapsed :
          requeue' = [requeue EXCEPT ![r] = nextRequeue(run[r].ttlQueue, now)]
  BY DEF Finish
<1>2. PICK c, max : c = run[r] /\ max = setup.maxElapsed
  OBVIOUS
<1>3. CycleOK(c, max) /\ setup \in Setups
  BY <1>2 DEF Finish, TrackerInv, CyclesOK, BudgetOK
<1>4. c.now \in Nat /\ c.ttlQueue \in Queues /\ max \in Nat
  BY <1>2, <1>3, SetupFacts DEF CycleOK
<1>5. now \in Nat
  BY <1>2, <1>4
<1> QED
  BY <1>1, <1>2, <1>3, <1>4, <1>5

\* Finish: the status is what the cycle resolved.
LEMMA FinishStep ==
    ASSUME TrackerInv, NEW r \in Reconcilers, Finish(r)
    PROVE  TrackerInv'
<1>1. /\ run[r] # Nil /\ status' = [status EXCEPT ![r] = run[r].resolved]
      /\ run' = [run EXCEPT ![r] = Nil]
      /\ UNCHANGED <<setup, rings, recent, entries, queue, jobs, truth, left>>
  BY DEF Finish
<1>2. PICK ws, n : ws = run[r].resolved /\ requeue' = [requeue EXCEPT ![r] = n] /\ n \in Nat
  <2>1. PICK now \in run[r].now..setup.maxElapsed :
            /\ requeue' = [requeue EXCEPT ![r] = nextRequeue(run[r].ttlQueue, now)]
            /\ now \in Nat /\ run[r].ttlQueue \in Queues /\ setup \in Setups
    BY FinishRequeues
  <2>2. PICK q : q = run[r].ttlQueue
    OBVIOUS
  <2>3. nextRequeue(q, now) \in Nat
    BY <2>1, <2>2, RequeueDelay
  <2> QED
    BY <2>1, <2>2, <2>3
<1>3. CyclesOK
  BY DEF TrackerInv
<1>4. ws \in Seq(Entries)
  BY <1>1, <1>2, <1>3 DEF CyclesOK, CycleOK
<1>5. CyclesOK'
  <2>1. \A x \in Reconcilers : /\ run'[x] = IF x = r THEN Nil ELSE run[x]
                               /\ requeue'[x] = IF x = r THEN n ELSE requeue[x]
                               /\ status'[x] = IF x = r THEN ws ELSE status[x]
    BY <1>1, <1>2, <1>3 DEF CyclesOK
  <2>2. DOMAIN run' = Reconcilers /\ DOMAIN requeue' = Reconcilers /\ DOMAIN status' = Reconcilers
    BY <1>1, <1>2, <1>3 DEF CyclesOK
  <2> QED
    BY <1>1, <1>2, <1>3, <1>4, <2>1, <2>2 DEF CyclesOK
<1> QED
  BY <1>1, <1>5, RingsKept, EnrichmentKept, BudgetKept DEF TrackerInv

\* Fail: the cycle is given up.
LEMMA FailStep ==
    ASSUME TrackerInv, NEW r \in Reconcilers, Fail(r)
    PROVE  TrackerInv'
<1>1. /\ Disrupt /\ run' = [run EXCEPT ![r] = Nil]
      /\ UNCHANGED <<setup, status, requeue, rings, recent, entries, queue, jobs, truth, cycled>>
  BY DEF Fail
<1>2. CyclesOK'
  BY <1>1, CycleReplaced DEF TrackerInv
<1> QED
  BY <1>1, <1>2, RingsKept, EnrichmentKept, DisruptBudget DEF TrackerInv

\* The workers' steps: what they take is an address of the channel, what they
\* cache an answer of the service.
LEMMA WorkStep ==
    ASSUME TrackerInv, NEW w \in Workers, Work(w) \/ LookupFails(w)
    PROVE  TrackerInv'
<1>1. CyclesOK /\ RingsOK /\ EnrichmentOK /\ BudgetOK
  BY DEF TrackerInv
<1>2. CASE Take(w)
  <2>1. /\ queue # <<>> /\ jobs' = [jobs EXCEPT ![w] = [ip |-> queue[1], result |-> Nil]]
        /\ queue' = Tail(queue)
        /\ UNCHANGED <<setup, run, status, requeue, rings, recent, entries, truth, left>>
    BY <1>2 DEF Take
  <2>2. queue[1] \in Ips /\ queue' \in Seq(Ips) /\ Len(queue') <= EnrichQueueLen
    <3>1. queue \in Seq(Ips) /\ Len(queue) \in Nat \ {0} /\ Len(queue) <= EnrichQueueLen
          /\ EnrichQueueLen \in Nat
      BY <1>1, <2>1, EmptySeq, TrackerConstants DEF EnrichmentOK
    <3>2. Tail(queue) \in Seq(Ips) /\ Len(Tail(queue)) = Len(queue) - 1
      BY <2>1, <3>1, HeadTailProperties
    <3>3. 1 \in 1..Len(queue)
      BY <3>1
    <3> QED
      BY <2>1, <3>1, <3>2, <3>3, ElementOfSeq
  <2>3. EnrichmentOK'
    BY <1>1, <2>1, <2>2 DEF EnrichmentOK
  <2> QED
    BY <1>1, <2>1, <2>3, CyclesKept, RingsKept, BudgetKept DEF TrackerInv
<1>3. CASE Lookup(w)
  <2>1. /\ jobs[w] # Nil /\ jobs' = [jobs EXCEPT ![w].result = truth[jobs[w].ip]]
        /\ UNCHANGED <<setup, run, status, requeue, rings, recent, entries, queue, truth, left>>
    BY <1>3 DEF Lookup
  <2>2. EnrichmentOK'
    BY <1>1, <2>1 DEF EnrichmentOK
  <2> QED
    BY <1>1, <2>1, <2>2, CyclesKept, RingsKept, BudgetKept DEF TrackerInv
<1>4. CASE Set(w)
  <2>1. /\ jobs[w] # Nil /\ jobs[w].result # Nil
        /\ entries' = [entries EXCEPT ![jobs[w].ip] = [result |-> jobs[w].result, age |-> 0]]
        /\ jobs' = [jobs EXCEPT ![w] = Nil]
        /\ UNCHANGED <<setup, run, status, requeue, rings, recent, queue, truth, left>>
    BY <1>4 DEF Set
  <2>2. PICK e, ip : e = [result |-> jobs[w].result, age |-> 0] /\ ip = jobs[w].ip
    OBVIOUS
  <2>3. e \in [result: Results, age: 0..CacheTTL] /\ ip \in Ips
    BY <1>1, <2>1, <2>2, TrackerConstants DEF EnrichmentOK
  <2>4. EnrichmentOK'
    BY <1>1, <2>1, <2>2, <2>3 DEF EnrichmentOK
  <2> QED
    BY <1>1, <2>1, <2>4, CyclesKept, RingsKept, BudgetKept DEF TrackerInv
<1>5. CASE LookupFails(w)
  <2>1. /\ Disrupt /\ jobs' = [jobs EXCEPT ![w] = Nil]
        /\ UNCHANGED <<setup, run, status, requeue, rings, recent, entries, queue, truth>>
    BY <1>5 DEF LookupFails
  <2>2. EnrichmentOK'
    BY <1>1, <2>1 DEF EnrichmentOK
  <2> QED
    BY <1>1, <2>1, <2>2, CyclesKept, RingsKept, DisruptBudget DEF TrackerInv
<1> QED
  BY <1>2, <1>3, <1>4, <1>5 DEF Work

\* Tick: entries grow older, up to the age limit.
LEMMA TickStep ==
    ASSUME TrackerInv, Tick
    PROVE  TrackerInv'
<1>1. CyclesOK /\ RingsOK /\ EnrichmentOK /\ BudgetOK
  BY DEF TrackerInv
<1>2. /\ run' = [r \in Reconcilers |-> IF run[r] = Nil THEN Nil ELSE [run[r] EXCEPT !.whole = FALSE]]
      /\ entries' = [ip \in Ips |-> IF entries[ip] = Nil \/ entries[ip].age = CacheTTL
                                    THEN entries[ip] ELSE [entries[ip] EXCEPT !.age = entries[ip].age + 1]]
      /\ UNCHANGED <<setup, status, requeue, rings, recent, queue, jobs, truth, left>>
  BY DEF Tick
<1>3. CyclesOK'
  <2>1. ASSUME NEW r \in Reconcilers, run'[r] # Nil
        PROVE  CycleOK(run'[r], setup.maxElapsed) /\ requeue[r] = Nil
    <3>1. PICK c, max : c = run[r] /\ max = setup.maxElapsed
      OBVIOUS
    <3>2. c # Nil /\ run'[r] = [c EXCEPT !.whole = FALSE]
      BY <1>2, <2>1, <3>1
    <3>3. CycleOK(c, max) /\ requeue[r] = Nil
      BY <1>1, <3>1, <3>2 DEF CyclesOK
    <3>4. CycleOK([c EXCEPT !.whole = FALSE], max)
      BY <3>3 DEF CycleOK
    <3> QED
      BY <3>1, <3>2, <3>3, <3>4
  <2>2. DOMAIN run' = Reconcilers
    BY <1>2
  <2> QED
    BY <1>1, <1>2, <2>1, <2>2 DEF CyclesOK
<1>4. EnrichmentOK'
  <2>1. ASSUME NEW ip \in Ips, entries'[ip] # Nil
        PROVE  entries'[ip] \in [result: Results, age: 0..CacheTTL]
    <3>1. PICK e : e = entries[ip]
      OBVIOUS
    <3>2. e # Nil /\ entries'[ip] = IF e.age = CacheTTL THEN e ELSE [e EXCEPT !.age = e.age + 1]
      BY <1>2, <2>1, <3>1
    <3>3. e \in [result: Results, age: 0..CacheTTL] /\ CacheTTL \in Nat
      BY <1>1, <3>1, <3>2, TrackerConstants DEF EnrichmentOK
    <3>4. e.age # CacheTTL => [e EXCEPT !.age = e.age + 1] \in [result: Results, age: 0..CacheTTL]
      BY <3>3
    <3> QED
      BY <3>2, <3>3, <3>4
  <2>2. DOMAIN entries' = Ips
    BY <1>2
  <2> QED
    BY <1>1, <1>2, <2>1, <2>2 DEF EnrichmentOK
<1> QED
  BY <1>1, <1>2, <1>3, <1>4, RingsKept, BudgetKept DEF TrackerInv

\* Reassign: the service changes its answer.
LEMMA ReassignStep ==
    ASSUME TrackerInv, NEW ip \in Ips, NEW result \in Results, Reassign(ip, result)
    PROVE  TrackerInv'
<1>1. /\ Disrupt /\ truth' = [truth EXCEPT ![ip] = result]
      /\ UNCHANGED <<setup, run, status, requeue, rings, recent, entries, queue, jobs, cycled>>
  BY DEF Reassign
<1>2. EnrichmentOK'
  BY <1>1 DEF TrackerInv, EnrichmentOK
<1> QED
  BY <1>1, <1>2, CyclesKept, RingsKept, DisruptBudget DEF TrackerInv

\* Restart: rings, queue and cache are empty, the status stays.
LEMMA RestartStep ==
    ASSUME TrackerInv, Restart
    PROVE  TrackerInv'
<1>1. /\ Disrupt
      /\ run' = [r \in Reconcilers |-> Nil] /\ requeue' = [r \in Reconcilers |-> Nil]
      /\ rings' = [h \in Hosts |-> NewRing] /\ recent' = [h \in Hosts |-> <<>>]
      /\ entries' = [ip \in Ips |-> Nil]
      /\ queue' = <<>> /\ jobs' = [w \in Workers |-> Nil]
      /\ UNCHANGED <<setup, status, truth, cycled>>
  BY DEF Restart
<1>2. CyclesOK'
  BY <1>1 DEF TrackerInv, CyclesOK
<1>3. RingsOK'
  BY <1>1, NewRingOK DEF RingsOK
<1>4. EnrichmentOK'
  BY <1>1, EmptySeq, TrackerConstants DEF TrackerInv, EnrichmentOK
<1> QED
  BY <1>1, <1>2, <1>3, <1>4, DisruptBudget DEF TrackerInv

\* The invariant is inductive.
LEMMA InvStep == TrackerInv /\ [Next]_vars => TrackerInv'
<1> SUFFICES ASSUME TrackerInv, [Next]_vars PROVE TrackerInv'
  OBVIOUS
<1>1. CASE \E r \in Reconcilers : Cycle(r) \/ ResolveFails(r) \/ Fail(r)
  BY <1>1, StartStep, ResolveSucceedsStep, CheckFreshStep, SendStep, GetStep, FinishStep,
     ResolveFailsStep, FailStep DEF Cycle
<1>2. CASE \E w \in Workers : Work(w) \/ LookupFails(w)
  BY <1>2, WorkStep
<1>3. CASE \E ip \in Ips, result \in Results : Reassign(ip, result)
  BY <1>3, ReassignStep
<1>4. CASE Tick
  BY <1>4, TickStep
<1>5. CASE Restart
  BY <1>5, RestartStep
<1>6. CASE UNCHANGED vars
  BY <1>6, CyclesKept, RingsKept, EnrichmentKept, BudgetKept DEF TrackerInv, vars
<1> QED
  BY <1>1, <1>2, <1>3, <1>4, <1>5, <1>6 DEF Next
----------------------------------------------------------------------------
(* What follows.                                                           *)

\* The invariant gives the types.
LEMMA InvTypes == TrackerInv => TypeOK
<1> SUFFICES ASSUME TrackerInv PROVE TypeOK
  OBVIOUS
<1>1. ASSUME NEW r \in Reconcilers
      PROVE  /\ status[r] \in Seq(Entries)
             /\ requeue[r] = Nil \/ requeue[r] \in Nat
             /\ run[r] # Nil =>
                    /\ run[r].rules \in Seq(Hosts) /\ run[r].resolved \in Seq(Entries)
                    /\ run[r].now \in 0..setup.maxElapsed
                    /\ run[r].at \in {"rules", "request", "send", "get"}
                    /\ (run[r].todo = <<>>) = (run[r].at = "rules")
  BY DEF TrackerInv, CyclesOK, CycleOK
<1>2. \A h \in Hosts : rings[h].head \in 1..ChurnRingSize
  BY DEF TrackerInv, RingsOK, RingOK
<1>3. \A w \in Workers : jobs[w] # Nil => jobs[w].result \in Results \cup {Nil}
  BY DEF TrackerInv, EnrichmentOK
<1> QED
  BY <1>1, <1>2, <1>3 DEF TypeOK, TrackerInv, EnrichmentOK, BudgetOK

\* The invariant gives the exact count.
LEMMA InvChurn == TrackerInv => ChurnExact
<1> SUFFICES ASSUME TrackerInv, NEW h \in Hosts
             PROVE  ChurnRate(rings[h]) = Cardinality(UNION Range(recent[h]))
  BY DEF ChurnExact
<1>1. PICK ring, seq : ring = rings[h] /\ seq = recent[h]
  OBVIOUS
<1>2. RingOK(ring, seq)
  BY <1>1 DEF TrackerInv, RingsOK
<1>3. UNION Range(ring.slots) = UNION Range(seq)
  BY <1>2, RingUnion
<1> QED
  BY <1>1, <1>3 DEF ChurnRate

\* The queue of every running cycle is a heap.
LEMMA InvPeek == TrackerInv => PeekEarliest
<1> SUFFICES ASSUME TrackerInv, NEW r \in Reconcilers, run[r] # Nil, NEW q, q = run[r].ttlQueue
             PROVE  /\ Range(q.items) = DOMAIN q.next
                    /\ q.items # <<>> => PeekNext(q) = Min(Range(q.next))
  BY DEF PeekEarliest
<1>1. IsHeap(q)
  BY DEF TrackerInv, CyclesOK, CycleOK, Queues
<1> QED
  BY <1>1, HeapHosts, PeekFirst

\* TrackerInv is an invariant.
LEMMA InvAlways == Spec => []TrackerInv
BY InitInv, InvStep, PTL DEF Spec

\* Every reachable state is typed: statuses and RequeueAfters, the addresses left
\* to enrich exactly while a cycle enriches, the request channel within its
\* capacity.
THEOREM TrackersTypeCorrect == Spec => []TypeOK
BY InvAlways, InvTypes, PTL

\* The churn ring counts exactly the distinct addresses of the last ChurnRingSize
\* recordings of a hostname, for a ring of any size.
THEOREM ChurnCountExact == Spec => []ChurnExact
BY InvAlways, InvChurn, PTL

\* Whatever number of hostnames a cycle queues, in whatever order and however often
\* with other times, the head of its queue is the earliest refresh.
THEOREM EarliestRefreshFirst == Spec => []PeekEarliest
BY InvAlways, InvPeek, PTL
=============================================================================
