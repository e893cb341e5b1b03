------------------------------ MODULE TTLQueue ------------------------------
(***************************************************************************)
(* The min-heap of internal/dns/ttl_queue.go that gives a cycle its        *)
(* RequeueAfter.  container/heap (external) moves entries only through     *)
(* Less and Swap of this code, and Upsert finds the position of an entry   *)
(* in the index that Swap and Push maintain.                               *)
(*                                                                         *)
(* items: the hosts in heap order; next: NextRefresh of each entry; index: *)
(* the position each entry believes to have.  Positions count from 1.      *)
(***************************************************************************)
EXTENDS Integers, Sequences, Functions, FiniteSetsExt

NewTTLQueue == [items |-> <<>>, next |-> <<>>, index |-> <<>>]

Less(q, i, j) == q.next[q.items[i]] < q.next[q.items[j]]

\* Mutant of Swap: the entries do not learn their new positions.
SwapWithoutIndex(q, i, j) ==
    [q EXCEPT !.items = [@ EXCEPT ![i] = q.items[j], ![j] = q.items[i]]]

Swap(q, i, j) ==
    [q EXCEPT !.items = [@ EXCEPT ![i] = q.items[j], ![j] = q.items[i]],
              !.index = [@ EXCEPT ![q.items[j]] = i, ![q.items[i]] = j]]

\* One iteration of up: s is the heap and the position the loop is at.
UpStep(s) ==
    IF s.at = 1 \/ ~Less(s.q, s.at, s.at \div 2) THEN s
    ELSE [q |-> Swap(s.q, s.at, s.at \div 2), at |-> s.at \div 2]

\* A loop ends within as many iterations as there are entries.
UpLoop(q, j) ==
    LET f[k \in 0..Len(q.items)] == IF k = 0 THEN [q |-> q, at |-> j] ELSE UpStep(f[k - 1])
    IN  f

up(q, j) == UpLoop(q, j)[Len(q.items)].q

\* The smaller child, the left one of equals.
Child(q, i) ==
    IF 2 * i + 1 <= Len(q.items) /\ Less(q, 2 * i + 1, 2 * i) THEN 2 * i + 1 ELSE 2 * i

\* One iteration of down.
DownStep(s) ==
    IF 2 * s.at > Len(s.q.items) \/ ~Less(s.q, Child(s.q, s.at), s.at) THEN s
    ELSE [q |-> Swap(s.q, Child(s.q, s.at), s.at), at |-> Child(s.q, s.at)]

DownLoop(q, i) ==
    LET f[k \in 0..Len(q.items)] == IF k = 0 THEN [q |-> q, at |-> i] ELSE DownStep(f[k - 1])
    IN  f

down(q, i) == DownLoop(q, i)[Len(q.items)]

\* heap.Fix: down, and up if that moved nothing.
Fix(q, i) == IF down(q, i).at > i THEN down(q, i).q ELSE up(q, i)

\* next is now + ttl.
Upsert(q, h, next) ==
    IF h \in Range(q.items)
    THEN Fix([q EXCEPT !.next[h] = next], q.index[h])
    ELSE LET n == Len(q.items) + 1
         IN  up([items |-> Append(q.items, h),
                 next  |-> [x \in Range(q.items) \cup {h} |-> IF x = h THEN next ELSE q.next[x]],
                 index |-> [x \in Range(q.items) \cup {h} |-> IF x = h THEN n ELSE q.index[x]]], n)

PeekNext(q) == q.next[q.items[1]]

\* The floor, or the time until the earliest refresh if that is longer.
MinDelay(q, now, floor) ==
    IF q.items = <<>> THEN floor ELSE Max({PeekNext(q) - now, floor})
=============================================================================
