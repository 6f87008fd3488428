--------------------------- MODULE VirtioBlkProofs ---------------------------
(***************************************************************************)
(* The disk driver on one core: the queue stays consistent however many    *)
(* requests time out, and until the first that does, transfers do what     *)
(* they were asked to.                                                     *)
(***************************************************************************)
EXTENDS VirtioBlk, FiniteSetTheorems, NaturalsInduction, WellFoundedInduction, TLAPS

\* A set of numbers that is not empty has a least one.
LEMMA LeastNat ==
    ASSUME NEW T \in SUBSET Nat, T # {}
    PROVE  \E x \in T : \A y \in T : x <= y
<1>1. PICK x \in T : \A y \in T : ~(<<y, x>> \in OpToRel(<, Nat))
  BY WFMin, NatLessThanWellFounded, Zenon
<1>2. \A y \in T : ~(y < x)
  BY <1>1, Zenon DEF OpToRel
<1> QED
  BY <1>2

-----------------------------------------------------------------------------
(* The free list.                                                          *)

Descs == [piece : {"none", "hdr", "in", "out", "status"}, more : BOOLEAN, next : Slots]

Queues ==
    [desc : [Slots -> Descs], free_head : Slots, free_count : 0 .. SIZE,
     avail : [Slots -> Slots], avail_idx : 0 .. IDX - 1, used_idx : 0 .. IDX - 1,
     last_used_idx : 0 .. IDX - 1]

\* f lists the free descriptors in the order of the list, and they are those
\* outside S.
Lists(q, f, S) ==
    /\ f \in [1 .. q.free_count -> Slots]
    /\ \A i, j \in 1 .. q.free_count : f[i] = f[j] => i = j
    /\ q.free_count > 0 => f[1] = q.free_head
    /\ \A i \in 1 .. q.free_count - 1 : q.desc[f[i]].next = f[i + 1]
    /\ \A s \in Slots : s \in S <=> \A i \in 1 .. q.free_count : f[i] # s

\* A queue has a free list of everything outside S.
FreeOutside(q, S) == \E f : Lists(q, f, S)

LEMMA UnusedIsDesc == 0 \in Slots /\ Unused \in Descs
  BY VirtqueueAssumption DEF Slots, Unused, Descs

\* A descriptor taken is the first of the list, and the others stay.
LEMMA AllocKeeps ==
    ASSUME NEW q \in Queues, NEW S, FreeOutside(q, S), q.free_count > 0
    PROVE  /\ virtqueue_alloc_desc(q) \in Queues
           /\ virtqueue_alloc_desc(q).free_count = q.free_count - 1
           /\ FreeOutside(virtqueue_alloc_desc(q), S \cup {q.free_head})
           /\ q.free_head \in Slots \ S
<1> DEFINE r == virtqueue_alloc_desc(q)
           n == q.free_count
<1>1. PICK f : Lists(q, f, S)
  BY Zenon DEF FreeOutside
<1> DEFINE g == [i \in 1 .. n - 1 |-> f[i + 1]]
<1>2. /\ n \in 1 .. SIZE /\ SIZE \in Nat \ {0} /\ f \in [1 .. n -> Slots]
      /\ q.free_head \in Slots /\ f[1] = q.free_head
      /\ q.desc \in [Slots -> Descs]
  BY <1>1, VirtqueueAssumption DEF Lists, Queues
<1>3. /\ r.desc = [q.desc EXCEPT ![q.free_head] = Unused]
      /\ r.free_count = n - 1
      /\ r.free_head = q.desc[q.free_head].next
      /\ r.avail = q.avail /\ r.avail_idx = q.avail_idx
      /\ r.used_idx = q.used_idx /\ r.last_used_idx = q.last_used_idx
  BY Zenon DEF virtqueue_alloc_desc, Queues
<1>4. /\ [q.desc EXCEPT ![q.free_head] = Unused] \in [Slots -> Descs]
      /\ q.desc[q.free_head].next \in Slots /\ n - 1 \in 0 .. SIZE
  BY <1>2, UnusedIsDesc DEF Descs
<1>5. r \in Queues
  BY <1>3, <1>4, Zenon DEF virtqueue_alloc_desc, Queues
<1>6. q.free_head \notin S
  BY <1>1, <1>2 DEF Lists
<1>7. Lists(r, g, S \cup {q.free_head})
  <2>1. \A i \in 1 .. n - 1 : i + 1 \in 1 .. n /\ g[i] = f[i + 1]
    BY <1>2
  <2>2. g \in [1 .. n - 1 -> Slots]
    BY <1>2, <2>1, Zenon
  <2>3. \A i, j \in 1 .. n - 1 : g[i] = g[j] => i = j
    BY <1>1, <1>2, <2>1 DEF Lists
  <2>4. \A i \in 1 .. n - 1 : g[i] # q.free_head
    BY <1>1, <1>2, <2>1 DEF Lists
  <2>5. n - 1 > 0 => g[1] = r.free_head
    BY <1>1, <1>2, <1>3 DEF Lists
  <2>6. \A i \in 1 .. n - 2 : r.desc[g[i]].next = g[i + 1]
    <3> TAKE i \in 1 .. n - 2
    <3>1. i \in 1 .. n - 1 /\ i + 1 \in 1 .. n - 1 /\ (i + 1) + 1 \in 1 .. n
      BY <1>2
    <3>2. q.desc[f[i + 1]].next = f[(i + 1) + 1]
      BY <1>1, <1>2, <3>1, Zenon DEF Lists
    <3>3. r.desc[g[i]] = q.desc[g[i]]
      BY <1>2, <1>3, <2>2, <2>4, <3>1, Zenon
    <3> QED
      BY <2>1, <3>1, <3>2, <3>3, Zenon
  <2>7. \A s \in Slots : s \in S \cup {q.free_head} <=> \A i \in 1 .. n - 1 : g[i] # s
    <3> TAKE s \in Slots
    <3>1. ASSUME s \in S \cup {q.free_head}, NEW i \in 1 .. n - 1 PROVE g[i] # s
      BY <1>1, <1>2, <2>1, <2>4, <3>1, Zenon DEF Lists
    <3>2. ASSUME s \notin S, s # q.free_head PROVE \E i \in 1 .. n - 1 : g[i] = s
      <4>1. PICK k \in 1 .. n : f[k] = s
        BY <1>1, <3>2, Zenon DEF Lists
      <4>2. k - 1 \in 1 .. n - 1 /\ (k - 1) + 1 = k
        BY <1>2, <3>2, <4>1
      <4> QED
        BY <2>1, <4>1, <4>2, Zenon
    <3> QED
      BY <3>1, <3>2, Zenon
  <2>8. n - 1 \in Nat /\ (n - 1) - 1 = n - 2
    BY <1>2
  <2> HIDE DEF g, r
  <2> QED
    BY <1>3, <2>2, <2>3, <2>5, <2>6, <2>7, <2>8 DEF Lists
<1> QED
  BY <1>2, <1>3, <1>5, <1>6, <1>7, Zenon DEF FreeOutside

\* A descriptor given back is the first of the list.
LEMMA FreeKeeps ==
    ASSUME NEW q \in Queues, NEW S, FreeOutside(q, S), NEW d \in Slots, d \in S
    PROVE  LET r == virtqueue_free_desc(q, d) IN
           /\ r \in Queues
           /\ FreeOutside(r, S \ {d})
           /\ \A e \in Slots \ {d} : r.desc[e] = q.desc[e]
           /\ r.avail = q.avail /\ r.avail_idx = q.avail_idx
           /\ r.used_idx = q.used_idx /\ r.last_used_idx = q.last_used_idx
<1> DEFINE r == virtqueue_free_desc(q, d)
           n == q.free_count
<1>1. PICK f : Lists(q, f, S)
  BY Zenon DEF FreeOutside
<1> DEFINE g == [i \in 1 .. n + 1 |-> IF i = 1 THEN d ELSE f[i - 1]]
<1>2. /\ n \in 0 .. SIZE /\ SIZE \in Nat \ {0} /\ f \in [1 .. n -> Slots]
      /\ q.free_head \in Slots /\ q.desc \in [Slots -> Descs]
  BY <1>1, VirtqueueAssumption, Zenon DEF Lists, Queues
<1>3. /\ r.desc = [q.desc EXCEPT ![d] = [@ EXCEPT !.next = q.free_head, !.more = FALSE]]
      /\ r.free_count = n + 1
      /\ r.free_head = d
      /\ r.avail = q.avail /\ r.avail_idx = q.avail_idx
      /\ r.used_idx = q.used_idx /\ r.last_used_idx = q.last_used_idx
  BY Zenon DEF virtqueue_free_desc, Queues
<1>4. /\ g \in [1 .. n + 1 -> Slots]
      /\ g[1] = d
      /\ \A i \in 1 .. n : g[i + 1] = f[i]
      /\ \A i \in 2 .. n + 1 : i - 1 \in 1 .. n /\ g[i] = f[i - 1]
  BY <1>2
<1>5. \A i \in 1 .. n : f[i] # d
  BY <1>1, Zenon DEF Lists
<1>6. \A i, j \in 1 .. n + 1 : g[i] = g[j] => i = j
  <2> SUFFICES ASSUME NEW i \in 1 .. n + 1, NEW j \in 1 .. n + 1, g[i] = g[j]
               PROVE  i = j
    BY Zenon
  <2>1. CASE i = 1 \/ j = 1
    BY <1>2, <1>4, <1>5, <2>1
  <2>2. CASE i \in 2 .. n + 1 /\ j \in 2 .. n + 1
    <3>1. i - 1 = j - 1
      BY <1>1, <1>4, <2>2, Zenon DEF Lists
    <3> QED
      BY <1>2, <3>1
  <2> QED
    BY <1>2, <2>1, <2>2
<1> HIDE DEF g
\* There are only SIZE descriptors.
<1>7. n + 1 \in 0 .. SIZE
  <2>1. /\ IsFiniteSet(1 .. n + 1) /\ Cardinality(1 .. n + 1) = n + 1
        /\ IsFiniteSet(Slots) /\ Cardinality(Slots) = SIZE
    <3>1. 1 \in Int /\ n + 1 \in Int /\ 0 \in Int /\ SIZE - 1 \in Int
      BY <1>2
    <3>2. /\ IsFiniteSet(1 .. n + 1)
          /\ Cardinality(1 .. n + 1) = IF 1 > n + 1 THEN 0 ELSE (n + 1) - 1 + 1
      BY <3>1, FS_Interval, Zenon
    <3>3. /\ IsFiniteSet(0 .. SIZE - 1)
          /\ Cardinality(0 .. SIZE - 1) = IF 0 > SIZE - 1 THEN 0 ELSE (SIZE - 1) - 0 + 1
      BY <3>1, FS_Interval, Zenon
    <3> QED
      BY <1>2, <3>2, <3>3 DEF Slots
  <2>2. ASSUME SIZE < n + 1 PROVE FALSE
    <3> DEFINE D == 1 .. n + 1
    <3>1. IsFiniteSet(D) /\ Cardinality(Slots) < Cardinality(D) /\ g \in [D -> Slots]
      BY <1>4, <2>1, <2>2, Zenon
    <3>2. \A i, j \in D : g[i] = g[j] => i = j
      BY <1>6, Zenon
    <3> HIDE DEF D
    <3> QED
      BY <2>1, <3>1, <3>2, FS_PigeonHole
  <2> QED
    BY <1>2, <2>2
<1>8. /\ r.desc \in [Slots -> Descs]
      /\ r.desc[d].next = q.free_head
      /\ \A e \in Slots \ {d} : r.desc[e] = q.desc[e]
  <2>1. q.desc[d] \in Descs
    BY <1>2, Zenon
  <2>2. /\ [q.desc[d] EXCEPT !.next = q.free_head, !.more = FALSE].next = q.free_head
        /\ [q.desc[d] EXCEPT !.next = q.free_head, !.more = FALSE] \in Descs
    <3> DEFINE x == [q.desc[d] EXCEPT !.next = q.free_head]
    <3>1. x \in Descs /\ x.next = q.free_head
      BY <1>2, <2>1, Zenon DEF Descs
    <3> HIDE DEF x
    <3>2. [x EXCEPT !.more = FALSE] \in Descs /\ [x EXCEPT !.more = FALSE].next = x.next
      BY <3>1, Zenon DEF Descs
    <3> QED
      BY <3>1, <3>2, Zenon DEF x
  <2> QED
    BY <1>2, <1>3, <2>2
<1>9. r \in Queues
  BY <1>3, <1>7, <1>8, Zenon DEF virtqueue_free_desc, Queues
<1>10. \A i \in 1 .. n : r.desc[g[i]].next = g[i + 1]
  <2> TAKE i \in 1 .. n
  <2>1. CASE i = 1
    BY <1>1, <1>2, <1>4, <1>8, <2>1 DEF Lists
  <2>2. CASE i \in 2 .. n
    <3>1. i - 1 \in 1 .. n - 1 /\ (i - 1) + 1 = i /\ i \in 2 .. n + 1
      BY <1>2, <2>2
    <3>2. q.desc[f[i - 1]].next = f[i]
      BY <1>1, <3>1, Zenon DEF Lists
    <3>3. r.desc[f[i - 1]] = q.desc[f[i - 1]]
      BY <1>2, <1>5, <1>8, <3>1
    <3> QED
      BY <1>4, <3>1, <3>2, <3>3, Zenon
  <2> QED
    BY <1>2, <2>1, <2>2
<1>11. \A s \in Slots : s \in S \ {d} <=> \A i \in 1 .. n + 1 : g[i] # s
  <2> TAKE s \in Slots
  <2>1. ASSUME s \in S \ {d}, NEW i \in 1 .. n + 1 PROVE g[i] # s
    BY <1>1, <1>2, <1>4, <2>1 DEF Lists
  <2>2. ASSUME s \notin S \ {d} PROVE \E i \in 1 .. n + 1 : g[i] = s
    <3>1. CASE s = d
      BY <1>2, <1>4, <3>1
    <3>2. CASE s # d
      <4>1. PICK k \in 1 .. n : f[k] = s
        BY <1>1, <2>2, <3>2, Zenon DEF Lists
      <4> QED
        BY <1>2, <1>4, <4>1
    <3> QED
      BY <3>1, <3>2, Zenon
  <2> QED
    BY <2>1, <2>2, Zenon
<1>12. (n + 1) - 1 = n
  BY <1>2
<1> HIDE DEF r
<1>13. Lists(r, g, S \ {d})
  BY <1>3, <1>4, <1>6, <1>10, <1>11, <1>12, Zenon DEF Lists
<1> QED
  BY <1>3, <1>8, <1>9, <1>13, Zenon DEF FreeOutside, r

\* The chain d0, d1, d2 as virtqueue_submit_chain publishes it.
IsChain(q, d0, d1, d2, type) ==
    /\ {d0, d1, d2} \subseteq Slots /\ d0 # d1 /\ d0 # d2 /\ d1 # d2
    /\ q.desc[d0] = [piece |-> "hdr", more |-> TRUE, next |-> d1]
    /\ q.desc[d1] = [piece |-> type, more |-> TRUE, next |-> d2]
    /\ q.desc[d2] = [piece |-> "status", more |-> FALSE, next |-> 0]

\* Three descriptors taken from a list of everything are made into a request,
\* and the list has everything else.
LEMMA LinkedKeeps ==
    ASSUME NEW q \in Queues, FreeOutside(q, {}), q.free_count >= 3,
           NEW type \in {"in", "out"}
    PROVE  LET q1 == virtqueue_alloc_desc(q)
               q2 == virtqueue_alloc_desc(q1)
               q3 == virtqueue_alloc_desc(q2)
               r  == Linked(q3, q.free_head, q1.free_head, q2.free_head, type)
           IN  /\ r \in Queues
               /\ FreeOutside(r, {q.free_head, q1.free_head, q2.free_head})
               /\ IsChain(r, q.free_head, q1.free_head, q2.free_head, type)
               /\ r.avail = q.avail /\ r.avail_idx = q.avail_idx
               /\ r.used_idx = q.used_idx /\ r.last_used_idx = q.last_used_idx
<1> DEFINE q1 == virtqueue_alloc_desc(q)
           q2 == virtqueue_alloc_desc(q1)
           q3 == virtqueue_alloc_desc(q2)
           d0 == q.free_head
           d1 == q1.free_head
           d2 == q2.free_head
           r  == Linked(q3, d0, d1, d2, type)
<1>1. q.free_count \in Nat /\ q.free_count > 0
  BY VirtqueueAssumption DEF Queues
<1>2. /\ q1 \in Queues /\ q1.free_count = q.free_count - 1
      /\ FreeOutside(q1, {d0}) /\ d0 \in Slots
  <2>1. FreeOutside(q1, {} \cup {d0}) /\ {} \cup {d0} = {d0}
    BY <1>1, AllocKeeps, Zenon
  <2> QED
    BY <1>1, <2>1, AllocKeeps, Zenon
<1> HIDE DEF q1, d0
<1>3. /\ q2 \in Queues /\ q2.free_count = q.free_count - 2
      /\ FreeOutside(q2, {d0, d1}) /\ d1 \in Slots \ {d0}
  <2>1. q1.free_count > 0
    BY <1>1, <1>2
  <2>2. FreeOutside(q2, {d0} \cup {d1}) /\ {d0} \cup {d1} = {d0, d1}
    BY <1>2, <2>1, AllocKeeps, Zenon
  <2> QED
    BY <1>1, <1>2, <2>1, <2>2, AllocKeeps
<1> HIDE DEF q2, d1
<1>4. /\ q3 \in Queues /\ FreeOutside(q3, {d0, d1, d2}) /\ d2 \in Slots \ {d0, d1}
  <2>1. q2.free_count > 0
    BY <1>1, <1>3
  <2>2. FreeOutside(q3, {d0, d1} \cup {d2}) /\ {d0, d1} \cup {d2} = {d0, d1, d2}
    BY <1>3, <2>1, AllocKeeps, Zenon
  <2> QED
    BY <1>3, <2>1, <2>2, AllocKeeps, Zenon
<1>5. /\ q3.avail = q.avail /\ q3.avail_idx = q.avail_idx
      /\ q3.used_idx = q.used_idx /\ q3.last_used_idx = q.last_used_idx
  <2>1. /\ q1.avail = q.avail /\ q1.avail_idx = q.avail_idx
        /\ q1.used_idx = q.used_idx /\ q1.last_used_idx = q.last_used_idx
    BY Zenon DEF virtqueue_alloc_desc, Queues, q1
  <2>2. /\ q2.avail = q1.avail /\ q2.avail_idx = q1.avail_idx
        /\ q2.used_idx = q1.used_idx /\ q2.last_used_idx = q1.last_used_idx
    BY <1>2, Zenon DEF virtqueue_alloc_desc, Queues, q2
  <2>3. /\ q3.avail = q2.avail /\ q3.avail_idx = q2.avail_idx
        /\ q3.used_idx = q2.used_idx /\ q3.last_used_idx = q2.last_used_idx
    BY <1>3, Zenon DEF virtqueue_alloc_desc, Queues
  <2> QED
    BY <2>1, <2>2, <2>3, Zenon
<1> HIDE DEF q3, d2
<1> DEFINE h == [piece |-> "hdr", more |-> TRUE, next |-> d1]
           b == [piece |-> type, more |-> TRUE, next |-> d2]
           e == [piece |-> "status", more |-> FALSE, next |-> 0]
<1>6. h \in Descs /\ b \in Descs /\ e \in Descs
  BY <1>3, <1>4, UnusedIsDesc, Zenon DEF Descs
<1> HIDE DEF h, b, e
<1>7. /\ r.desc = [[[q3.desc EXCEPT ![d0] = h] EXCEPT ![d1] = b] EXCEPT ![d2] = e]
      /\ r.free_head = q3.free_head /\ r.free_count = q3.free_count
      /\ r.avail = q3.avail /\ r.avail_idx = q3.avail_idx
      /\ r.used_idx = q3.used_idx /\ r.last_used_idx = q3.last_used_idx
  BY <1>4, Zenon DEF Linked, Queues, h, b, e
<1>8. q3.desc \in [Slots -> Descs]
  BY <1>4, Zenon DEF Queues
<1>9. /\ r.desc \in [Slots -> Descs]
      /\ r.desc[d0] = h /\ r.desc[d1] = b /\ r.desc[d2] = e
      /\ \A s \in Slots \ {d0, d1, d2} : r.desc[s] = q3.desc[s]
  BY <1>2, <1>3, <1>4, <1>6, <1>7, <1>8, Zenon
<1>10. r \in Queues
  BY <1>4, <1>7, <1>9, Zenon DEF Linked, Queues
<1>11. IsChain(r, d0, d1, d2, type)
  BY <1>2, <1>3, <1>4, <1>9, Zenon DEF IsChain, h, b, e
<1> HIDE DEF r
<1>12. FreeOutside(r, {d0, d1, d2})
  <2>1. PICK f : Lists(q3, f, {d0, d1, d2})
    BY <1>4, Zenon DEF FreeOutside
  <2>2. q3.free_count \in Nat /\ f \in [1 .. q3.free_count -> Slots]
    BY <1>4, <2>1, VirtqueueAssumption DEF Lists, Queues
  <2>3. \A i \in 1 .. q3.free_count : f[i] \in Slots \ {d0, d1, d2}
    BY <1>2, <1>3, <1>4, <2>1, <2>2, Zenon DEF Lists
  <2>4. \A i \in 1 .. q3.free_count - 1 : r.desc[f[i]] = q3.desc[f[i]]
    BY <1>9, <2>2, <2>3
  <2>5. r.free_head = q3.free_head /\ r.free_count = q3.free_count
    BY <1>7, Zenon
  <2>6. Lists(r, f, {d0, d1, d2})
    BY <2>1, <2>4, <2>5 DEF Lists
  <2> QED
    BY <2>6, Zenon DEF FreeOutside
<1> QED
  BY <1>5, <1>7, <1>10, <1>11, <1>12, Zenon DEF q1, q2, q3, d0, d1, d2, r

\* Freeing a chain of three frees each of them, in this order.
LEMMA FreeChainIsThree ==
    ASSUME NEW q \in Queues, NEW d0, NEW d1, NEW d2, NEW type,
           IsChain(q, d0, d1, d2, type)
    PROVE  virtqueue_free_chain(q, d0) =
               virtqueue_free_desc(virtqueue_free_desc(virtqueue_free_desc(q, d0), d1), d2)
<1> DEFINE A == <<virtqueue_free_desc(q, d0), d0>>
           B == <<virtqueue_free_desc(A[1], d1), d1>>
           C == <<virtqueue_free_desc(B[1], d2), d2>>
           Step(p) == IF q.desc[p[2]].more
                      THEN <<virtqueue_free_desc(p[1], q.desc[p[2]].next), q.desc[p[2]].next>>
                      ELSE p
           P(w) == w = [k \in 0 .. SIZE - 1 |-> IF k = 0 THEN A ELSE Step(w[k - 1])]
           from == CHOOSE w : P(w)
           g == [k \in 0 .. SIZE - 1 |-> IF k = 0 THEN A ELSE IF k = 1 THEN B ELSE C]
<1>1. SIZE \in Nat /\ SIZE >= 3
  BY VirtqueueAssumption DEF IsChain, Slots
<1>2. Step(A) = B /\ Step(B) = C /\ Step(C) = C
  <2>1. /\ q.desc[d0].more /\ q.desc[d0].next = d1
        /\ q.desc[d1].more /\ q.desc[d1].next = d2 /\ ~q.desc[d2].more
    BY DEF IsChain
  <2>2. A[2] = d0 /\ B[2] = d1 /\ C[2] = d2
    BY Zenon
  <2> HIDE DEF A, B, C
  <2>3. Step(A) = <<virtqueue_free_desc(A[1], d1), d1>>
        /\ Step(B) = <<virtqueue_free_desc(B[1], d2), d2>> /\ Step(C) = C
    BY <2>1, <2>2, Zenon
  <2> QED
    BY <2>3, Zenon DEF B, C
<1> HIDE DEF A, B, C, Step
<1>3. P(g)
  <2>1. ASSUME NEW k \in 0 .. SIZE - 1
        PROVE  g[k] = IF k = 0 THEN A ELSE Step(g[k - 1])
    <3>1. /\ 0 \in 0 .. SIZE - 1 /\ 1 \in 0 .. SIZE - 1 /\ 2 \in 2 .. SIZE - 1
          /\ 1 # 0 /\ 2 # 0
          /\ \A j \in 2 .. SIZE - 1 : j \in 0 .. SIZE - 1 /\ j # 0 /\ j # 1
      BY <1>1
    <3>2. g[0] = A /\ g[1] = B /\ \A j \in 2 .. SIZE - 1 : g[j] = C
      BY <3>1, Zenon
    <3> HIDE DEF g
    <3>3. CASE k = 0
      BY <3>2, <3>3, Zenon
    <3>4. CASE k = 1
      <4>1. k - 1 = 0
        BY <3>4
      <4> QED
        BY <1>2, <3>1, <3>2, <3>4, <4>1, Zenon
    <3>5. CASE k = 2
      <4>1. k - 1 = 1
        BY <3>5
      <4> QED
        BY <1>2, <3>1, <3>2, <3>5, <4>1, Zenon
    <3>6. CASE k \in 3 .. SIZE - 1
      <4>1. k - 1 \in 2 .. SIZE - 1 /\ k \in 2 .. SIZE - 1 /\ k # 0
        BY <1>1, <3>6
      <4> QED
        BY <1>2, <3>2, <4>1, Zenon
    <3> QED
      BY <1>1, <3>3, <3>4, <3>5, <3>6
  <2>2. g = [k \in 0 .. SIZE - 1 |-> g[k]]
    BY Zenon
  <2> HIDE DEF g
  <2> QED
    BY <2>1, <2>2, Zenon
<1> HIDE DEF g
<1>4. P(from)
  BY <1>3, Zenon
<1>5. virtqueue_free_chain(q, d0) = from[SIZE - 1][1]
  BY Zenon DEF virtqueue_free_chain, Step, A
<1> HIDE DEF from
<1>6. /\ from[0] = A
      /\ \A k \in 1 .. SIZE - 1 : from[k] = Step(from[k - 1])
  <2>1. 0 \in 0 .. SIZE - 1 /\ \A k \in 1 .. SIZE - 1 : k \in 0 .. SIZE - 1 /\ k # 0
    BY <1>1
  <2> QED
    BY <1>4, <2>1, Zenon
<1>7. from[2] = C
  BY <1>1, <1>2, <1>6
\* The walk stays at the descriptor without VRING_DESC_F_NEXT.
<1>8. \A k \in 2 .. SIZE - 1 : from[k] = C
  <2> DEFINE T == {k \in 2 .. SIZE - 1 : from[k] # C}
  <2> SUFFICES ASSUME T # {} PROVE FALSE
    BY Zenon
  <2>1. T \in SUBSET Nat
    BY <1>1
  <2>2. PICK k \in T : \A j \in T : k <= j
    BY <2>1, LeastNat, Zenon
  <2>3. k \in 3 .. SIZE - 1 /\ k - 1 \in 2 .. SIZE - 1 /\ ~(k <= k - 1)
    BY <1>1, <1>7, <2>2
  <2>4. from[k - 1] = C
    BY <2>2, <2>3, Zenon
  <2> QED
    BY <1>1, <1>2, <1>6, <2>2, <2>3, <2>4
<1> QED
  BY <1>1, <1>5, <1>8 DEF A, B, C

\* Freeing the only chain there is leaves a list of everything.
LEMMA FreeChainKeeps ==
    ASSUME NEW q \in Queues, NEW d0, NEW d1, NEW d2, NEW type,
           IsChain(q, d0, d1, d2, type), FreeOutside(q, {d0, d1, d2})
    PROVE  LET r == virtqueue_free_chain(q, d0) IN
           /\ r \in Queues
           /\ FreeOutside(r, {})
           /\ r.avail = q.avail /\ r.avail_idx = q.avail_idx
           /\ r.used_idx = q.used_idx /\ r.last_used_idx = q.last_used_idx
<1> DEFINE q1 == virtqueue_free_desc(q, d0)
           q2 == virtqueue_free_desc(q1, d1)
           q3 == virtqueue_free_desc(q2, d2)
<1>1. /\ d0 \in Slots /\ d1 \in Slots /\ d2 \in Slots
      /\ {d0, d1, d2} \ {d0} = {d1, d2}
      /\ {d1, d2} \ {d1} = {d2}
      /\ {d2} \ {d2} = {}
  BY Zenon DEF IsChain
<1>2. virtqueue_free_chain(q, d0) = q3
  BY FreeChainIsThree
<1>3. /\ q1 \in Queues /\ FreeOutside(q1, {d1, d2})
      /\ q1.avail = q.avail /\ q1.avail_idx = q.avail_idx
      /\ q1.used_idx = q.used_idx /\ q1.last_used_idx = q.last_used_idx
  BY <1>1, FreeKeeps
<1> HIDE DEF q1
<1>4. /\ q2 \in Queues /\ FreeOutside(q2, {d2})
      /\ q2.avail = q1.avail /\ q2.avail_idx = q1.avail_idx
      /\ q2.used_idx = q1.used_idx /\ q2.last_used_idx = q1.last_used_idx
  <2>1. FreeOutside(q2, {d1, d2} \ {d1})
    BY <1>1, <1>3, FreeKeeps, Zenon
  <2> QED
    BY <1>1, <1>3, <2>1, FreeKeeps
<1> HIDE DEF q2
<1>5. /\ q3 \in Queues /\ FreeOutside(q3, {})
      /\ q3.avail = q2.avail /\ q3.avail_idx = q2.avail_idx
      /\ q3.used_idx = q2.used_idx /\ q3.last_used_idx = q2.last_used_idx
  <2>1. FreeOutside(q3, {d2} \ {d2})
    BY <1>1, <1>4, FreeKeeps, Zenon
  <2> QED
    BY <1>1, <1>4, <2>1, FreeKeeps
<1> HIDE DEF q3
<1> QED
  BY <1>2, <1>3, <1>4, <1>5, Zenon

\* Walking the list from free_head visits the descriptors outside S, each once.
LEMMA FreeListWalks ==
    ASSUME NEW S, vq \in Queues, FreeOutside(vq, S)
    PROVE  /\ \A i, j \in DOMAIN FreeList : i # j => FreeList[i] # FreeList[j]
           /\ {FreeList[i] : i \in DOMAIN FreeList} = Slots \ S
<1> DEFINE n == vq.free_count
           P(w) == w = [k \in 1 .. SIZE |->
                          IF k = 1 THEN vq.free_head ELSE vq.desc[w[k - 1]].next]
           walk == CHOOSE w : P(w)
           Walks(m, w) == /\ w \in [1 .. m -> Slots]
                          /\ w[1] = vq.free_head
                          /\ \A k \in 2 .. m : w[k] = vq.desc[w[k - 1]].next
<1>1. PICK f : Lists(vq, f, S)
  BY Zenon DEF FreeOutside
<1>2. /\ n \in 0 .. SIZE /\ SIZE \in Nat \ {0} /\ vq.free_head \in Slots
      /\ \A s \in Slots : vq.desc[s].next \in Slots
      /\ f \in [1 .. n -> Slots]
  BY <1>1, VirtqueueAssumption, Zenon DEF Lists, Queues, Descs
\* There is a walk of every length.
<1>3. \A m \in 1 .. SIZE : \E w : Walks(m, w)
  <2> DEFINE T == {m \in 1 .. SIZE : ~\E w : Walks(m, w)}
  <2> SUFFICES ASSUME T # {} PROVE FALSE
    BY Zenon
  <2>1. T \in SUBSET Nat
    BY <1>2
  <2>2. PICK m \in T : \A j \in T : m <= j
    BY <2>1, LeastNat, Zenon
  <2>3. m # 1
    <3> DEFINE w == [k \in 1 .. 1 |-> vq.free_head]
    <3>1. Walks(1, w)
      BY <1>2
    <3> HIDE DEF Walks
    <3> QED
      BY <2>2, <3>1, Zenon
  <2>4. m \in 2 .. SIZE /\ m - 1 \in 1 .. SIZE /\ ~(m <= m - 1)
    BY <1>2, <2>2, <2>3
  <2>5. PICK v : Walks(m - 1, v)
    BY <2>2, <2>4, Zenon
  <2> DEFINE w == [k \in 1 .. m |-> IF k = m THEN vq.desc[v[m - 1]].next ELSE v[k]]
  <2>6. Walks(m, w)
    <3>1. /\ v \in [1 .. m - 1 -> Slots]
          /\ v[1] = vq.free_head
          /\ \A k \in 2 .. m - 1 : v[k] = vq.desc[v[k - 1]].next
      BY <2>5, Zenon
    <3>2. \A k \in 1 .. m - 1 : w[k] = v[k]
      BY <2>4
    <3>3. w[m] = vq.desc[v[m - 1]].next
      BY <2>4
    <3>4. w \in [1 .. m -> Slots]
      BY <1>2, <2>4, <3>1
    <3> HIDE DEF w
    <3>5. \A k \in 2 .. m : w[k] = vq.desc[w[k - 1]].next
      <4> TAKE k \in 2 .. m
      <4>1. CASE k = m
        BY <2>4, <3>2, <3>3, <4>1
      <4>2. CASE k # m
        <5>1. k \in 2 .. m - 1 /\ k \in 1 .. m - 1 /\ k - 1 \in 1 .. m - 1
          BY <2>4, <4>2
        <5> QED
          BY <3>1, <3>2, <5>1, Zenon
      <4> QED
        BY <4>1, <4>2, Zenon
    <3>6. w[1] = vq.free_head
      BY <2>4, <3>1, <3>2
    <3> QED
      BY <3>4, <3>5, <3>6, Zenon
  <2> QED
    BY <2>2, <2>6, Zenon
<1>4. \E w : P(w)
  <2>1. PICK w : Walks(SIZE, w)
    <3> HIDE DEF Walks
    <3> QED
      BY <1>2, <1>3
  <2>2. \A k \in 1 .. SIZE :
            w[k] = IF k = 1 THEN vq.free_head ELSE vq.desc[w[k - 1]].next
    BY <1>2, <2>1
  <2>3. w = [k \in 1 .. SIZE |-> w[k]]
    BY <2>1, Zenon
  <2>4. P(w)
    <3> DEFINE E(k) == IF k = 1 THEN vq.free_head ELSE vq.desc[w[k - 1]].next
    <3>1. \A k \in 1 .. SIZE : w[k] = E(k)
      BY <2>2, Zenon
    <3> HIDE DEF E
    <3>2. w = [k \in 1 .. SIZE |-> E(k)]
      BY <2>3, <3>1, Zenon
    <3> QED
      BY <3>2, Zenon DEF E
  <2> QED
    BY <2>4, Zenon
<1>5. P(walk)
  BY <1>4, Zenon
<1>6. FreeList = [k \in 1 .. n |-> walk[k]]
  BY Zenon DEF FreeList
<1> HIDE DEF walk
\* The walk is the list, as far as that goes.
<1>7. \A k \in 1 .. n : walk[k] = f[k]
  <2> DEFINE T == {k \in 1 .. n : walk[k] # f[k]}
  <2> SUFFICES ASSUME T # {} PROVE FALSE
    BY Zenon
  <2>1. T \in SUBSET Nat
    BY <1>2
  <2>2. PICK k \in T : \A j \in T : k <= j
    BY <2>1, LeastNat, Zenon
  <2>3. /\ walk[1] = vq.free_head
        /\ \A j \in 2 .. SIZE : walk[j] = vq.desc[walk[j - 1]].next
    <3>1. 1 \in 1 .. SIZE /\ \A j \in 2 .. SIZE : j \in 1 .. SIZE /\ j # 1
      BY <1>2
    <3> QED
      BY <1>5, <3>1, Zenon
  <2>4. k # 1
    BY <1>1, <1>2, <2>2, <2>3 DEF Lists
  <2>5. /\ k \in 2 .. SIZE /\ k - 1 \in 1 .. n - 1 /\ k - 1 \in 1 .. n
        /\ (k - 1) + 1 = k /\ ~(k <= k - 1)
    BY <1>2, <2>2, <2>4
  <2>6. walk[k - 1] = f[k - 1]
    BY <2>2, <2>5, Zenon
  <2>7. vq.desc[f[k - 1]].next = f[k]
    BY <1>1, <2>5, Zenon DEF Lists
  <2> QED
    BY <2>2, <2>3, <2>5, <2>6, <2>7, Zenon
<1>8. FreeList = f
  BY <1>2, <1>6, <1>7, Zenon
<1> QED
  BY <1>1, <1>2, <1>8 DEF Lists

-----------------------------------------------------------------------------
(* Ring indices.                                                           *)

\* How far x is ahead of y, both ring indices; the index behind x.
Ahead(x, y) == IF x >= y THEN x - y ELSE x - y + IDX

Up(x) == IF x + 1 = IDX THEN 0 ELSE x + 1

\* They are the remainders that the code's u16 arithmetic leaves.
LEMMA RingArithmetic ==
    ASSUME NEW x \in 0 .. IDX - 1, NEW y \in 0 .. IDX - 1
    PROVE  /\ (x - y) % IDX = Ahead(x, y)
           /\ (x + 1) % IDX = Up(x)
           /\ Ahead(x, y) \in 0 .. IDX - 1
           /\ Up(x) \in 0 .. IDX - 1
           /\ Ahead(x, y) = 0 <=> x = y
<1>1. IDX \in Nat \ {0} /\ x \in Int /\ y \in Int
  BY VirtqueueAssumption
<1>2. x >= y => (x - y) % IDX = x - y
  BY <1>1
<1>3. x < y => (x - y) % IDX = x - y + IDX
  BY <1>1
<1>4. (x + 1) % IDX = Up(x)
  BY <1>1 DEF Up
<1> QED
  BY <1>1, <1>2, <1>3, <1>4 DEF Ahead, Up

\* An index that moves up by one changes the distances by one.
LEMMA AheadMoves ==
    ASSUME NEW x \in 0 .. IDX - 1, NEW y \in 0 .. IDX - 1
    PROVE  /\ Ahead(Up(x), y) = IF Ahead(x, y) = IDX - 1 THEN 0 ELSE Ahead(x, y) + 1
           /\ Ahead(x, Up(y)) = IF x = y THEN IDX - 1 ELSE Ahead(x, y) - 1
           /\ \A z \in 0 .. IDX - 1 : Ahead(x, y) = Ahead(z, y) => x = z
<1>1. IDX \in Nat \ {0} /\ x \in Int /\ y \in Int
  BY VirtqueueAssumption
<1> QED
  BY <1>1 DEF Ahead, Up

\* The list is a matter of three fields.
LEMMA SameList ==
    ASSUME NEW q, NEW r, NEW S, FreeOutside(q, S),
           r.desc = q.desc, r.free_head = q.free_head, r.free_count = q.free_count
    PROVE  FreeOutside(r, S)
<1>1. PICK f : Lists(q, f, S)
  BY Zenon DEF FreeOutside
<1>2. Lists(r, f, S)
  BY <1>1, Zenon DEF Lists
<1> QED
  BY <1>2, Zenon DEF FreeOutside

-----------------------------------------------------------------------------
(* The inductive invariant, of the one core c.                             *)

Pages ==
    [type : {"none", "in", "out"}, lba : LBAs, status : {"pending", "ok", "ioerr"},
     buf : Data]

Requests == [type : {"none", "in", "out"}, lba : LBAs, cnt : 0 .. MaxCnt, val : Data]

Types ==
    /\ vq \in Queues
    /\ page \in Pages
    /\ call \in [Cores -> Requests]
    /\ pc \in [Cores -> {"idle", "fill", "alloc", "submit", "poll", "free", "status", "ret"}]
    /\ chain \in [Cores -> Slots \X Slots \X Slots]
    /\ res \in [Cores -> BOOLEAN]
    /\ ret \in [Cores -> {"OK", "ETIME", "EDISK", "EFULL"}]
    /\ got \in [Cores -> Data]
    /\ disk \in [LBAs -> Data]
    /\ seen \in 0 .. IDX - 1
    /\ job \in [type : {"none", "in", "out"}, lba : LBAs]
    /\ broken \in BOOLEAN
    /\ timeouts \in 0 .. MaxTimeouts

\* The sectors still to come are on the disk, and the header is blank only until
\* the first request is made.
CallInv(c) ==
    /\ pc[c] # "idle" =>
          /\ call[c].type \in {"in", "out"}
          /\ call[c].cnt >= 1
          /\ call[c].lba + call[c].cnt - 1 \in LBAs
    /\ page.type = "none" => pc[c] \in {"idle", "fill"} /\ timeouts = 0

\* The descriptors of the chain are linked and not in the free list; between
\* transfers all are in the list.
ListInv(c) ==
    IF pc[c] \in {"submit", "poll", "free"}
    THEN /\ IsChain(vq, chain[c][1], chain[c][2], chain[c][3], call[c].type)
         /\ FreeOutside(vq, {chain[c][1], chain[c][2], chain[c][3]})
    ELSE FreeOutside(vq, {})

\* What the device has used, has taken and could take, counted from the entry
\* the driver looks at next.
Used == Ahead(vq.used_idx, vq.last_used_idx)
Seen == Ahead(seen, vq.last_used_idx)
Made == Ahead(vq.avail_idx, vq.last_used_idx)

LagInv(c) ==
    timeouts < MaxTimeouts =>
        /\ Made = timeouts + (IF pc[c] = "poll" THEN 1 ELSE 0)
        /\ Seen <= Made
        /\ Seen = Used + (IF job = NoJob THEN 0 ELSE 1)

\* What the call under way asks for has happened to its sector.
Done(c, data) ==
    IF call[c].type = "in" THEN data = disk[call[c].lba]
                           ELSE disk[call[c].lba] = call[c].val

\* Until a request times out, the page and the device are about the call.
FirstInv(c) ==
    timeouts = 0 =>
        /\ ~broken
        /\ pc[c] \in {"alloc", "submit", "poll", "free", "status"} =>
              /\ page.type = call[c].type
              /\ page.lba = call[c].lba
              /\ call[c].type = "out" => page.buf = call[c].val
        /\ pc[c] \in {"free", "status"} => res[c]
        /\ pc[c] = "poll" /\ seen # vq.avail_idx => vq.avail[seen % SIZE] = chain[c][1]
        /\ job # NoJob => job = [type |-> call[c].type, lba |-> call[c].lba]
        /\ /\ page.status = "ok"
           /\ \/ pc[c] \in {"free", "status"}
              \/ pc[c] = "poll" /\ vq.used_idx # vq.last_used_idx
           => Done(c, page.buf)
        /\ pc[c] = "ret" /\ ret[c] = "OK" => Done(c, got[c])

DiskInv(c) == Types /\ CallInv(c) /\ ListInv(c) /\ LagInv(c) /\ FirstInv(c)

\* Facts about the constants.
LEMMA Constants ==
    /\ Some \in Data /\ 0 \in LBAs /\ LBAs \subseteq Nat
    /\ IDX \in Nat \ {0} /\ SIZE \in Nat \ {0} /\ SIZE < IDX
    /\ MaxTimeouts \in 1 .. IDX - 1 /\ MaxCnt \in Nat \ {0}
    /\ NoJob \in [type : {"none", "in", "out"}, lba : LBAs]
    /\ NoCall \in Requests
<1>1. PICK l \in LBAs : TRUE
  BY VirtioBlkAssumption, Zenon
<1>2. 0 \in LBAs
  BY <1>1, VirtioBlkAssumption
<1>3. Some \in Data
  BY VirtioBlkAssumption, Zenon DEF Some
<1> QED
  BY <1>2, <1>3, VirtioBlkAssumption, VirtqueueAssumption DEF NoJob, NoCall, Requests

\* The indices, and the distances between them.
LEMMA Distances ==
    ASSUME Types
    PROVE  /\ vq.avail_idx \in 0 .. IDX - 1 /\ vq.used_idx \in 0 .. IDX - 1
           /\ vq.last_used_idx \in 0 .. IDX - 1 /\ seen \in 0 .. IDX - 1
           /\ Made \in 0 .. IDX - 1 /\ Seen \in 0 .. IDX - 1 /\ Used \in 0 .. IDX - 1
           /\ Made = 0 <=> vq.avail_idx = vq.last_used_idx
           /\ Used = 0 <=> vq.used_idx = vq.last_used_idx
           /\ Seen = 0 <=> seen = vq.last_used_idx
           /\ Seen = Made <=> seen = vq.avail_idx
<1>1. /\ vq.avail_idx \in 0 .. IDX - 1 /\ vq.used_idx \in 0 .. IDX - 1
      /\ vq.last_used_idx \in 0 .. IDX - 1 /\ seen \in 0 .. IDX - 1
  BY Zenon DEF Types, Queues
<1>2. Made \in 0 .. IDX - 1 /\ (Made = 0 <=> vq.avail_idx = vq.last_used_idx)
  BY <1>1, RingArithmetic, Zenon DEF Made
<1>3. Seen \in 0 .. IDX - 1 /\ (Seen = 0 <=> seen = vq.last_used_idx)
  BY <1>1, RingArithmetic, Zenon DEF Seen
<1>4. Used \in 0 .. IDX - 1 /\ (Used = 0 <=> vq.used_idx = vq.last_used_idx)
  BY <1>1, RingArithmetic, Zenon DEF Used
<1>5. Seen = Made <=> seen = vq.avail_idx
  BY <1>1, AheadMoves, Zenon DEF Seen, Made
<1> QED
  BY <1>1, <1>2, <1>3, <1>4, <1>5, Zenon

\* Unless the driver polls or has given up on one, no request is under way.
LEMMA Quiet ==
    ASSUME NEW c, DiskInv(c), pc[c] # "poll", timeouts = 0
    PROVE  job = NoJob /\ seen = vq.avail_idx /\ vq.used_idx = vq.last_used_idx
<1>1. /\ Made \in 0 .. IDX - 1 /\ Seen \in 0 .. IDX - 1 /\ Used \in 0 .. IDX - 1
      /\ Used = 0 <=> vq.used_idx = vq.last_used_idx
      /\ Seen = Made <=> seen = vq.avail_idx
  BY Distances, Zenon DEF DiskInv
<1>2. /\ Made = 0 /\ Seen <= Made /\ Seen = Used + (IF job = NoJob THEN 0 ELSE 1)
  BY Constants DEF DiskInv, LagInv
<1> QED
  BY <1>1, <1>2, Constants

\* At the start all descriptors are in the list, one behind the other.
LEMMA InitDiskInv ==
    ASSUME NEW c, Cores = {c}, Init
    PROVE  DiskInv(c)
<1>1. vq.desc = [i \in Slots |-> [Unused EXCEPT !.next = IF i + 1 < SIZE THEN i + 1 ELSE 0]]
      /\ vq.free_head = 0 /\ vq.free_count = SIZE /\ vq.avail = [i \in Slots |-> 0]
      /\ vq.avail_idx = 0 /\ vq.used_idx = 0 /\ vq.last_used_idx = 0
  BY Zenon DEF Init, virtqueue_init
<1>2. vq \in Queues
  <2>1. \A i \in Slots : [Unused EXCEPT !.next = IF i + 1 < SIZE THEN i + 1 ELSE 0] \in Descs
    <3> TAKE i \in Slots
    <3>1. (IF i + 1 < SIZE THEN i + 1 ELSE 0) \in Slots
      BY Constants DEF Slots
    <3> QED
      BY <3>1, UnusedIsDesc, Zenon DEF Descs
  <2>2. [i \in Slots |-> [Unused EXCEPT !.next = IF i + 1 < SIZE THEN i + 1 ELSE 0]]
            \in [Slots -> Descs]
    BY <2>1, Zenon
  <2>3. 0 \in Slots /\ SIZE \in 0 .. SIZE /\ 0 \in 0 .. IDX - 1
    BY Constants DEF Slots
  <2> QED
    BY <2>2, <2>3, Zenon DEF Init, virtqueue_init, Queues
<1>3. Types
  <2>1. page \in Pages
    BY Constants, Zenon DEF Init, Pages
  <2>2. chain \in [Cores -> Slots \X Slots \X Slots]
    BY UnusedIsDesc, Zenon DEF Init
  <2>3. seen \in 0 .. IDX - 1 /\ timeouts \in 0 .. MaxTimeouts
    BY Constants DEF Init
  <2>4. call \in [Cores -> Requests] /\ job \in [type : {"none", "in", "out"}, lba : LBAs]
    BY Constants, Zenon DEF Init
  <2>5. got \in [Cores -> Data] /\ res \in [Cores -> BOOLEAN] /\ broken \in BOOLEAN
    BY Constants, Zenon DEF Init
  <2> QED
    BY <1>2, <2>1, <2>2, <2>3, <2>4, <2>5, Zenon DEF Init, Types
<1>4. FreeOutside(vq, {})
  <2> DEFINE f == [i \in 1 .. SIZE |-> i - 1]
  <2>1. f \in [1 .. SIZE -> Slots] /\ \A i \in 1 .. SIZE : f[i] = i - 1
    BY Constants DEF Slots
  <2>2. \A i \in 1 .. SIZE - 1 : vq.desc[f[i]].next = f[i + 1]
    <3> TAKE i \in 1 .. SIZE - 1
    <3>1. f[i] = i - 1 /\ f[i + 1] = i /\ i - 1 \in Slots /\ (i - 1) + 1 = i /\ i < SIZE
      BY Constants DEF Slots
    <3>2. vq.desc[i - 1] = [Unused EXCEPT !.next = i]
      BY <1>1, <3>1
    <3> QED
      BY <3>1, <3>2, Zenon DEF Unused
  <2>3. \A t \in Slots : \E i \in 1 .. SIZE : f[i] = t
    <3> TAKE t \in Slots
    <3>1. t + 1 \in 1 .. SIZE /\ f[t + 1] = t
      BY Constants DEF Slots
    <3> QED
      BY <3>1, Zenon
  <2>4. \A i, j \in 1 .. SIZE : f[i] = f[j] => i = j
    BY <2>1, Constants
  <2>5. f[1] = 0
    BY Constants
  <2> HIDE DEF f
  <2>6. Lists(vq, f, {})
    BY <1>1, <2>1, <2>2, <2>3, <2>4, <2>5, Zenon DEF Lists
  <2> QED
    BY <2>6, Zenon DEF FreeOutside
<1>5. pc[c] = "idle" /\ seen = 0 /\ timeouts = 0 /\ job = NoJob /\ ~broken
  BY Zenon DEF Init
<1>6. ListInv(c) /\ CallInv(c)
  BY <1>4, <1>5, Zenon DEF ListInv, CallInv, Init
<1>7. LagInv(c)
  BY <1>1, <1>5 DEF LagInv, Used, Seen, Made, Ahead
<1>8. FirstInv(c)
  BY <1>5, Zenon DEF FirstInv
<1> QED
  BY <1>3, <1>6, <1>7, <1>8, Zenon DEF DiskInv

\* A call asks for sectors of the disk.
LEMMA CallStep ==
    ASSUME NEW c, Cores = {c}, DiskInv(c), Calls(c)
    PROVE  DiskInv(c)'
<1>1. PICK lba \in LBAs, cnt \in 1 .. MaxCnt, type \in {"in", "out"}, val \in Data :
        lba + cnt - 1 \in LBAs /\ block_rw(c, type, lba, cnt, val)
  BY Constants, Zenon DEF Calls
<1>2. /\ pc[c] = "idle" /\ pc'[c] = "fill"
      /\ call'[c] = [type |-> type, lba |-> lba, cnt |-> cnt, val |-> val]
      /\ pc' = [pc EXCEPT ![c] = "fill"]
      /\ UNCHANGED <<vq, page, chain, res, ret, got, disk, seen, job, broken, timeouts>>
  BY <1>1, Zenon DEF block_rw, Goto, DiskInv, Types, devvars
<1>3. [type |-> type, lba |-> lba, cnt |-> cnt, val |-> val] \in Requests
  BY Constants DEF Requests
<1>4. Types'
  BY <1>1, <1>2, <1>3, Zenon DEF DiskInv, Types, block_rw
<1>5. CallInv(c)'
  BY <1>1, <1>2, Constants DEF DiskInv, CallInv
<1>6. ListInv(c)'
  BY <1>2, Zenon DEF DiskInv, ListInv
<1>7. LagInv(c)'
  BY <1>2, Zenon DEF DiskInv, LagInv, Used, Seen, Made
<1>8. FirstInv(c)'
  <2>1. timeouts = 0 => job = NoJob
    BY <1>2, Quiet, Zenon
  <2> QED
    BY <1>2, <2>1, Zenon DEF DiskInv, FirstInv
<1> QED
  BY <1>4, <1>5, <1>6, <1>7, <1>8, Zenon DEF DiskInv

\* The page is filled from the call; the device has no request.
LEMMA FillStep ==
    ASSUME NEW c, Cores = {c}, DiskInv(c), FillPage(c)
    PROVE  DiskInv(c)'
<1>1. /\ pc[c] = "fill" /\ pc'[c] = "alloc"
      /\ pc' = [pc EXCEPT ![c] = "alloc"]
      /\ UNCHANGED <<vq, call, chain, res, ret, got, disk, seen, job, broken, timeouts>>
  BY Zenon DEF FillPage, Goto, DiskInv, Types, devvars
<1>2. /\ page'.type = call[c].type /\ page'.lba = call[c].lba
      /\ call[c].type = "out" => page'.buf = call[c].val
  BY Zenon DEF FillPage
<1>3. page' \in Pages
  <2>1. call[c] \in Requests /\ page.buf \in Data
    BY Zenon DEF DiskInv, Types, Pages
  <2> QED
    BY <2>1, Zenon DEF FillPage, Requests, Pages
<1>4. Types'
  BY <1>1, <1>3, Zenon DEF DiskInv, Types
<1>5. CallInv(c)'
  BY <1>1, <1>2, Zenon DEF DiskInv, CallInv
<1>6. ListInv(c)'
  BY <1>1, Zenon DEF DiskInv, ListInv
<1>7. LagInv(c)'
  BY <1>1, Zenon DEF DiskInv, LagInv, Used, Seen, Made
<1>8. FirstInv(c)'
  <2>1. timeouts = 0 => job = NoJob
    BY <1>1, Quiet, Zenon
  <2> QED
    BY <1>1, <1>2, <2>1, Zenon DEF DiskInv, FirstInv
<1> QED
  BY <1>4, <1>5, <1>6, <1>7, <1>8, Zenon DEF DiskInv

\* Descriptors taken and given back: the list has all it had.
LEMMA TakenBackKeeps ==
    ASSUME NEW q \in Queues, FreeOutside(q, {}), ~(q.free_count >= 3)
    PROVE  /\ TakenBack(q) \in Queues
           /\ FreeOutside(TakenBack(q), {})
           /\ TakenBack(q).avail = q.avail /\ TakenBack(q).avail_idx = q.avail_idx
           /\ TakenBack(q).used_idx = q.used_idx
           /\ TakenBack(q).last_used_idx = q.last_used_idx
<1> DEFINE q1 == virtqueue_alloc_desc(q)
           q2 == virtqueue_alloc_desc(q1)
           d0 == q.free_head
           d1 == q1.free_head
           r1 == virtqueue_free_desc(q1, d0)
           s1 == virtqueue_free_desc(q2, d0)
           s2 == virtqueue_free_desc(s1, d1)
<1>1. q.free_count \in Nat
  BY VirtqueueAssumption DEF Queues
<1>2. CASE q.free_count = 0
  BY <1>2 DEF TakenBack
<1>3. ASSUME q.free_count > 0
      PROVE  /\ q1 \in Queues /\ q1.free_count = q.free_count - 1
             /\ FreeOutside(q1, {d0}) /\ d0 \in Slots
             /\ q1.avail = q.avail /\ q1.avail_idx = q.avail_idx
             /\ q1.used_idx = q.used_idx /\ q1.last_used_idx = q.last_used_idx
  <2>1. /\ q1 \in Queues /\ q1.free_count = q.free_count - 1
        /\ FreeOutside(q1, {} \cup {d0}) /\ d0 \in Slots \ {}
    BY <1>3, AllocKeeps, Zenon
  <2>2. {} \cup {d0} = {d0}
    OBVIOUS
  <2>3. /\ q1.avail = q.avail /\ q1.avail_idx = q.avail_idx
        /\ q1.used_idx = q.used_idx /\ q1.last_used_idx = q.last_used_idx
    BY Zenon DEF virtqueue_alloc_desc, Queues
  <2> QED
    BY <2>1, <2>2, <2>3, Zenon
<1>4. CASE q.free_count = 1
  <2>1. q.free_count > 0 /\ TakenBack(q) = r1 /\ {d0} \ {d0} = {}
    BY <1>4 DEF TakenBack
  <2> HIDE DEF q1, d0
  <2>2. d0 \in {d0}
    OBVIOUS
  <2>3. /\ r1 \in Queues /\ FreeOutside(r1, {d0} \ {d0})
        /\ r1.avail = q1.avail /\ r1.avail_idx = q1.avail_idx
        /\ r1.used_idx = q1.used_idx /\ r1.last_used_idx = q1.last_used_idx
    <3> DEFINE S == {d0}
    <3>0. d0 \in Slots /\ q1 \in Queues /\ FreeOutside(q1, S) /\ d0 \in S
      BY <1>3, <2>1, <2>2, Zenon
    <3> HIDE DEF S
    <3>1. /\ r1 \in Queues /\ FreeOutside(r1, S \ {d0})
          /\ r1.avail = q1.avail /\ r1.avail_idx = q1.avail_idx
          /\ r1.used_idx = q1.used_idx /\ r1.last_used_idx = q1.last_used_idx
      BY <3>0, FreeKeeps, Zenon
    <3> QED
      BY <3>1, Zenon DEF S
  <2> HIDE DEF r1
  <2> QED
    BY <1>3, <2>1, <2>3, Zenon
<1>5. CASE q.free_count = 2
  <2>1. q.free_count > 0 /\ q1.free_count > 0 /\ TakenBack(q) = s2
    <3>1. q.free_count > 0 /\ q.free_count # 0 /\ q.free_count # 1
      BY <1>5
    <3>2. q1.free_count > 0
      BY <1>3, <1>5, <3>1
    <3>3. TakenBack(q) = s2
      BY <3>1, Zenon DEF TakenBack
    <3> QED
      BY <3>1, <3>2, <3>3, Zenon
  <2>2. /\ q2 \in Queues
        /\ FreeOutside(q2, {d0} \cup {d1}) /\ d1 \in Slots \ {d0}
    BY <1>3, <2>1, AllocKeeps, Zenon
  <2>3. /\ q2.avail = q1.avail /\ q2.avail_idx = q1.avail_idx
        /\ q2.used_idx = q1.used_idx /\ q2.last_used_idx = q1.last_used_idx
    BY <1>3, <2>1, Zenon DEF virtqueue_alloc_desc, Queues
  <2> HIDE DEF q1, q2, d0, d1
  <2>4. /\ d0 \in {d0} \cup {d1} /\ ({d0} \cup {d1}) \ {d0} = {d1}
        /\ d1 \in {d1} /\ {d1} \ {d1} = {}
    BY <2>2
  <2>5. /\ s1 \in Queues /\ FreeOutside(s1, {d1})
        /\ s1.avail = q2.avail /\ s1.avail_idx = q2.avail_idx
        /\ s1.used_idx = q2.used_idx /\ s1.last_used_idx = q2.last_used_idx
    <3> DEFINE S == {d0} \cup {d1}
    <3>0. d0 \in Slots /\ q2 \in Queues /\ FreeOutside(q2, S) /\ d0 \in S
      BY <1>3, <2>1, <2>2, <2>4, Zenon
    <3> HIDE DEF S
    <3>1. /\ s1 \in Queues /\ FreeOutside(s1, S \ {d0})
          /\ s1.avail = q2.avail /\ s1.avail_idx = q2.avail_idx
          /\ s1.used_idx = q2.used_idx /\ s1.last_used_idx = q2.last_used_idx
      BY <3>0, FreeKeeps, Zenon
    <3> QED
      BY <2>4, <3>1, Zenon DEF S
  <2> HIDE DEF s1
  <2>6. /\ s2 \in Queues /\ FreeOutside(s2, {d1} \ {d1})
        /\ s2.avail = s1.avail /\ s2.avail_idx = s1.avail_idx
        /\ s2.used_idx = s1.used_idx /\ s2.last_used_idx = s1.last_used_idx
    <3> DEFINE S == {d1}
    <3>0. d1 \in Slots /\ s1 \in Queues /\ FreeOutside(s1, S) /\ d1 \in S
      BY <2>2, <2>5, Zenon
    <3> HIDE DEF S
    <3>1. /\ s2 \in Queues /\ FreeOutside(s2, S \ {d1})
          /\ s2.avail = s1.avail /\ s2.avail_idx = s1.avail_idx
          /\ s2.used_idx = s1.used_idx /\ s2.last_used_idx = s1.last_used_idx
      BY <3>0, FreeKeeps, Zenon
    <3> QED
      BY <3>1, Zenon DEF S
  <2> HIDE DEF s2
  <2> QED
    BY <1>3, <2>1, <2>3, <2>4, <2>5, <2>6, Zenon
<1> QED
  BY <1>1, <1>2, <1>4, <1>5

\* Three descriptors become a chain, or the call fails.
LEMMA AllocStep ==
    ASSUME NEW c, Cores = {c}, DiskInv(c), AllocChain(c)
    PROVE  DiskInv(c)'
<1> DEFINE q1 == virtqueue_alloc_desc(vq)
           q2 == virtqueue_alloc_desc(q1)
           q3 == virtqueue_alloc_desc(q2)
           d0 == vq.free_head
           d1 == q1.free_head
           d2 == q2.free_head
<1>1. /\ pc[c] = "alloc"
      /\ UNCHANGED <<page, call, res, got, disk, seen, job, broken, timeouts>>
      /\ vq \in Queues /\ call[c].type \in {"in", "out"} /\ FreeOutside(vq, {})
  BY Zenon DEF AllocChain, DiskInv, Types, CallInv, ListInv, devvars
<1>2. CASE vq.free_count >= 3
  <2>1. /\ chain' = [chain EXCEPT ![c] = <<d0, d1, d2>>]
        /\ vq' = Linked(q3, d0, d1, d2, call[c].type)
        /\ pc' = [pc EXCEPT ![c] = "submit"]
        /\ ret' = ret
    BY <1>2, Zenon DEF AllocChain, Goto
  <2>2. /\ vq' \in Queues
        /\ FreeOutside(vq', {d0, d1, d2})
        /\ IsChain(vq', d0, d1, d2, call[c].type)
        /\ vq'.avail = vq.avail /\ vq'.avail_idx = vq.avail_idx
        /\ vq'.used_idx = vq.used_idx /\ vq'.last_used_idx = vq.last_used_idx
    BY <1>1, <1>2, <2>1, LinkedKeeps, Zenon
  <2> HIDE DEF q1, q2, q3, d0, d1, d2
  <2>3. /\ pc'[c] = "submit" /\ <<d0, d1, d2>> \in Slots \X Slots \X Slots
        /\ chain'[c] = <<d0, d1, d2>>
    BY <2>1, <2>2, Zenon DEF DiskInv, Types, IsChain
  <2>4. Types'
    BY <1>1, <2>1, <2>2, <2>3, Zenon DEF DiskInv, Types
  <2>5. CallInv(c)'
    BY <1>1, Zenon DEF DiskInv, CallInv
  <2>6. ListInv(c)'
    BY <1>1, <2>2, <2>3 DEF ListInv
  <2>7. LagInv(c)'
    BY <1>1, <2>2, <2>3, Zenon DEF DiskInv, LagInv, Used, Seen, Made
  <2>8. FirstInv(c)'
    BY <1>1, <2>3, Zenon DEF DiskInv, FirstInv
  <2> QED
    BY <2>4, <2>5, <2>6, <2>7, <2>8, Zenon DEF DiskInv
<1>3. CASE ~(vq.free_count >= 3)
  <2>1. /\ ret' = [ret EXCEPT ![c] = "EFULL"]
        /\ pc' = [pc EXCEPT ![c] = "ret"]
        /\ vq' = TakenBack(vq) /\ UNCHANGED chain
    BY <1>3, Zenon DEF AllocChain, Goto
  <2>2. pc'[c] = "ret" /\ ret'[c] = "EFULL"
    BY <2>1, Zenon DEF DiskInv, Types
  <2>8. /\ vq' \in Queues /\ FreeOutside(vq', {})
        /\ vq'.avail = vq.avail /\ vq'.avail_idx = vq.avail_idx
        /\ vq'.used_idx = vq.used_idx /\ vq'.last_used_idx = vq.last_used_idx
    BY <1>1, <1>3, <2>1, TakenBackKeeps, Zenon
  <2>3. Types'
    BY <1>1, <2>1, <2>8, Zenon DEF DiskInv, Types
  <2>4. CallInv(c)'
    BY <1>1, Zenon DEF DiskInv, CallInv
  <2>5. ListInv(c)'
    BY <2>2, <2>8 DEF ListInv
  <2>6. LagInv(c)'
    BY <1>1, <2>2, <2>8, Zenon DEF DiskInv, LagInv, Used, Seen, Made
  <2>7. FirstInv(c)'
    BY <1>1, <2>2, Zenon DEF DiskInv, FirstInv
  <2> QED
    BY <2>3, <2>4, <2>5, <2>6, <2>7, Zenon DEF DiskInv
<1> QED
  BY <1>2, <1>3, Zenon

\* The chain is made available: the driver is one more request ahead.
LEMMA SubmitStep ==
    ASSUME NEW c, Cores = {c}, DiskInv(c), Submit(c)
    PROVE  DiskInv(c)'
<1> DEFINE h == chain[c][1]
           a == vq.avail_idx % SIZE
<1>1. /\ pc[c] = "submit" /\ pc'[c] = "poll"
      /\ pc' = [pc EXCEPT ![c] = "poll"]
      /\ vq' = virtqueue_submit_chain(vq, h)
      /\ UNCHANGED <<page, call, chain, res, ret, got, disk, seen, job, broken, timeouts>>
  BY Zenon DEF Submit, Goto, DiskInv, Types, devvars
<1>2. /\ vq \in Queues /\ vq.avail \in [Slots -> Slots]
      /\ vq.avail_idx \in 0 .. IDX - 1 /\ vq.used_idx \in 0 .. IDX - 1
      /\ vq.last_used_idx \in 0 .. IDX - 1 /\ seen \in 0 .. IDX - 1
      /\ h \in Slots
  BY Zenon DEF DiskInv, Types, Queues
<1>3. a \in Slots
  BY <1>2, Constants DEF Slots
<1>4. /\ vq'.avail = [vq.avail EXCEPT ![a] = h]
      /\ vq'.avail_idx = (vq.avail_idx + 1) % IDX
      /\ vq'.desc = vq.desc /\ vq'.free_head = vq.free_head
      /\ vq'.free_count = vq.free_count
      /\ vq'.used_idx = vq.used_idx /\ vq'.last_used_idx = vq.last_used_idx
  BY <1>1, <1>2, Zenon DEF virtqueue_submit_chain, Queues
<1>5. vq'.avail_idx = Up(vq.avail_idx) /\ vq'.avail_idx \in 0 .. IDX - 1
  <2>1. (vq.avail_idx + 1) % IDX = Up(vq.avail_idx) /\ Up(vq.avail_idx) \in 0 .. IDX - 1
    BY <1>2, RingArithmetic, Zenon
  <2> QED
    BY <1>4, <2>1, Zenon
<1>6. [vq.avail EXCEPT ![a] = h] \in [Slots -> Slots]
  BY <1>2, <1>3, Zenon
<1>7. vq' \in Queues
  BY <1>1, <1>2, <1>4, <1>5, <1>6, Zenon DEF virtqueue_submit_chain, Queues
<1>8. Types'
  BY <1>1, <1>7, Zenon DEF DiskInv, Types
<1>9. CallInv(c)'
  BY <1>1, Zenon DEF DiskInv, CallInv
<1>10. ListInv(c)'
  <2>1. /\ IsChain(vq, h, chain[c][2], chain[c][3], call[c].type)
        /\ FreeOutside(vq, {h, chain[c][2], chain[c][3]})
    BY <1>1, Zenon DEF DiskInv, ListInv
  <2>2. IsChain(vq', h, chain[c][2], chain[c][3], call[c].type)
    BY <1>4, <2>1, Zenon DEF IsChain
  <2>3. FreeOutside(vq', {h, chain[c][2], chain[c][3]})
    BY <1>4, <2>1, SameList, Zenon
  <2> QED
    BY <1>1, <2>2, <2>3, Zenon DEF ListInv
<1>11. LagInv(c)'
  <2>1. Seen' = Seen /\ Used' = Used
    BY <1>1, <1>4, Zenon DEF Seen, Used
  <2>2. Made' = IF Made = IDX - 1 THEN 0 ELSE Made + 1
    BY <1>2, <1>4, <1>5, AheadMoves DEF Made
  <2>3. /\ Made \in 0 .. IDX - 1 /\ Seen \in 0 .. IDX - 1 /\ Used \in 0 .. IDX - 1
        /\ timeouts \in 0 .. MaxTimeouts
    BY Distances, Zenon DEF DiskInv, Types
  <2>4. timeouts < MaxTimeouts =>
            /\ Made = timeouts + 0 /\ Seen <= Made
            /\ Seen = Used + (IF job = NoJob THEN 0 ELSE 1)
    BY <1>1, Zenon DEF DiskInv, LagInv
  <2>5. timeouts < MaxTimeouts => Made' = timeouts + 1 /\ Seen' <= Made'
    BY <2>1, <2>2, <2>3, <2>4, Constants
  <2> QED
    BY <1>1, <2>1, <2>4, <2>5, Zenon DEF LagInv
<1>12. FirstInv(c)'
  <2>1. timeouts = 0 => job = NoJob /\ seen = vq.avail_idx /\ vq.used_idx = vq.last_used_idx
    BY <1>1, Quiet, Zenon
  <2>2. timeouts = 0 => vq'.avail[seen % SIZE] = h
    BY <1>2, <1>3, <1>4, <2>1, Zenon
  <2> QED
    BY <1>1, <1>4, <2>1, <2>2, Zenon DEF DiskInv, FirstInv
<1> QED
  BY <1>8, <1>9, <1>10, <1>11, <1>12, Zenon DEF DiskInv

\* A used entry is taken: until a request times out, it is the one asked for.
LEMMA PollTakesStep ==
    ASSUME NEW c, Cores = {c}, DiskInv(c), PollTakes(c)
    PROVE  DiskInv(c)'
<1>1. /\ pc[c] = "poll" /\ pc'[c] = "free"
      /\ pc' = [pc EXCEPT ![c] = "free"]
      /\ res' = [res EXCEPT ![c] = TRUE] /\ res'[c] = TRUE
      /\ vq' = TakeUsed(vq) /\ vq.last_used_idx # vq.used_idx
      /\ UNCHANGED <<page, call, chain, ret, got, disk, seen, job, broken, timeouts>>
  BY Zenon DEF PollTakes, Goto, DiskInv, Types, devvars, virtqueue_has_used
<1>2. vq \in Queues /\ timeouts \in 0 .. MaxTimeouts
  BY Zenon DEF DiskInv, Types
<1>3. /\ vq.avail_idx \in 0 .. IDX - 1 /\ vq.used_idx \in 0 .. IDX - 1
      /\ vq.last_used_idx \in 0 .. IDX - 1 /\ seen \in 0 .. IDX - 1
      /\ Made \in 0 .. IDX - 1 /\ Seen \in 0 .. IDX - 1 /\ Used \in 0 .. IDX - 1
      /\ Made = 0 <=> vq.avail_idx = vq.last_used_idx
      /\ Used = 0 <=> vq.used_idx = vq.last_used_idx
      /\ Seen = 0 <=> seen = vq.last_used_idx
  BY Distances, Zenon DEF DiskInv
<1>4. /\ vq'.last_used_idx = (vq.last_used_idx + 1) % IDX
      /\ vq'.desc = vq.desc /\ vq'.free_head = vq.free_head
      /\ vq'.free_count = vq.free_count /\ vq'.avail = vq.avail
      /\ vq'.used_idx = vq.used_idx /\ vq'.avail_idx = vq.avail_idx
  BY <1>1, <1>2, Zenon DEF TakeUsed, Queues
<1>5. vq'.last_used_idx = Up(vq.last_used_idx) /\ vq'.last_used_idx \in 0 .. IDX - 1
  <2>1. /\ (vq.last_used_idx + 1) % IDX = Up(vq.last_used_idx)
        /\ Up(vq.last_used_idx) \in 0 .. IDX - 1
    BY <1>3, RingArithmetic, Zenon
  <2> QED
    BY <1>4, <2>1, Zenon
<1>6. vq' \in Queues
  BY <1>1, <1>2, <1>4, <1>5, Zenon DEF TakeUsed, Queues
<1>7. Types'
  BY <1>1, <1>6, Zenon DEF DiskInv, Types
<1>8. CallInv(c)'
  BY <1>1, Zenon DEF DiskInv, CallInv
<1>9. ListInv(c)'
  <2>1. /\ IsChain(vq, chain[c][1], chain[c][2], chain[c][3], call[c].type)
        /\ FreeOutside(vq, {chain[c][1], chain[c][2], chain[c][3]})
    BY <1>1, Zenon DEF DiskInv, ListInv
  <2>2. IsChain(vq', chain[c][1], chain[c][2], chain[c][3], call[c].type)
    BY <1>4, <2>1, Zenon DEF IsChain
  <2>3. FreeOutside(vq', {chain[c][1], chain[c][2], chain[c][3]})
    BY <1>4, <2>1, SameList, Zenon
  <2> QED
    BY <1>1, <2>2, <2>3, Zenon DEF ListInv
<1>10. LagInv(c)'
  <2>0. timeouts + 0 = timeouts
    BY <1>2, Constants
  <2> SUFFICES ASSUME timeouts < MaxTimeouts
               PROVE  /\ Made' = timeouts
                      /\ Seen' <= Made'
                      /\ Seen' = Used' + (IF job = NoJob THEN 0 ELSE 1)
    BY <1>1, <2>0, Zenon DEF LagInv
  <2>1. /\ Made = timeouts + 1 /\ Seen <= Made
        /\ Seen = Used + (IF job = NoJob THEN 0 ELSE 1)
    BY <1>1, Zenon DEF DiskInv, LagInv
  <2>2. Used > 0 /\ Seen > 0 /\ Made > 0
    BY <1>1, <1>2, <1>3, <2>1, Constants
  <2>3. Used' = Used - 1
    BY <1>1, <1>3, <1>4, <1>5, AheadMoves DEF Used
  <2>4. Made' = Made - 1
    BY <1>3, <1>4, <1>5, <2>2, AheadMoves DEF Made
  <2>5. Seen' = Seen - 1
    <3>1. seen # vq.last_used_idx
      BY <1>3, <2>2
    <3> QED
      BY <1>1, <1>3, <1>5, <3>1, AheadMoves DEF Seen
  <2> QED
    BY <1>2, <1>3, <2>1, <2>3, <2>4, <2>5, Constants
<1>11. FirstInv(c)'
  BY <1>1, Zenon DEF DiskInv, FirstInv, Done
<1> QED
  BY <1>7, <1>8, <1>9, <1>10, <1>11, Zenon DEF DiskInv

\* A request given up on: the driver is one more behind.
LEMMA PollTimesOutStep ==
    ASSUME NEW c, Cores = {c}, DiskInv(c), PollTimesOut(c)
    PROVE  DiskInv(c)'
<1>1. /\ pc[c] = "poll" /\ pc'[c] = "free"
      /\ pc' = [pc EXCEPT ![c] = "free"]
      /\ res' = [res EXCEPT ![c] = FALSE]
      /\ timeouts' = IF timeouts < MaxTimeouts THEN timeouts + 1 ELSE timeouts
      /\ UNCHANGED <<vq, page, call, chain, ret, got, disk, seen, job, broken>>
  BY Zenon DEF PollTimesOut, Goto, DiskInv, Types, devvars
<1>2. timeouts \in 0 .. MaxTimeouts
  BY Zenon DEF DiskInv, Types
<1>3. timeouts' \in 1 .. MaxTimeouts
  BY <1>1, <1>2, Constants
<1>4. Types'
  BY <1>1, <1>3 DEF DiskInv, Types
<1>5. CallInv(c)'
  BY <1>1, Zenon DEF DiskInv, CallInv
<1>6. ListInv(c)'
  BY <1>1, Zenon DEF DiskInv, ListInv
<1>7. LagInv(c)'
  <2>1. Made' = Made /\ Seen' = Seen /\ Used' = Used
    BY <1>1, Zenon DEF Made, Seen, Used
  <2> QED
    BY <1>1, <1>2, <2>1, Constants DEF DiskInv, LagInv
<1>8. FirstInv(c)'
  BY <1>3 DEF FirstInv
<1> QED
  BY <1>4, <1>5, <1>6, <1>7, <1>8, Zenon DEF DiskInv

\* The chain goes back to the list, answered or not.
LEMMA FreeChainStep ==
    ASSUME NEW c, Cores = {c}, DiskInv(c), FreeChain(c)
    PROVE  DiskInv(c)'
<1>1. /\ pc[c] = "free" /\ pc'[c] = "status"
      /\ pc' = [pc EXCEPT ![c] = "status"]
      /\ vq' = virtqueue_free_chain(vq, chain[c][1])
      /\ UNCHANGED <<page, call, chain, res, ret, got, disk, seen, job, broken, timeouts>>
      /\ vq \in Queues
      /\ IsChain(vq, chain[c][1], chain[c][2], chain[c][3], call[c].type)
      /\ FreeOutside(vq, {chain[c][1], chain[c][2], chain[c][3]})
  BY Zenon DEF FreeChain, Goto, DiskInv, Types, ListInv, devvars
<1>2. /\ vq' \in Queues
      /\ FreeOutside(vq', {})
      /\ vq'.avail = vq.avail /\ vq'.avail_idx = vq.avail_idx
      /\ vq'.used_idx = vq.used_idx /\ vq'.last_used_idx = vq.last_used_idx
  BY <1>1, FreeChainKeeps, Zenon
<1>3. Types'
  BY <1>1, <1>2, Zenon DEF DiskInv, Types
<1>4. CallInv(c)'
  BY <1>1, Zenon DEF DiskInv, CallInv
<1>5. ListInv(c)'
  BY <1>1, <1>2, Zenon DEF ListInv
<1>6. LagInv(c)'
  BY <1>1, <1>2, Zenon DEF DiskInv, LagInv, Used, Seen, Made
<1>7. FirstInv(c)'
  BY <1>1, Zenon DEF DiskInv, FirstInv, Done
<1> QED
  BY <1>3, <1>4, <1>5, <1>6, <1>7, Zenon DEF DiskInv

\* The status byte is the device's answer to this call.
LEMMA StatusStep ==
    ASSUME NEW c, Cores = {c}, DiskInv(c), Status(c)
    PROVE  DiskInv(c)'
<1>1. /\ pc[c] = "status" /\ pc'[c] = "ret"
      /\ pc' = [pc EXCEPT ![c] = "ret"]
      /\ ret' = [ret EXCEPT ![c] = Outcome(c)] /\ ret'[c] = Outcome(c)
      /\ got' = IF Outcome(c) = "OK" /\ call[c].type = "in"
                THEN [got EXCEPT ![c] = page.buf] ELSE got
      /\ UNCHANGED <<vq, page, call, chain, res, disk, seen, job, broken, timeouts>>
  BY Zenon DEF Status, Goto, DiskInv, Types, devvars
<1>2. /\ Outcome(c) \in {"OK", "ETIME", "EDISK", "EFULL"}
      /\ Outcome(c) = "OK" => page.status = "ok"
  BY Zenon DEF Outcome
<1>3. page.buf \in Data
  BY Zenon DEF DiskInv, Types, Pages
<1>4. Types'
  BY <1>1, <1>2, <1>3, Zenon DEF DiskInv, Types
<1>5. CallInv(c)'
  BY <1>1, Zenon DEF DiskInv, CallInv
<1>6. ListInv(c)'
  BY <1>1, Zenon DEF DiskInv, ListInv
<1>7. LagInv(c)'
  BY <1>1, Zenon DEF DiskInv, LagInv, Used, Seen, Made
<1>8. FirstInv(c)'
  <2>1. Outcome(c) = "OK" /\ call[c].type = "in" => got'[c] = page.buf
    BY <1>1, Zenon DEF DiskInv, Types
  <2>2. timeouts = 0 /\ Outcome(c) = "OK" => Done(c, page.buf)
    BY <1>1, <1>2, Zenon DEF DiskInv, FirstInv
  <2> QED
    BY <1>1, <2>1, <2>2, Zenon DEF DiskInv, FirstInv, Done
<1> QED
  BY <1>4, <1>5, <1>6, <1>7, <1>8, Zenon DEF DiskInv

\* The next sector of the call is on the disk too, or the call is over.
LEMMA NextSectorStep ==
    ASSUME NEW c, Cores = {c}, DiskInv(c), NextSector(c)
    PROVE  DiskInv(c)'
<1>1. /\ pc[c] = "ret"
      /\ UNCHANGED <<vq, page, disk, seen, job, broken, timeouts>>
      /\ call[c] \in Requests
  BY Zenon DEF NextSector, DiskInv, Types, devvars
<1>2. timeouts = 0 => job = NoJob
  BY <1>1, Quiet, Zenon
<1>3. Made' = Made /\ Seen' = Seen /\ Used' = Used
  BY <1>1, Zenon DEF Made, Seen, Used
<1>4. CASE ret[c] = "OK" /\ call[c].cnt > 1
  <2>1. /\ call' = [call EXCEPT ![c].lba = @ + 1, ![c].cnt = @ - 1]
        /\ pc' = [pc EXCEPT ![c] = "fill"] /\ pc'[c] = "fill"
        /\ UNCHANGED <<chain, res, ret, got>>
    BY <1>4, Zenon DEF NextSector, Goto, DiskInv, Types
  <2>2. /\ call[c].lba \in LBAs /\ call[c].cnt \in 1 .. MaxCnt
        /\ call[c].type \in {"in", "out"} /\ call[c].val \in Data
        /\ call[c].lba + call[c].cnt - 1 \in LBAs
    BY <1>1, Constants DEF DiskInv, CallInv, Requests
  <2>3. /\ call[c].lba + 1 \in LBAs /\ call[c].cnt - 1 \in 1 .. MaxCnt
        /\ (call[c].lba + 1) + (call[c].cnt - 1) - 1 = call[c].lba + call[c].cnt - 1
    <3>1. call[c].lba \in Nat /\ call[c].cnt \in Nat /\ MaxCnt \in Nat
      <4>1. MaxCnt \in Nat /\ LBAs \subseteq Nat
        BY Constants, Zenon
      <4>2. call[c].lba \in Nat
        BY <2>2, <4>1, Zenon
      <4> QED
        BY <2>2, <4>1, <4>2
    <3>2. call[c].lba + 1 \in 0 .. call[c].lba + call[c].cnt - 1
      BY <1>4, <3>1
    <3>3. call[c].lba + 1 \in LBAs
      BY <2>2, <3>2, VirtioBlkAssumption, Zenon
    <3>4. call[c].cnt - 1 \in 1 .. MaxCnt
      BY <1>4, <2>2, <3>1
    <3>5. (call[c].lba + 1) + (call[c].cnt - 1) - 1 = call[c].lba + call[c].cnt - 1
      BY <3>1
    <3> QED
      BY <3>3, <3>4, <3>5, Zenon
  <2> DEFINE r == [type |-> call[c].type, lba |-> call[c].lba + 1,
                   cnt |-> call[c].cnt - 1, val |-> call[c].val]
  <2>4. call' = [call EXCEPT ![c] = r]
    <3>1. call \in [Cores -> Requests] /\ c \in Cores
      BY Zenon DEF DiskInv, Types
    <3> DEFINE r1 == [call[c] EXCEPT !.lba = call[c].lba + 1]
    <3>2. r1 = [type |-> call[c].type, lba |-> call[c].lba + 1,
                cnt |-> call[c].cnt, val |-> call[c].val]
      BY <1>1 DEF Requests
    <3> HIDE DEF r1
    <3>3. [r1 EXCEPT !.cnt = call[c].cnt - 1] = r
      BY <3>2
    <3>4. call' = [call EXCEPT ![c] = [r1 EXCEPT !.cnt = call[c].cnt - 1]]
      BY <2>1, <3>1, Zenon DEF r1
    <3> QED
      BY <3>3, <3>4, Zenon
  <2>5. /\ r \in Requests /\ r.type = call[c].type /\ r.lba = call[c].lba + 1
        /\ r.cnt = call[c].cnt - 1
    BY <2>2, <2>3, Constants DEF Requests
  <2> HIDE DEF r
  <2>6. call'[c] = r /\ call' \in [Cores -> Requests]
    BY <2>4, <2>5, Zenon DEF DiskInv, Types
  <2>7. Types'
    BY <1>1, <2>1, <2>6, Zenon DEF DiskInv, Types
  <2>8. CallInv(c)'
    BY <1>1, <2>1, <2>2, <2>3, <2>5, <2>6 DEF DiskInv, CallInv
  <2>9. ListInv(c)'
    BY <1>1, <2>1, Zenon DEF DiskInv, ListInv
  <2>10. LagInv(c)'
    BY <1>1, <1>3, <2>1, Zenon DEF DiskInv, LagInv
  <2>11. FirstInv(c)'
    BY <1>1, <1>2, <2>1, Zenon DEF DiskInv, FirstInv
  <2> QED
    BY <2>7, <2>8, <2>9, <2>10, <2>11, Zenon DEF DiskInv
<1>5. CASE ~(ret[c] = "OK" /\ call[c].cnt > 1)
  <2>1. /\ call' = [call EXCEPT ![c] = NoCall]
        /\ chain' = [chain EXCEPT ![c] = <<0, 0, 0>>]
        /\ res' = [res EXCEPT ![c] = FALSE]
        /\ ret' = [ret EXCEPT ![c] = "OK"]
        /\ got' = [got EXCEPT ![c] = Some]
        /\ pc' = [pc EXCEPT ![c] = "idle"] /\ pc'[c] = "idle"
    BY <1>5, Zenon DEF NextSector, Return, Goto, DiskInv, Types
  <2>2. <<0, 0, 0>> \in Slots \X Slots \X Slots
    BY UnusedIsDesc, Zenon
  <2>3. Types'
    BY <1>1, <2>1, <2>2, Constants, Zenon DEF DiskInv, Types
  <2>4. CallInv(c)'
    BY <1>1, <2>1, Zenon DEF DiskInv, CallInv
  <2>5. ListInv(c)'
    BY <1>1, <2>1, Zenon DEF DiskInv, ListInv
  <2>6. LagInv(c)'
    BY <1>1, <1>3, <2>1, Zenon DEF DiskInv, LagInv
  <2>7. FirstInv(c)'
    BY <1>1, <1>2, <2>1, Zenon DEF DiskInv, FirstInv
  <2> QED
    BY <2>3, <2>4, <2>5, <2>6, <2>7, Zenon DEF DiskInv
<1> QED
  BY <1>4, <1>5, Zenon

\* The device takes a request; until one times out it is whole and the call's.
LEMMA DevTakesStep ==
    ASSUME NEW c, Cores = {c}, DiskInv(c), DevTakes
    PROVE  DiskInv(c)'
<1> DEFINE h == vq.avail[seen % SIZE]
<1>1. /\ job = NoJob /\ seen # vq.avail_idx
      /\ UNCHANGED <<vq, page, call, pc, chain, res, ret, got, disk, timeouts>>
      /\ page \in Pages /\ timeouts \in 0 .. MaxTimeouts
  BY Zenon DEF DevTakes, DiskInv, Types
<1>2. /\ vq.avail_idx \in 0 .. IDX - 1
      /\ vq.last_used_idx \in 0 .. IDX - 1 /\ seen \in 0 .. IDX - 1
      /\ Made \in 0 .. IDX - 1 /\ Seen \in 0 .. IDX - 1 /\ Used \in 0 .. IDX - 1
      /\ Seen = 0 <=> seen = vq.last_used_idx
      /\ Used = 0 <=> vq.used_idx = vq.last_used_idx
      /\ Seen = Made <=> seen = vq.avail_idx
  BY Distances, Zenon DEF DiskInv
<1>3. Made' = Made /\ Used' = Used
  BY <1>1, Zenon DEF Made, Used
<1>4. CallInv(c)'
  BY <1>1, Zenon DEF DiskInv, CallInv
<1>5. ListInv(c)'
  BY <1>1, Zenon DEF DiskInv, ListInv
<1>6. CASE IsRequest(h) /\ (vq.avail_idx - seen) % IDX <= SIZE
  <2>1. /\ job' = [type |-> page.type, lba |-> page.lba]
        /\ seen' = (seen + 1) % IDX /\ broken' = broken
    BY <1>6, Zenon DEF DevTakes
  <2>2. seen' = Up(seen) /\ seen' \in 0 .. IDX - 1
    BY <1>2, <2>1, RingArithmetic
  <2>3. job' \in [type : {"none", "in", "out"}, lba : LBAs]
    BY <1>1, <2>1, Zenon DEF Pages
  <2>4. job' # NoJob
    <3>1. page.type # "none"
      BY <1>1, Quiet, Zenon DEF DiskInv, CallInv
    <3>2. job'.type # NoJob.type
      BY <2>1, <3>1, Zenon DEF NoJob
    <3> QED
      BY <3>2, Zenon
  <2>5. Types'
    BY <1>1, <2>1, <2>2, <2>3, Zenon DEF DiskInv, Types
  <2>6. LagInv(c)'
    <3>1. Seen' = IF Seen = IDX - 1 THEN 0 ELSE Seen + 1
      BY <1>1, <1>2, <2>2, AheadMoves DEF Seen
    <3>2. timeouts < MaxTimeouts =>
              /\ Made = timeouts + (IF pc[c] = "poll" THEN 1 ELSE 0)
              /\ Seen <= Made /\ Seen = Used + 0
      BY <1>1, Zenon DEF DiskInv, LagInv
    <3>3. Seen # Made
      BY <1>1, <1>2, Zenon
    <3>4. timeouts < MaxTimeouts => Seen' <= Made' /\ Seen' = Used' + 1
      BY <1>2, <1>3, <3>1, <3>2, <3>3, Constants
    <3> QED
      BY <1>1, <1>3, <2>4, <3>2, <3>4, Zenon DEF LagInv
  <2>7. FirstInv(c)'
    <3> SUFFICES ASSUME timeouts = 0 PROVE FirstInv(c)'
      BY <1>1, Zenon DEF FirstInv
    <3>1. pc[c] = "poll"
      BY <1>1, Quiet, Zenon
    <3>2. Made = 1 /\ Seen = 0 /\ Used = 0
      <4>1. 0 < MaxTimeouts /\ 0 + 1 = 1
        BY Constants
      <4>2. Made = 0 + 1 /\ Seen <= Made /\ Seen = Used + 0
        BY <1>1, <3>1, <4>1, Zenon DEF DiskInv, LagInv
      <4>3. Seen # Made
        BY <1>1, <1>2, Zenon
      <4> QED
        BY <1>2, <4>1, <4>2, <4>3
    <3>3. seen' = vq.avail_idx
      <4>1. Seen' = 1 /\ Made' = 1
        BY <1>1, <1>2, <1>3, <2>2, <3>2, AheadMoves, Constants DEF Seen
      <4> QED
        BY <1>1, <1>2, <2>2, <4>1, AheadMoves DEF Seen, Made
    <3>4. job' = [type |-> call[c].type, lba |-> call[c].lba]
      BY <2>1, <3>1, Zenon DEF DiskInv, FirstInv
    <3> QED
      BY <1>1, <2>1, <3>1, <3>3, <3>4, Zenon DEF DiskInv, FirstInv, Done
  <2> QED
    BY <1>4, <1>5, <2>5, <2>6, <2>7, Zenon DEF DiskInv
<1>7. CASE ~(IsRequest(h) /\ (vq.avail_idx - seen) % IDX <= SIZE)
  <2>1. broken' = TRUE /\ job' = job /\ seen' = seen
    BY <1>7, Zenon DEF DevTakes
  <2>2. Types'
    BY <1>1, <2>1, Zenon DEF DiskInv, Types
  <2>3. LagInv(c)'
    BY <1>1, <2>1, Zenon DEF DiskInv, LagInv, Made, Seen, Used
  <2>4. timeouts # 0
    <3> SUFFICES ASSUME timeouts = 0 PROVE FALSE
      BY Zenon
    <3>1. pc[c] = "poll"
      BY <1>1, Quiet, Zenon
    <3>2. Made = 1 /\ Seen = 0
      <4>1. 0 < MaxTimeouts /\ 0 + 1 = 1
        BY Constants
      <4>2. Made = 0 + 1 /\ Seen <= Made /\ Seen = Used + 0
        BY <1>1, <3>1, <4>1, Zenon DEF DiskInv, LagInv
      <4>3. Seen # Made
        BY <1>1, <1>2, Zenon
      <4> QED
        BY <1>2, <4>1, <4>2, <4>3
    <3>3. (vq.avail_idx - seen) % IDX = 1
      <4>1. seen = vq.last_used_idx
        BY <1>2, <3>2, Zenon
      <4>2. (vq.avail_idx - vq.last_used_idx) % IDX = Made
        BY <1>2, RingArithmetic, ZenonT(40) DEF Made
      <4> QED
        BY <3>2, <4>1, <4>2, Zenon
    <3>4. h = chain[c][1] /\ page.type = call[c].type
      BY <1>1, <3>1, Zenon DEF DiskInv, FirstInv
    <3>5. IsChain(vq, chain[c][1], chain[c][2], chain[c][3], call[c].type)
      BY <3>1, Zenon DEF DiskInv, ListInv
    <3>6. IsRequest(h)
      <4>1. /\ vq.desc[h].piece = "hdr" /\ vq.desc[h].more
            /\ vq.desc[h].next = chain[c][2]
        BY <3>4, <3>5 DEF IsChain
      <4>2. /\ vq.desc[chain[c][2]].piece = page.type /\ vq.desc[chain[c][2]].more
            /\ vq.desc[chain[c][2]].next = chain[c][3]
        BY <3>4, <3>5 DEF IsChain
      <4>3. vq.desc[chain[c][3]].piece = "status"
        BY <3>5 DEF IsChain
      <4> QED
        BY <4>1, <4>2, <4>3, Zenon DEF IsRequest
    <3> QED
      BY <1>7, <3>3, <3>6, Constants
  <2>5. FirstInv(c)'
    BY <1>1, <2>4, Zenon DEF FirstInv
  <2> QED
    BY <1>4, <1>5, <2>2, <2>3, <2>5, Zenon DEF DiskInv
<1> QED
  BY <1>6, <1>7, Zenon

\* The device gives a request back; only the entry count of the queue changes.
LEMMA PutUsedKeeps ==
    ASSUME NEW c, DiskInv(c), job # NoJob, vq' = PutUsed(vq), job' = NoJob,
           UNCHANGED <<call, pc, chain, seen, timeouts>>
    PROVE  /\ vq' \in Queues
           /\ vq'.avail = vq.avail /\ vq'.avail_idx = vq.avail_idx
           /\ ListInv(c)'
           /\ LagInv(c)'
<1>1. /\ vq.avail_idx \in 0 .. IDX - 1 /\ vq.used_idx \in 0 .. IDX - 1
      /\ vq.last_used_idx \in 0 .. IDX - 1 /\ seen \in 0 .. IDX - 1
      /\ Made \in 0 .. IDX - 1 /\ Seen \in 0 .. IDX - 1 /\ Used \in 0 .. IDX - 1
      /\ vq \in Queues /\ timeouts \in 0 .. MaxTimeouts
  BY Distances, Zenon DEF DiskInv, Types
<1>2. /\ vq'.used_idx = (vq.used_idx + 1) % IDX
      /\ vq'.desc = vq.desc /\ vq'.free_head = vq.free_head
      /\ vq'.free_count = vq.free_count /\ vq'.avail = vq.avail
      /\ vq'.last_used_idx = vq.last_used_idx /\ vq'.avail_idx = vq.avail_idx
  BY <1>1, Zenon DEF PutUsed, Queues
<1>3. vq'.used_idx = Up(vq.used_idx) /\ vq'.used_idx \in 0 .. IDX - 1
  <2>1. (vq.used_idx + 1) % IDX = Up(vq.used_idx) /\ Up(vq.used_idx) \in 0 .. IDX - 1
    BY <1>1, RingArithmetic, Zenon
  <2> QED
    BY <1>2, <2>1, Zenon
<1>4. vq' \in Queues
  BY <1>1, <1>2, <1>3, Zenon DEF PutUsed, Queues
<1>5. ListInv(c)'
  <2>1. CASE pc[c] \in {"submit", "poll", "free"}
    <3>1. /\ IsChain(vq, chain[c][1], chain[c][2], chain[c][3], call[c].type)
          /\ FreeOutside(vq, {chain[c][1], chain[c][2], chain[c][3]})
      BY <2>1, Zenon DEF DiskInv, ListInv
    <3>2. IsChain(vq', chain[c][1], chain[c][2], chain[c][3], call[c].type)
      BY <1>2, <3>1, Zenon DEF IsChain
    <3>3. FreeOutside(vq', {chain[c][1], chain[c][2], chain[c][3]})
      BY <1>2, <3>1, SameList, Zenon
    <3> QED
      BY <2>1, <3>2, <3>3, Zenon DEF ListInv
  <2>2. CASE pc[c] \notin {"submit", "poll", "free"}
    <3>1. FreeOutside(vq, {})
      BY <2>2, Zenon DEF DiskInv, ListInv
    <3>2. FreeOutside(vq', {})
      BY <1>2, <3>1, SameList, Zenon
    <3> QED
      BY <2>2, <3>2, Zenon DEF ListInv
  <2> QED
    BY <2>1, <2>2, Zenon
<1>6. LagInv(c)'
  <2>1. Made' = Made /\ Seen' = Seen
    BY <1>2, Zenon DEF Made, Seen
  <2>2. Used' = IF Used = IDX - 1 THEN 0 ELSE Used + 1
    BY <1>1, <1>2, <1>3, AheadMoves DEF Used
  <2> QED
    BY <1>1, <2>1, <2>2, Constants DEF DiskInv, LagInv
<1> QED
  BY <1>2, <1>4, <1>5, <1>6, Zenon

\* The device serves a request: until one times out, it is the call's.
LEMMA DevDoneStep ==
    ASSUME NEW c, Cores = {c}, DiskInv(c), DevDone
    PROVE  DiskInv(c)'
<1>1. /\ job # NoJob /\ job' = NoJob /\ vq' = PutUsed(vq)
      /\ disk' = IF job.type = "out" THEN [disk EXCEPT ![job.lba] = page.buf] ELSE disk
      /\ UNCHANGED <<call, pc, chain, res, ret, got, seen, broken, timeouts>>
      /\ page \in Pages /\ disk \in [LBAs -> Data] /\ call[c] \in Requests
      /\ job.lba \in LBAs /\ page.buf \in Data
  BY Zenon DEF DevDone, DiskInv, Types, Pages
<1>2. /\ vq' \in Queues
      /\ vq'.avail = vq.avail /\ vq'.avail_idx = vq.avail_idx
      /\ ListInv(c)' /\ LagInv(c)'
  BY <1>1, PutUsedKeeps, Zenon
<1>3. /\ page'.buf = IF job.type = "in" THEN disk[job.lba] ELSE page.buf
      /\ page'.status = "ok" /\ page'.type = page.type /\ page'.lba = page.lba
  BY <1>1, Zenon DEF DevDone, Pages
<1>4. (IF job.type = "in" THEN disk[job.lba] ELSE page.buf) \in Data
  BY <1>1, Zenon
<1>5. page' \in Pages
  BY <1>1, <1>3, <1>4, Zenon DEF DevDone, Pages
<1>6. disk' \in [LBAs -> Data]
  BY <1>1, Zenon
<1>7. Types'
  BY <1>1, <1>2, <1>5, <1>6, Constants, Zenon DEF DiskInv, Types
<1>8. CallInv(c)'
  BY <1>1, <1>3, Zenon DEF DiskInv, CallInv
<1>9. FirstInv(c)'
  <2> SUFFICES ASSUME timeouts = 0 PROVE FirstInv(c)'
    BY <1>1, Zenon DEF FirstInv
  <2>1. pc[c] = "poll"
    BY <1>1, Quiet, Zenon
  <2>2. /\ job = [type |-> call[c].type, lba |-> call[c].lba]
        /\ call[c].type \in {"in", "out"}
        /\ page.type = call[c].type /\ page.lba = call[c].lba
        /\ call[c].type = "out" => page.buf = call[c].val
    BY <1>1, <2>1, Zenon DEF DiskInv, FirstInv, CallInv
  <2>3. job.type = call[c].type /\ job.lba = call[c].lba
    BY <2>2, Zenon
  <2>4. CASE call[c].type = "in"
    <3>1. disk' = disk /\ page'.buf = disk[call[c].lba]
      BY <1>1, <1>3, <2>3, <2>4, Zenon
    <3> QED
      BY <1>1, <1>2, <1>3, <2>1, <2>2, <2>4, <3>1, Zenon DEF DiskInv, FirstInv, Done
  <2>5. CASE call[c].type = "out"
    <3>1. disk'[call[c].lba] = call[c].val /\ page'.buf = page.buf
      BY <1>1, <1>3, <2>2, <2>3, <2>5, Zenon
    <3> QED
      BY <1>1, <1>2, <1>3, <2>1, <2>2, <2>5, <3>1, Zenon DEF DiskInv, FirstInv, Done
  <2> QED
    BY <2>2, <2>4, <2>5, Zenon
<1> QED
  BY <1>2, <1>7, <1>8, <1>9, Zenon DEF DiskInv

\* The device fails a request and says so.
LEMMA DevFailsStep ==
    ASSUME NEW c, Cores = {c}, DiskInv(c), DevFails
    PROVE  DiskInv(c)'
<1>1. /\ job # NoJob /\ job' = NoJob /\ vq' = PutUsed(vq)
      /\ page' = [page EXCEPT !.status = "ioerr"]
      /\ UNCHANGED <<call, pc, chain, res, ret, got, disk, seen, broken, timeouts>>
      /\ page \in Pages
  BY Zenon DEF DevFails, DiskInv, Types
<1>2. /\ vq' \in Queues
      /\ vq'.avail = vq.avail /\ vq'.avail_idx = vq.avail_idx
      /\ ListInv(c)' /\ LagInv(c)'
  BY <1>1, PutUsedKeeps, Zenon
<1>3. /\ page'.buf = page.buf /\ page'.status = "ioerr"
      /\ page'.type = page.type /\ page'.lba = page.lba /\ page' \in Pages
  BY <1>1, Zenon DEF Pages
<1>4. Types'
  BY <1>1, <1>2, <1>3, Constants, Zenon DEF DiskInv, Types
<1>5. CallInv(c)'
  BY <1>1, <1>3, Zenon DEF DiskInv, CallInv
<1>6. FirstInv(c)'
  <2> SUFFICES ASSUME timeouts = 0 PROVE FirstInv(c)'
    BY <1>1, Zenon DEF FirstInv
  <2>1. pc[c] = "poll"
    BY <1>1, Quiet, Zenon
  <2> QED
    BY <1>1, <1>2, <1>3, <2>1, Zenon DEF DiskInv, FirstInv
<1> QED
  BY <1>2, <1>4, <1>5, <1>6, Zenon DEF DiskInv

-----------------------------------------------------------------------------

\* Every step keeps the invariant.
LEMMA NextDiskInv ==
    ASSUME NEW c, Cores = {c}, DiskInv(c), [Next]_vars
    PROVE  DiskInv(c)'
<1>1. CASE Calls(c)
  BY <1>1, CallStep, Zenon
<1>2. CASE FillPage(c)
  BY <1>2, FillStep, Zenon
<1>3. CASE AllocChain(c)
  BY <1>3, AllocStep, Zenon
<1>4. CASE Submit(c)
  BY <1>4, SubmitStep, Zenon
<1>5. CASE PollTakes(c)
  BY <1>5, PollTakesStep, Zenon
<1>6. CASE PollTimesOut(c)
  BY <1>6, PollTimesOutStep, Zenon
<1>7. CASE FreeChain(c)
  BY <1>7, FreeChainStep, Zenon
<1>8. CASE Status(c)
  BY <1>8, StatusStep, Zenon
<1>9. CASE NextSector(c)
  BY <1>9, NextSectorStep, Zenon
<1>10. CASE DevTakes
  BY <1>10, DevTakesStep, Zenon
<1>11. CASE DevDone
  BY <1>11, DevDoneStep, Zenon
<1>12. CASE DevFails
  BY <1>12, DevFailsStep, Zenon
<1>13. CASE UNCHANGED vars
  <2>1. UNCHANGED <<vq, page, call, pc, chain, res, ret, got, disk, seen, job, broken,
                    timeouts>>
    BY <1>13, Zenon DEF vars, devvars
  <2>2. Types'
    BY <2>1, Zenon DEF DiskInv, Types
  <2>3. CallInv(c)' /\ ListInv(c)'
    BY <2>1, Zenon DEF DiskInv, CallInv, ListInv
  <2>4. LagInv(c)'
    BY <2>1, Zenon DEF DiskInv, LagInv, Made, Seen, Used
  <2>5. FirstInv(c)'
    BY <2>1, Zenon DEF DiskInv, FirstInv, Done
  <2> QED
    BY <2>2, <2>3, <2>4, <2>5, Zenon DEF DiskInv
<1> QED
  BY <1>1, <1>2, <1>3, <1>4, <1>5, <1>6, <1>7, <1>8, <1>9, <1>10, <1>11, <1>12, <1>13, Zenon
  DEF Next, Driver

\* On one core descriptors are conserved and the driver is behind by what it
\* gave up on, for every queue size, index width, disk and number of timeouts
\* that the indices can tell apart (virtqueue_free_chain, virtqueue_poll_used).
THEOREM QueueIsExact ==
    ASSUME NEW c, Cores = {c}
    PROVE  Spec => []QueueExact
<1>1. Init => DiskInv(c)
  BY InitDiskInv, Zenon
<1>2. DiskInv(c) /\ [Next]_vars => DiskInv(c)'
  BY NextDiskInv, Zenon
<1>3. DiskInv(c) => QueueExact
  <2> SUFFICES ASSUME DiskInv(c) PROVE QueueExact
    BY Zenon
  <2>1. TypeOK
    BY DEF DiskInv, Types, TypeOK, Queues, Descs, Pages, Requests
  <2>2. FreeListExact
    <3> DEFINE S == IF pc[c] \in {"submit", "poll", "free"}
                    THEN {chain[c][1], chain[c][2], chain[c][3]} ELSE {}
    <3>1. Taken = S
      BY DEF Taken
    <3>2. vq \in Queues /\ FreeOutside(vq, S)
      BY Zenon DEF DiskInv, Types, ListInv
    <3> HIDE DEF S
    <3> QED
      BY <3>1, <3>2, FreeListWalks, Zenon DEF FreeListExact
  <2>3. LagIsTimeouts
    <3> SUFFICES ASSUME pc[c] = "idle", timeouts < MaxTimeouts
                 PROVE  /\ Behind = timeouts % IDX
                        /\ (vq.used_idx - vq.last_used_idx) % IDX <= Behind
      BY Zenon DEF LagIsTimeouts
    <3>1. /\ vq.avail_idx \in 0 .. IDX - 1 /\ vq.used_idx \in 0 .. IDX - 1
          /\ vq.last_used_idx \in 0 .. IDX - 1
          /\ Made \in 0 .. IDX - 1 /\ Seen \in 0 .. IDX - 1 /\ Used \in 0 .. IDX - 1
          /\ timeouts \in 0 .. MaxTimeouts
      BY Distances, Zenon DEF DiskInv, Types
    <3>2. Behind = Made /\ (vq.used_idx - vq.last_used_idx) % IDX = Used
      BY <3>1, RingArithmetic, Zenon DEF Behind, Made, Used
    <3>3. Made = timeouts /\ Seen <= Made /\ Used <= Seen
      BY <3>1, Constants DEF DiskInv, LagInv
    <3>4. timeouts % IDX = timeouts
      BY <3>1, Constants
    <3> QED
      BY <3>1, <3>2, <3>3, <3>4, Constants
  <2> QED
    BY <2>1, <2>2, <2>3, Zenon DEF QueueExact
<1> QED
  BY <1>1, <1>2, <1>3, PTL DEF Spec

\* On one core, as long as no request times out, a transfer that succeeds did
\* what it was asked to and the device understands every request
\* (virtio_blk_transfer).
THEOREM RequestsAreServed ==
    ASSUME NEW c, Cores = {c}
    PROVE  Spec => []ServedRight
<1>1. Init => DiskInv(c)
  BY InitDiskInv, Zenon
<1>2. DiskInv(c) /\ [Next]_vars => DiskInv(c)'
  BY NextDiskInv, Zenon
<1>3. DiskInv(c) => ServedRight
  <2> SUFFICES ASSUME DiskInv(c) PROVE TransfersRight /\ ChainsAreRequests
    BY Zenon DEF ServedRight
  <2>1. TransfersRight
    BY Zenon DEF DiskInv, FirstInv, Done, TransfersRight
  <2>2. ChainsAreRequests
    <3>1. timeouts \in Nat
      BY Constants DEF DiskInv, Types
    <3>2. timeouts = 0 => ~broken
      BY Zenon DEF DiskInv, FirstInv
    <3> QED
      BY <3>1, <3>2 DEF ChainsAreRequests
  <2> QED
    BY <2>1, <2>2, Zenon
<1> QED
  BY <1>1, <1>2, <1>3, PTL DEF Spec

\* On one core, as long as no request times out, a sector changes only to what
\* the call under way writes into it.  With two cores TLC refutes it.
THEOREM SectorsChangeAsAsked ==
    ASSUME NEW core, Cores = {core}
    PROVE  Spec => OnlyAskedFor
<1>1. Init => DiskInv(core)
  BY InitDiskInv, Zenon
<1>2. DiskInv(core) /\ [Next]_vars => DiskInv(core)'
  BY NextDiskInv, Zenon
<1>3. DiskInv(core) /\ [Next]_vars => [ChangeAsked]_vars
  <2> SUFFICES ASSUME DiskInv(core), Next, NEW l \in LBAs, disk'[l] # disk[l], timeouts = 0
               PROVE  call[core].type = "out" /\ call[core].lba = l /\ disk'[l] = call[core].val
    BY Zenon DEF ChangeAsked
  <2>1. DevDone
    BY DEF Next, Calls, block_rw, Driver, FillPage, AllocChain, Submit, PollTakes,
           PollTimesOut, FreeChain, Status, NextSector, DevTakes, DevFails, devvars
  <2>2. /\ job # NoJob /\ disk \in [LBAs -> Data]
        /\ disk' = IF job.type = "out" THEN [disk EXCEPT ![job.lba] = page.buf] ELSE disk
    BY <2>1, Zenon DEF DevDone, DiskInv, Types
  <2>3. job.type = "out" /\ job.lba = l /\ disk'[l] = page.buf
    BY <2>2, Zenon
  <2>4. pc[core] = "poll"
    BY <2>2, Quiet, Zenon
  <2>5. job.type = call[core].type /\ job.lba = call[core].lba
    <3>1. job = [type |-> call[core].type, lba |-> call[core].lba]
      BY <2>2, Zenon DEF DiskInv, FirstInv
    <3> QED
      BY <3>1, Zenon
  <2>6. call[core].type = "out" => page.buf = call[core].val
    BY <2>4, Zenon DEF DiskInv, FirstInv
  <2> QED
    BY <2>3, <2>5, <2>6, Zenon
<1> QED
  BY <1>1, <1>2, <1>3, PTL DEF Spec, OnlyAskedFor
=============================================================================
