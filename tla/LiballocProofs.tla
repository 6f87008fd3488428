---------------------------- MODULE LiballocProofs ----------------------------
(***************************************************************************)
(* The kernel's malloc keeps its heap whole, for every size of heap, page  *)
(* and tag and every number of lists.                                      *)
(***************************************************************************)
EXTENDS Liballoc, TLAPS

-----------------------------------------------------------------------------

\* What the lemmas need of numbers and finite sets.  LawsHold proves it from
\* the library, which comes in last: the lemmas do without it.
Laws ==
    /\ \A T \in SUBSET Nat : T # {} => \E x \in T : \A y \in T : x <= y
    /\ IsFiniteSet({}) /\ Cardinality({}) = 0
    /\ \A S : IsFiniteSet(S) =>
          /\ \A T \in SUBSET S : IsFiniteSet(T)
          /\ \A x : /\ IsFiniteSet(S \cup {x}) /\ IsFiniteSet(S \ {x})
                    /\ x \notin S => Cardinality(S \cup {x}) = Cardinality(S) + 1
                    /\ Cardinality(S \ {x}) =
                          IF x \in S THEN Cardinality(S) - 1 ELSE Cardinality(S)

-----------------------------------------------------------------------------
(* The inductive invariant.  Tags and ranges first: these predicates have  *)
(* the tags and the ranges as parameters.                                  *)

First(r) == r.base * PAGE
Last(r) == (r.base + r.n) * PAGE
End(ts, t) == t + ts[t].real

TagSet == [real : Nat, size : Nat, index : Exps \cup {-1}, left : Nat, right : Nat]

RangeSet == [base : HEAP_START .. HEAP_END - 1, n : Nat \ {0}]

\* The ranges lie apart, and none is smaller than malloc asks for.
Ranges(h) ==
    /\ h \subseteq RangeSet
    /\ \A r \in h : l_pageCount <= r.n
    /\ \A r, q \in h : r # q => r.base + r.n <= q.base \/ q.base + q.n <= r.base

Typed(ts) ==
    /\ ts \in [DOMAIN ts -> TagSet]
    /\ IsFiniteSet(DOMAIN ts)
    /\ DOMAIN ts \subseteq Nat \ {0}
    /\ \A t \in DOMAIN ts : TAG <= ts[t].real

Apart(ts) ==
    \A t, u \in DOMAIN ts : t # u => End(ts, t) <= u \/ End(ts, u) <= t

\* Every tag lies in one range.
Inside(ts, h) ==
    \A t \in DOMAIN ts : \E r \in h : First(r) <= t /\ End(ts, t) <= Last(r)

LeftRight(ts, h) ==
    \A t \in DOMAIN ts :
        /\ IF ts[t].left = NULL
           THEN \E r \in h : t = First(r)
           ELSE ts[t].left \in DOMAIN ts /\ ts[ts[t].left].right = t
        /\ IF ts[t].right = NULL
           THEN \E r \in h : End(ts, t) = Last(r)
           ELSE /\ ts[t].right = End(ts, t)
                /\ ts[t].right \in DOMAIN ts
                /\ ts[ts[t].right].left = t

Ground(ts, h) ==
    /\ Ranges(h)
    /\ Typed(ts)
    /\ Apart(ts)
    /\ Inside(ts, h)
    /\ LeftRight(ts, h)
    /\ \A r \in h : First(r) \in DOMAIN ts /\ ts[First(r)].left = NULL

-----------------------------------------------------------------------------

(* Lists and owners.                                                       *)

\* The tags that are in a list.
Free(ts) == {t \in DOMAIN ts : ts[t].index # -1}

NoTwice(s) == \A i, j \in DOMAIN s : s[i] = s[j] => i = j

\* The lists: none has a tag twice.
Good(lists, S) ==
    lists \in [Exps -> Seq(S)] /\ \A b \in Exps : NoTwice(lists[b])

\* The index of a tag is its list, the one of its size, or -1.
Filed(ts, lists) ==
    /\ Good(lists, DOMAIN ts)
    /\ \A b \in Exps : \A t \in DOMAIN ts : t \in Range(lists[b]) <=> ts[t].index = b
    /\ \A t \in Free(ts) : ts[t].index = Bucket(ts[t].real)

WholeIn(ts, t) == ts[t].left = NULL /\ ts[t].right = NULL

Wholes(ts, list) == {t \in Range(list) : WholeIn(ts, t)}

Counted(ts, lists, counts) ==
    /\ counts \in [Exps -> Int]
    /\ \A b \in Exps : /\ counts[b] = Cardinality(Wholes(ts, lists[b]))
                       /\ counts[b] <= MAXCOMPLETE

\* No two neighbours are free.
Melted(ts) == \A t \in Free(ts) : ts[t].right \notin Free(ts)

Heap(ts, h, lists, counts) ==
    Ground(ts, h) /\ Filed(ts, lists) /\ Counted(ts, lists, counts) /\ Melted(ts)

\* The tag that free works on.
InHand == IF pc \in {"left", "right", "put"} THEN {tag} ELSE {}

\* A tag in no list is a caller's or in the hands of free.
Owned ==
    /\ pc \in {"idle", "left", "right", "put", "copied", "stopped"}
    /\ fault \in BOOLEAN
    /\ live \cup InHand = DOMAIN tags \ Free(tags)
    /\ live \cap InHand = {}
    /\ pc = "copied" => tag \in live
    /\ pc \in {"idle", "stopped"} => tag = NULL
    /\ \A t \in live : TAG + tags[t].size <= tags[t].real

\* free leaves no free neighbour behind.
NeighboursDone ==
    /\ pc \in {"right", "put"} => tags[tag].left \notin Free(tags)
    /\ pc = "put" => tags[tag].right \notin Free(tags)

HeapInv ==
    Heap(tags, held, l_freePages, l_completePages) /\ Owned /\ NeighboursDone

-----------------------------------------------------------------------------
(* Numbers: the constants, ranges and exponents.                           *)

LEMMA Consts ==
    /\ HEAP_START \in Nat \ {0} /\ HEAP_END \in Nat /\ HEAP_START < HEAP_END
    /\ PAGE \in Nat \ {0} /\ TAG \in Nat \ {0} /\ TAG < PAGE
    /\ l_pageCount \in Nat \ {0}
    /\ MINEXP \in Nat /\ MAXEXP \in Nat /\ MINEXP < MAXEXP
    /\ MAXCOMPLETE \in Nat
    /\ Sizes \subseteq Nat
    /\ MINEXP \in Exps /\ Exps \subseteq Nat
BY LiballocAssumption DEF Exps

LEMMA TimesOrder ==
    ASSUME NEW a \in Nat, NEW b \in Nat, NEW p \in Nat \ {0}
    PROVE  /\ a * p \in Nat
           /\ a <= b <=> a * p <= b * p
           /\ a < b <=> a * p < b * p
           /\ a = b <=> a * p = b * p
           /\ (a + b) * p = a * p + b * p
           /\ a > 0 => p <= a * p
<1>1. a * p \in Nat /\ (a + b) * p = a * p + b * p
  OBVIOUS
<1>2. a < b => a * p < b * p
  OBVIOUS
<1>3. b < a => b * p < a * p
  OBVIOUS
<1>4. a > 0 => p <= a * p
  OBVIOUS
<1> QED
  BY <1>1, <1>2, <1>3, <1>4

LEMMA RangeFacts ==
    ASSUME NEW r \in RangeSet
    PROVE  /\ r.base \in Nat \ {0} /\ r.n \in Nat \ {0}
           /\ First(r) \in Nat \ {0} /\ Last(r) \in Nat /\ First(r) < Last(r)
           /\ Last(r) = First(r) + r.n * PAGE
<1>1. r.base \in Nat \ {0} /\ r.n \in Nat \ {0} /\ r.base + r.n \in Nat /\ r.base < r.base + r.n
  BY Consts DEF RangeSet
<1> QED
  BY <1>1, Consts, TimesOrder DEF First, Last

\* Ranges that lie apart in pages lie apart in bytes.
LEMMA RangesApart ==
    ASSUME NEW h, Ranges(h), NEW r \in h, NEW q \in h, r # q
    PROVE  Last(r) <= First(q) \/ Last(q) <= First(r)
<1>1. r \in RangeSet /\ q \in RangeSet
  BY DEF Ranges
<1>2. /\ r.base \in Nat /\ q.base \in Nat /\ r.base + r.n \in Nat /\ q.base + q.n \in Nat
  BY <1>1, RangeFacts
<1>3. r.base + r.n <= q.base \/ q.base + q.n <= r.base
  BY DEF Ranges
<1> QED
  BY <1>2, <1>3, Consts, TimesOrder DEF First, Last

\* Only one range has a given byte.
LEMMA OneRange ==
    ASSUME NEW h, Ranges(h), NEW r \in h, NEW q \in h, NEW x \in Nat,
           First(r) <= x, x < Last(r), First(q) <= x, x < Last(q)
    PROVE  r = q
<1>1. r \in RangeSet /\ q \in RangeSet
  BY DEF Ranges
<1>2. First(r) \in Nat /\ First(q) \in Nat /\ Last(r) \in Nat /\ Last(q) \in Nat
  BY <1>1, RangeFacts
<1> QED
  BY <1>2, RangesApart

\* A set of numbers that is not empty has a least one.
LEMMA LeastNat ==
    ASSUME Laws, NEW T \in SUBSET Nat, T # {}
    PROVE  \E x \in T : \A y \in T : x <= y
  BY Zenon DEF Laws

\* What the proofs use of finite sets.
LEMMA NoneCounted ==
    ASSUME Laws
    PROVE  IsFiniteSet({}) /\ Cardinality({}) = 0
  BY Zenon DEF Laws

LEMMA AddOne ==
    ASSUME Laws, NEW S, NEW x, IsFiniteSet(S)
    PROVE  /\ IsFiniteSet(S \cup {x})
           /\ x \notin S => Cardinality(S \cup {x}) = Cardinality(S) + 1
  BY Zenon DEF Laws

LEMMA TakeOne ==
    ASSUME Laws, NEW S, NEW x, IsFiniteSet(S)
    PROVE  /\ IsFiniteSet(S \ {x})
           /\ Cardinality(S \ {x}) =
                 IF x \in S THEN Cardinality(S) - 1 ELSE Cardinality(S)
  BY Zenon DEF Laws

LEMMA FiniteWithin ==
    ASSUME Laws, NEW S, IsFiniteSet(S), NEW T \in SUBSET S
    PROVE  IsFiniteSet(T)
  BY Zenon DEF Laws

\* The powers of two are defined, and they are numbers.
LEMMA BitFacts ==
    ASSUME Laws
    PROVE  /\ Bit = [n \in 0 .. MAXEXP |-> IF n = 0 THEN 1 ELSE 2 * Bit[n - 1]]
           /\ \A n \in 0 .. MAXEXP : Bit[n] \in Nat
<1> DEFINE Powers(m, f) == /\ f \in [0 .. m -> Nat]
                           /\ f[0] = 1
                           /\ \A k \in 1 .. m : f[k] = 2 * f[k - 1]
           T == {m \in Nat : ~\E f : Powers(m, f)}
<1>1. T = {}
  <2> SUFFICES ASSUME T # {} PROVE FALSE
    OBVIOUS
  <2>1. PICK m \in T : \A j \in T : m <= j
    BY LeastNat, Zenon
  <2>2. m # 0
    <3> DEFINE one == [k \in 0 .. 0 |-> 1]
    <3>1. Powers(0, one)
      OBVIOUS
    <3> QED
      BY <3>1, Zenon
  <2>3. m \in Nat /\ m - 1 \in Nat /\ m - 1 \notin T
    <3>1. m \in Nat
      BY Zenon
    <3>2. m - 1 \in Nat /\ ~(m <= m - 1)
      BY <2>2, <3>1
    <3> QED
      BY <2>1, <3>1, <3>2, Zenon
  <2>4. PICK f : Powers(m - 1, f)
    BY <2>3, Zenon
  <2> DEFINE g == [k \in 0 .. m |-> IF k = m THEN 2 * f[m - 1] ELSE f[k]]
  <2>5. f[m - 1] \in Nat /\ \A k \in 0 .. m - 1 : f[k] \in Nat
    BY <2>3, <2>4
  <2>6. g \in [0 .. m -> Nat] /\ g[0] = 1
    BY <2>2, <2>3, <2>4, <2>5
  <2>7. \A k \in 1 .. m : g[k] = 2 * g[k - 1]
    <3> TAKE k \in 1 .. m
    <3>1. CASE k = m
      BY <2>2, <2>3, <3>1
    <3>2. CASE k # m
      BY <2>3, <2>4, <3>2
    <3> QED
      BY <3>1, <3>2
  <2> HIDE DEF g
  <2>8. Powers(m, g)
    BY <2>6, <2>7
  <2> QED
    BY <2>1, <2>8, Zenon
<1>2. PICK f : Powers(MAXEXP, f)
  BY <1>1, Consts, Zenon
<1>3. f = [n \in 0 .. MAXEXP |-> IF n = 0 THEN 1 ELSE 2 * f[n - 1]]
  BY <1>2, Consts
<1> HIDE DEF Powers, T
<1> DEFINE P(w) == w = [n \in 0 .. MAXEXP |-> IF n = 0 THEN 1 ELSE 2 * w[n - 1]]
<1>4. P(CHOOSE w : P(w))
  BY <1>3, Zenon
<1>5. P(Bit)
  BY <1>4, Zenon DEF Bit
<1>6. \A n \in 0 .. MAXEXP : Bit[n] \in Nat
  <2> DEFINE U == {n \in 0 .. MAXEXP : Bit[n] \notin Nat}
  <2> SUFFICES ASSUME U # {} PROVE FALSE
    BY Zenon
  <2>1. U \in SUBSET Nat
    BY Consts
  <2>2. PICK n \in U : \A j \in U : n <= j
    BY <2>1, LeastNat, Zenon
  <2>3. n \in 0 .. MAXEXP /\ Bit[n] = IF n = 0 THEN 1 ELSE 2 * Bit[n - 1]
    BY <1>5, <2>2, Zenon
  <2>4. n # 0 => n - 1 \in 0 .. MAXEXP /\ n - 1 \notin U
    BY <2>2, <2>3, Consts
  <2>5. n # 0 => Bit[n - 1] \in Nat
    BY <2>4, Zenon
  <2>6. Bit[n] \in Nat
    BY <2>3, <2>5
  <2> QED
    BY <2>2, <2>6, Zenon
<1> QED
  BY <1>5, <1>6, Zenon

\* What getexp returns.
LEMMA ExpFacts ==
    ASSUME Laws, NEW s \in Nat
    PROVE  /\ getexp(s) \in Exps \cup {-1}
           /\ getexp(s) = -1 <=> s < Bit[MINEXP]
           /\ getexp(s) # -1 =>
                 /\ \A m \in MINEXP .. getexp(s) : Bit[m] <= s
                 /\ s < Bit[getexp(s) + 1] \/ getexp(s) = MAXEXP - 1
<1>1. \A n \in MINEXP .. MAXEXP : n \in 0 .. MAXEXP /\ Bit[n] \in Nat
  BY BitFacts, Consts
<1>2. CASE s < Bit[MINEXP]
  BY <1>2, Consts DEF getexp
<1>3. CASE ~(s < Bit[MINEXP])
  <2> DEFINE Q(n) == /\ \A m \in MINEXP .. n : Bit[m] <= s
                     /\ s < Bit[n + 1] \/ n = MAXEXP - 1
             T == {n \in Exps : s < Bit[n + 1] \/ n = MAXEXP - 1}
  <2>1. T \in SUBSET Nat /\ MAXEXP - 1 \in T
    BY Consts DEF Exps
  <2>2. PICK n \in T : \A j \in T : n <= j
    BY <2>1, LeastNat, Zenon
  <2>3. \A m \in MINEXP .. n : Bit[m] <= s
    <3> TAKE m \in MINEXP .. n
    <3>1. CASE m = MINEXP
      BY <1>1, <1>3, <3>1, Consts
    <3>2. CASE m # MINEXP
      <4>1. m - 1 \in Exps /\ m - 1 < n /\ (m - 1) + 1 = m /\ m \in MINEXP .. MAXEXP
        BY <2>2, <3>2, Consts DEF Exps
      <4>2. m - 1 \notin T
        BY <2>2, <4>1, Consts DEF Exps
      <4>3. ~(s < Bit[m])
        BY <4>1, <4>2
      <4> QED
        BY <1>1, <4>1, <4>3
    <3> QED
      BY <3>1, <3>2
  <2>4. n \in Exps /\ Q(n)
    BY <2>2, <2>3, Zenon
  <2>5. getexp(s) = CHOOSE x \in Exps : Q(x)
    BY <1>3, Zenon DEF getexp
  <2> HIDE DEF Q
  <2>6. getexp(s) \in Exps /\ Q(getexp(s))
    BY <2>4, <2>5, Zenon
  <2>7. getexp(s) # -1
    BY <2>6, Consts
  <2> QED
    BY <1>3, <2>6, <2>7, Zenon DEF Q
<1> QED
  BY <1>2, <1>3

\* The list of a larger size is not below the one of a smaller.
LEMMA BucketFacts ==
    ASSUME Laws, NEW s \in Nat, NEW u \in Nat, s <= u
    PROVE  /\ AtLeast(getexp(s), MINEXP) \in Exps
           /\ AtLeast(getexp(s), MINEXP) <= AtLeast(getexp(u), MINEXP)
<1>1. /\ getexp(s) \in Exps \cup {-1} /\ getexp(u) \in Exps \cup {-1}
      /\ getexp(s) = -1 <=> s < Bit[MINEXP]
      /\ getexp(u) = -1 <=> u < Bit[MINEXP]
      /\ getexp(s) # -1 => \A m \in MINEXP .. getexp(s) : Bit[m] <= s
      /\ getexp(u) # -1 => u < Bit[getexp(u) + 1] \/ getexp(u) = MAXEXP - 1
  BY ExpFacts, Zenon
<1>2. Bit[MINEXP] \in Nat
  BY BitFacts, Consts
<1>3. CASE getexp(s) = -1
  BY <1>1, <1>3, Consts DEF AtLeast, Exps
<1>4. CASE getexp(s) # -1 /\ getexp(u) # -1
  <2> SUFFICES ASSUME getexp(u) < getexp(s) PROVE FALSE
    BY <1>1, <1>4, Consts DEF AtLeast, Exps
  <2> DEFINE n == getexp(u) + 1
  <2>1. n \in MINEXP .. getexp(s) /\ n \in 0 .. MAXEXP /\ getexp(u) # MAXEXP - 1
    BY <1>1, <1>4, Consts DEF Exps
  <2>2. Bit[n] \in Nat /\ Bit[n] <= s /\ u < Bit[n]
    BY <1>1, <1>4, <2>1, BitFacts, Zenon
  <2> QED
    BY <2>2
<1>5. CASE getexp(s) # -1 /\ getexp(u) = -1
  BY <1>1, <1>2, <1>5
<1> QED
  BY <1>3, <1>4, <1>5

-----------------------------------------------------------------------------
(* Lists: a tag is put at the front or taken out of its place.             *)

LEMMA ListWithin ==
    ASSUME NEW S, NEW U, NEW s \in Seq(S), \A i \in DOMAIN s : s[i] \in U
    PROVE  s \in Seq(U)
<1>1. DOMAIN s = 1 .. Len(s) /\ Len(s) \in Nat /\ s \in [1 .. Len(s) -> S]
  OBVIOUS
<1>2. s \in [1 .. Len(s) -> U]
  BY <1>1
<1> QED
  BY <1>1, <1>2

LEMMA PutFirst ==
    ASSUME NEW S, NEW s \in Seq(S), NoTwice(s), NEW t \in S, t \notin Range(s)
    PROVE  LET r == <<t>> \o s
           IN  r \in Seq(S) /\ NoTwice(r) /\ Range(r) = Range(s) \cup {t}
<1> DEFINE r == <<t>> \o s
<1>1. /\ r \in Seq(S) /\ Len(s) \in Nat /\ DOMAIN s = 1 .. Len(s)
      /\ DOMAIN r = 1 .. Len(s) + 1
      /\ r[1] = t
      /\ \A i \in 2 .. Len(s) + 1 : i - 1 \in 1 .. Len(s) /\ r[i] = s[i - 1]
      /\ \A i \in 1 .. Len(s) : i + 1 \in 2 .. Len(s) + 1 /\ r[i + 1] = s[i]
  OBVIOUS
<1> HIDE DEF r
<1>2. \A i \in 1 .. Len(s) : s[i] # t
  BY <1>1 DEF Range
<1>3. NoTwice(r)
  <2> SUFFICES ASSUME NEW i \in 1 .. Len(s) + 1, NEW j \in 1 .. Len(s) + 1, r[i] = r[j]
               PROVE  i = j
    BY <1>1 DEF NoTwice
  <2>1. CASE i = 1 \/ j = 1
    BY <1>1, <1>2, <2>1
  <2>2. CASE i # 1 /\ j # 1
    <3>1. i - 1 \in 1 .. Len(s) /\ j - 1 \in 1 .. Len(s) /\ s[i - 1] = s[j - 1]
      BY <1>1, <2>2
    <3>2. i - 1 = j - 1
      BY <1>1, <3>1, Zenon DEF NoTwice
    <3> QED
      BY <1>1, <3>2
  <2> QED
    BY <2>1, <2>2
<1>4. Range(r) = Range(s) \cup {t}
  <2>1. \A x \in Range(r) : x \in Range(s) \cup {t}
    BY <1>1 DEF Range
  <2>2. t \in Range(r)
    <3>1. 1 \in DOMAIN r
      BY <1>1
    <3> QED
      BY <1>1, <3>1, Zenon DEF Range
  <2>3. ASSUME NEW i \in 1 .. Len(s) PROVE s[i] \in Range(r)
    <3>1. i + 1 \in DOMAIN r /\ r[i + 1] = s[i]
      BY <1>1
    <3> QED
      BY <3>1, Zenon DEF Range
  <2>4. \A x \in Range(s) : x \in Range(r)
    <3>1. DOMAIN s = 1 .. Len(s)
      BY <1>1
    <3>2. Range(s) = {s[i] : i \in 1 .. Len(s)}
      BY <3>1, Zenon DEF Range
    <3> QED
      BY <2>3, <3>2, Zenon
  <2> QED
    BY <2>1, <2>2, <2>4
<1> QED
  BY <1>1, <1>3, <1>4 DEF r

LEMMA TakeOut ==
    ASSUME NEW S, NEW s \in Seq(S), NoTwice(s), NEW i \in DOMAIN s
    PROVE  LET r == SubSeq(s, 1, i - 1) \o SubSeq(s, i + 1, Len(s))
           IN  r \in Seq(S) /\ NoTwice(r) /\ Range(r) = Range(s) \ {s[i]}
<1> DEFINE a == SubSeq(s, 1, i - 1)
           b == SubSeq(s, i + 1, Len(s))
           r == a \o b
           n == Len(s)
<1>1. n \in Nat /\ DOMAIN s = 1 .. n /\ i \in 1 .. n
  OBVIOUS
<1>2. /\ a \in Seq(S) /\ Len(a) = i - 1
      /\ \A j \in 1 .. i - 1 : a[j] = s[j]
  BY <1>1
<1>3. /\ b \in Seq(S) /\ Len(b) = n - i
      /\ \A j \in 1 .. n - i : b[j] = s[i + j]
  BY <1>1
<1> HIDE DEF a, b
<1>4. /\ r \in Seq(S) /\ DOMAIN r = 1 .. n - 1
      /\ \A j \in 1 .. n - 1 : r[j] = IF j < i THEN a[j] ELSE b[j - (i - 1)]
  <2>1. /\ r \in Seq(S) /\ Len(r) = Len(a) + Len(b)
        /\ \A j \in 1 .. Len(a) + Len(b) :
              r[j] = IF j <= Len(a) THEN a[j] ELSE b[j - Len(a)]
    <3>1. a \in Seq(S) /\ b \in Seq(S)
      BY <1>2, <1>3
    <3> QED
      BY <3>1, SMTT(20)
  <2>2. Len(a) + Len(b) = n - 1 /\ \A j \in 1 .. n - 1 : j <= Len(a) <=> j < i
    BY <1>1, <1>2, <1>3
  <2>3. DOMAIN r = 1 .. n - 1
    BY <2>1, <2>2
  <2> QED
    BY <1>2, <2>1, <2>2, <2>3, Zenon
<1> HIDE DEF r, n
<1>5. \A j \in 1 .. n - 1 : r[j] = IF j < i THEN s[j] ELSE s[j + 1]
  <2> TAKE j \in 1 .. n - 1
  <2>1. CASE j < i
    BY <1>1, <1>2, <1>4, <2>1
  <2>2. CASE ~(j < i)
    <3>1. j - (i - 1) \in 1 .. n - i /\ i + (j - (i - 1)) = j + 1
      BY <1>1, <2>2
    <3> QED
      BY <1>3, <1>4, <2>2, <3>1
  <2> QED
    BY <2>1, <2>2
<1>6. NoTwice(r)
  <2> SUFFICES ASSUME NEW j \in 1 .. n - 1, NEW k \in 1 .. n - 1, r[j] = r[k]
               PROVE  j = k
    BY <1>4 DEF NoTwice
  <2> DEFINE p(x) == IF x < i THEN x ELSE x + 1
  <2>1. p(j) \in 1 .. n /\ p(k) \in 1 .. n
    BY <1>1
  <2>2. s[p(j)] = s[p(k)]
    BY <1>1, <1>5
  <2>3. p(j) = p(k)
    BY <1>1, <2>1, <2>2 DEF NoTwice
  <2> QED
    BY <1>1, <2>3
<1>7. \A j \in 1 .. n - 1 : r[j] \in Range(s) \ {s[i]}
  <2> TAKE j \in 1 .. n - 1
  <2> DEFINE p == IF j < i THEN j ELSE j + 1
  <2>1. p \in 1 .. n /\ p # i /\ r[j] = s[p]
    BY <1>1, <1>5
  <2> QED
    BY <1>1, <2>1 DEF Range, NoTwice
<1>8. \A x \in Range(s) \ {s[i]} : x \in Range(r)
  <2> TAKE x \in Range(s) \ {s[i]}
  <2>1. PICK p \in 1 .. n : x = s[p]
    BY <1>1 DEF Range
  <2> DEFINE j == IF p < i THEN p ELSE p - 1
  <2>2. j \in 1 .. n - 1 /\ r[j] = s[p]
    BY <1>1, <1>5, <2>1
  <2> QED
    BY <1>4, <2>1, <2>2 DEF Range
<1>9. Range(r) = Range(s) \ {s[i]}
  BY <1>4, <1>7, <1>8 DEF Range
<1> QED
  BY <1>4, <1>6, <1>9, Zenon DEF r, a, b

Inserted(new, lists, t, b, S) ==
    /\ Good(new, S)
    /\ Range(new[b]) = Range(lists[b]) \cup {t}
    /\ \A c \in Exps \ {b} : new[c] = lists[c]

LEMMA InsertKeeps ==
    ASSUME NEW S, NEW lists, Good(lists, S), NEW b \in Exps, NEW t \in S,
           t \notin Range(lists[b])
    PROVE  Inserted(insert_tag(lists, t, b), lists, t, b, S)
<1> DEFINE new == insert_tag(lists, t, b)
           s == <<t>> \o lists[b]
<1>1. lists \in [Exps -> Seq(S)] /\ lists[b] \in Seq(S) /\ \A c \in Exps : NoTwice(lists[c])
  BY DEF Good
<1>2. s \in Seq(S) /\ NoTwice(s) /\ Range(s) = Range(lists[b]) \cup {t}
  <2>1. lists[b] \in Seq(S) /\ NoTwice(lists[b])
    BY <1>1, Zenon
  <2> HIDE DEF s
  <2>2. <<t>> \o lists[b] \in Seq(S) /\ NoTwice(<<t>> \o lists[b])
        /\ Range(<<t>> \o lists[b]) = Range(lists[b]) \cup {t}
    BY <2>1, PutFirst, ZenonT(40)
  <2> QED
    BY <2>2, Zenon DEF s
<1>3. new = [lists EXCEPT ![b] = s]
  BY Zenon DEF insert_tag
<1> HIDE DEF s, new
<1>4. /\ new \in [Exps -> Seq(S)] /\ new[b] = s
      /\ \A c \in Exps \ {b} : new[c] = lists[c]
  BY <1>1, <1>2, <1>3, Zenon
<1>5. \A c \in Exps : NoTwice(new[c])
  BY <1>1, <1>2, <1>4, Zenon
<1> QED
  BY <1>2, <1>4, <1>5, Zenon DEF Good, Inserted, new

Removed(new, lists, t, b, S) ==
    /\ Good(new, S)
    /\ Range(new[b]) = Range(lists[b]) \ {t}
    /\ \A c \in Exps \ {b} : new[c] = lists[c]

LEMMA RemoveKeeps ==
    ASSUME NEW S, NEW lists, Good(lists, S), NEW t, NEW b \in Exps,
           tags[t].index = b, t \in Range(lists[b])
    PROVE  Removed(remove_tag(lists, t), lists, t, b, S)
<1> DEFINE new == remove_tag(lists, t)
           l == lists[b]
           i == CHOOSE k \in DOMAIN l : l[k] = t
           s == SubSeq(l, 1, i - 1) \o SubSeq(l, i + 1, Len(l))
<1>1. lists \in [Exps -> Seq(S)] /\ l \in Seq(S) /\ \A c \in Exps : NoTwice(lists[c])
  BY DEF Good
<1>2. i \in DOMAIN l /\ l[i] = t
  BY Zenon DEF Range
<1>3. new = [lists EXCEPT ![b] = s]
  BY Zenon DEF remove_tag
<1> HIDE DEF i, l
<1>4. s \in Seq(S) /\ NoTwice(s) /\ Range(s) = Range(l) \ {t}
  <2>1. NoTwice(l)
    BY <1>1, Zenon DEF l
  <2> QED
    BY <1>1, <1>2, <2>1, TakeOut, Zenon
<1> HIDE DEF s, new
<1>5. /\ new \in [Exps -> Seq(S)] /\ new[b] = s
      /\ \A c \in Exps \ {b} : new[c] = lists[c]
  BY <1>1, <1>3, <1>4, Zenon
<1>6. \A c \in Exps : NoTwice(new[c])
  BY <1>1, <1>4, <1>5, Zenon
<1> QED
  BY <1>4, <1>5, <1>6, Zenon DEF Good, Removed, new, l

-----------------------------------------------------------------------------
(* Tags: what a cut, a join, new pages and a release do to the ground.     *)

TagOf(real, size, index, left, right) ==
    [real |-> real, size |-> size, index |-> index, left |-> left, right |-> right]

LEMMA TagFields ==
    ASSUME NEW r \in TagSet
    PROVE  /\ r = TagOf(r.real, r.size, r.index, r.left, r.right)
           /\ \A a, b, c : [r EXCEPT !.real = a, !.size = b, !.right = c]
                               = TagOf(a, b, r.index, r.left, c)
           /\ \A a, b, c : [r EXCEPT !.real = a, !.right = b, !.index = c]
                               = TagOf(a, r.size, c, r.left, b)
           /\ \A a : [r EXCEPT !.left = a] = TagOf(r.real, r.size, r.index, a, r.right)
           /\ \A a : [r EXCEPT !.index = a] = TagOf(r.real, r.size, a, r.left, r.right)
           /\ \A a : [r EXCEPT !.size = a] = TagOf(r.real, a, r.index, r.left, r.right)
<1>1. r = TagOf(r.real, r.size, r.index, r.left, r.right)
  BY Zenon DEF TagSet, TagOf
<1>2. \A a : /\ [r EXCEPT !.real = a] = TagOf(a, r.size, r.index, r.left, r.right)
             /\ [r EXCEPT !.left = a] = TagOf(r.real, r.size, r.index, a, r.right)
             /\ [r EXCEPT !.index = a] = TagOf(r.real, r.size, a, r.left, r.right)
             /\ [r EXCEPT !.size = a] = TagOf(r.real, a, r.index, r.left, r.right)
  <2> DEFINE P == TagOf(r.real, r.size, r.index, r.left, r.right)
  <2>1. \A a : /\ [P EXCEPT !.real = a] = TagOf(a, r.size, r.index, r.left, r.right)
               /\ [P EXCEPT !.left = a] = TagOf(r.real, r.size, r.index, a, r.right)
               /\ [P EXCEPT !.index = a] = TagOf(r.real, r.size, a, r.left, r.right)
               /\ [P EXCEPT !.size = a] = TagOf(r.real, a, r.index, r.left, r.right)
    BY DEF TagOf
  <2> HIDE DEF P
  <2>2. r = P
    BY <1>1 DEF P
  <2> QED
    BY <2>1, <2>2, Zenon
<1>3. \A a, b, c : [r EXCEPT !.real = a, !.size = b, !.right = c]
                               = TagOf(a, b, r.index, r.left, c)
  <2> TAKE a, b, c
  <2>1. [TagOf(a, r.size, r.index, r.left, r.right) EXCEPT !.size = b]
           = TagOf(a, b, r.index, r.left, r.right)
    BY DEF TagOf
  <2>2. [TagOf(a, b, r.index, r.left, r.right) EXCEPT !.right = c]
           = TagOf(a, b, r.index, r.left, c)
    BY DEF TagOf
  <2> QED
    BY <1>2, <2>1, <2>2, ZenonT(40)
<1>4. \A a, b, c : [r EXCEPT !.real = a, !.right = b, !.index = c]
                               = TagOf(a, r.size, c, r.left, b)
  <2> TAKE a, b, c
  <2>1. [TagOf(a, r.size, r.index, r.left, r.right) EXCEPT !.right = b]
           = TagOf(a, r.size, r.index, r.left, b)
    BY DEF TagOf
  <2>2. [TagOf(a, r.size, r.index, r.left, b) EXCEPT !.index = c]
           = TagOf(a, r.size, c, r.left, b)
    BY DEF TagOf
  <2> QED
    BY <1>2, <2>1, <2>2, ZenonT(40)
<1> QED
  BY <1>1, <1>2, <1>3, <1>4, Zenon

LEMMA TagGet ==
    ASSUME NEW a, NEW b, NEW c, NEW d, NEW e
    PROVE  /\ TagOf(a, b, c, d, e).real = a
           /\ TagOf(a, b, c, d, e).size = b
           /\ TagOf(a, b, c, d, e).index = c
           /\ TagOf(a, b, c, d, e).left = d
           /\ TagOf(a, b, c, d, e).right = e
BY DEF TagOf

LEMMA TagIn ==
    ASSUME NEW a \in Nat, NEW b \in Nat, NEW c \in Exps \cup {-1}, NEW d \in Nat, NEW e \in Nat
    PROVE  TagOf(a, b, c, d, e) \in TagSet
BY DEF TagOf, TagSet

LEMMA TagTypes ==
    ASSUME NEW ts, Typed(ts), NEW t \in DOMAIN ts
    PROVE  /\ ts[t] \in TagSet
           /\ t \in Nat /\ 0 < t /\ End(ts, t) \in Nat /\ t < End(ts, t)
           /\ End(ts, t) = t + ts[t].real
           /\ ts[t].real \in Nat /\ TAG <= ts[t].real /\ ts[t].size \in Nat
           /\ ts[t].index \in Exps \cup {-1}
           /\ ts[t].left \in Nat /\ ts[t].right \in Nat
<1>1. ts[t] \in TagSet /\ t \in Nat /\ 0 < t /\ TAG <= ts[t].real
  BY DEF Typed
<1>2. /\ ts[t].real \in Nat /\ ts[t].size \in Nat /\ ts[t].index \in Exps \cup {-1}
      /\ ts[t].left \in Nat /\ ts[t].right \in Nat
  BY <1>1 DEF TagSet
<1> QED
  BY <1>1, <1>2, Consts DEF End

\* The tag behind t, if it has one.
LEMMA RightFacts ==
    ASSUME NEW ts, NEW h, Ground(ts, h), NEW t \in DOMAIN ts, ts[t].right # NULL
    PROVE  /\ ts[t].right = End(ts, t) /\ ts[t].right \in DOMAIN ts
           /\ ts[ts[t].right].left = t
           /\ ts[t].right # t
<1>1. /\ ts[t].right = End(ts, t) /\ ts[t].right \in DOMAIN ts
      /\ ts[ts[t].right].left = t
  BY Zenon DEF Ground, LeftRight
<1>2. Typed(ts)
  BY DEF Ground
<1>3. t \in Nat /\ End(ts, t) \in Nat /\ t < End(ts, t)
  BY <1>2, TagTypes, Zenon
<1> QED
  BY <1>1, <1>3

\* A tag whose size, index or both change keeps its place.
LEMMA SameGround ==
    ASSUME NEW ts, NEW h, Ground(ts, h), NEW new,
           DOMAIN new = DOMAIN ts, new \in [DOMAIN ts -> TagSet],
           \A u \in DOMAIN ts : /\ new[u].real = ts[u].real
                                /\ new[u].left = ts[u].left
                                /\ new[u].right = ts[u].right
    PROVE  Ground(new, h)
<1>1. Typed(new)
  BY Zenon DEF Ground, Typed
<1>2. \A u \in DOMAIN ts : End(new, u) = End(ts, u)
  BY DEF End
<1>3. Apart(new)
  BY <1>2, Zenon DEF Ground, Apart
<1>4. Inside(new, h)
  BY <1>2, Zenon DEF Ground, Inside
<1>5. LeftRight(new, h)
  <2> SUFFICES ASSUME NEW t \in DOMAIN ts
               PROVE  /\ IF new[t].left = NULL
                         THEN \E r \in h : t = First(r)
                         ELSE new[t].left \in DOMAIN new /\ new[new[t].left].right = t
                      /\ IF new[t].right = NULL
                         THEN \E r \in h : End(new, t) = Last(r)
                         ELSE /\ new[t].right = End(new, t)
                              /\ new[t].right \in DOMAIN new
                              /\ new[new[t].right].left = t
    BY Zenon DEF LeftRight
  <2>1. /\ IF ts[t].left = NULL
           THEN \E r \in h : t = First(r)
           ELSE ts[t].left \in DOMAIN ts /\ ts[ts[t].left].right = t
        /\ IF ts[t].right = NULL
           THEN \E r \in h : End(ts, t) = Last(r)
           ELSE /\ ts[t].right = End(ts, t)
                /\ ts[t].right \in DOMAIN ts
                /\ ts[ts[t].right].left = t
    BY Zenon DEF Ground, LeftRight
  <2> QED
    BY <1>2, <2>1, Zenon
<1> QED
  BY <1>1, <1>3, <1>4, <1>5, Zenon DEF Ground

\* What a cut makes of the tags.
CutMakes(c, ts, t, size) ==
    LET new == t + TAG + size
        rest == ts[t].real - TAG - size
        right == ts[t].right
    IN  /\ new \notin DOMAIN ts
        /\ DOMAIN c = DOMAIN ts \cup {new}
        /\ c \in [DOMAIN c -> TagSet]
        /\ c[new] = TagOf(rest, 0, Bucket(rest), t, right)
        /\ c[t] = TagOf(TAG + size, size, ts[t].index, ts[t].left, new)
        /\ right \in DOMAIN ts =>
              c[right] = TagOf(ts[right].real, ts[right].size, ts[right].index, new,
                               ts[right].right)
        /\ \A u \in DOMAIN ts \ {t, right} : c[u] = ts[u]

LEMMA BucketIn ==
    ASSUME Laws, NEW real \in Nat, TAG <= real
    PROVE  Bucket(real) \in Exps
<1>1. real - TAG \in Nat /\ real - TAG <= real - TAG
  BY Consts
<1> QED
  BY <1>1, BucketFacts, Zenon DEF Bucket

LEMMA CutShape ==
    ASSUME Laws, NEW ts, NEW h, Ground(ts, h), NEW t \in DOMAIN ts, NEW size \in Nat,
           ts[t].real - size - 2 * TAG > 0
    PROVE  CutMakes(Cut(ts, t, size), ts, t, size)
<1> DEFINE new == t + TAG + size
           rest == ts[t].real - TAG - size
           right == ts[t].right
           c == Cut(ts, t, size)
<1>1. Typed(ts) /\ Apart(ts)
  BY DEF Ground
<1>2. /\ t \in Nat /\ 0 < t /\ End(ts, t) = t + ts[t].real /\ ts[t].real \in Nat
      /\ ts[t] \in TagSet /\ right \in Nat /\ ts[t].left \in Nat
      /\ ts[t].index \in Exps \cup {-1}
  BY <1>1, TagTypes, Zenon
<1>3. /\ new \in Nat /\ t < new /\ new < End(ts, t)
      /\ rest \in Nat /\ TAG <= rest /\ ts[t].real - rest = TAG + size /\ TAG + size \in Nat
      /\ 0 \in Nat
  BY <1>2, Consts
<1>4. new \notin DOMAIN ts
  <2> SUFFICES ASSUME new \in DOMAIN ts PROVE FALSE
    OBVIOUS
  <2>1. End(ts, t) <= new \/ End(ts, new) <= t
    BY <1>1, <1>2, <1>3 DEF Apart
  <2>2. End(ts, new) \in Nat /\ new < End(ts, new)
    BY <1>1, TagTypes, Zenon
  <2> QED
    BY <1>2, <1>3, <2>1, <2>2
<1>5. right # t /\ right # new
  <2>1. CASE right = NULL
    BY <1>2, <1>3, <2>1 DEF NULL
  <2>2. CASE right # NULL
    BY <1>4, <2>2, RightFacts, Zenon
  <2> QED
    BY <2>1, <2>2
<1>6. Bucket(rest) \in Exps \cup {-1}
  BY <1>3, BucketIn, Zenon
<1> DEFINE tn == TagOf(rest, 0, Bucket(rest), t, right)
           tt == TagOf(TAG + size, size, ts[t].index, ts[t].left, new)
           tr == TagOf(ts[right].real, ts[right].size, ts[right].index, new, ts[right].right)
<1>7. /\ tn = [real |-> rest, size |-> 0, index |-> Bucket(rest), left |-> t, right |-> right]
      /\ tt = [ts[t] EXCEPT !.real = @ - rest, !.size = size, !.right = new]
      /\ right \in DOMAIN ts => tr = [ts[right] EXCEPT !.left = new]
  <2>1. tn = [real |-> rest, size |-> 0, index |-> Bucket(rest), left |-> t, right |-> right]
    BY Zenon DEF TagOf
  <2>2. \A x, y, z : [ts[t] EXCEPT !.real = x, !.size = y, !.right = z]
                        = TagOf(x, y, ts[t].index, ts[t].left, z)
    BY <1>2, TagFields, Zenon
  <2>3. right \in DOMAIN ts => tr = [ts[right] EXCEPT !.left = new]
    BY <1>1, TagTypes, TagFields, Zenon
  <2>4. tt = [ts[t] EXCEPT !.real = @ - rest, !.size = size, !.right = new]
    <3>1. ts[t].real - rest = TAG + size
      BY <1>3, Zenon
    <3> HIDE DEF new, rest
    <3>2. [ts[t] EXCEPT !.real = ts[t].real - rest, !.size = size, !.right = new]
             = TagOf(ts[t].real - rest, size, ts[t].index, ts[t].left, new)
      BY <2>2, Zenon
    <3> QED
      BY <3>1, <3>2, Zenon
  <2> QED
    BY <2>1, <2>3, <2>4
<1>8. tn \in TagSet /\ tt \in TagSet /\ (right \in DOMAIN ts => tr \in TagSet)
  <2>1. tn \in TagSet
    BY <1>2, <1>3, <1>6, TagIn, Zenon
  <2>2. tt \in TagSet
    BY <1>2, <1>3, <1>6, TagIn, Zenon
  <2>3. right \in DOMAIN ts => tr \in TagSet
    BY <1>1, <1>3, TagTypes, TagIn, Zenon
  <2> QED
    BY <2>1, <2>2, <2>3
<1> DEFINE A == [real |-> rest, size |-> 0, index |-> Bucket(rest), left |-> t, right |-> right]
           B == [ts[t] EXCEPT !.real = @ - rest, !.size = size, !.right = new]
           C(u) == [ts[u] EXCEPT !.left = new]
<1>9. c = [u \in DOMAIN ts \cup {new} |->
             CASE u = new -> A
               [] u = t -> B
               [] u = right -> C(u)
               [] OTHER -> ts[u]]
  BY DEF Cut
<1> HIDE DEF c, new, right, rest, tn, tt, tr, A, B, C
<1>0. tn = A /\ tt = B /\ (right \in DOMAIN ts => tr = C(right))
  BY <1>7, Zenon DEF A, B, C
<1>10. DOMAIN c = DOMAIN ts \cup {new}
  BY <1>9, Zenon
<1>11. c[new] = tn
  BY <1>0, <1>4, <1>5, <1>9
<1>12. c[t] = tt
  BY <1>0, <1>4, <1>5, <1>9
<1>13. right \in DOMAIN ts => c[right] = tr
  BY <1>0, <1>5, <1>9
<1>14. \A u \in DOMAIN ts \ {t, right} : c[u] = ts[u]
  BY <1>4, <1>9
<1>15. c \in [DOMAIN c -> TagSet]
  <2>1. \A u \in DOMAIN c : c[u] \in TagSet
    BY <1>1, <1>8, <1>10, <1>11, <1>12, <1>13, <1>14, TagTypes, Zenon
  <2> QED
    BY <1>9, <2>1
<1> QED
  BY <1>4, <1>10, <1>11, <1>12, <1>13, <1>14, <1>15, Zenon
  DEF CutMakes, c, new, right, rest, tn, tt, tr

\* The same, field by field.
CutParts(c, ts, t, size, new, rest, right) ==
    /\ new \notin DOMAIN ts /\ DOMAIN c = DOMAIN ts \cup {new}
    /\ c \in [DOMAIN c -> TagSet]
    /\ c[new].real = rest /\ c[new].left = t /\ c[new].right = right
    /\ c[new].index = Bucket(rest)
    /\ c[t].real = TAG + size /\ c[t].left = ts[t].left /\ c[t].right = new
    /\ c[t].size = size
    /\ right \in DOMAIN ts => c[right].left = new
    /\ \A u \in DOMAIN ts \ {t} : /\ c[u].real = ts[u].real
                                  /\ c[u].right = ts[u].right
                                  /\ c[u].size = ts[u].size
    /\ \A u \in DOMAIN ts \ {right} : c[u].left = ts[u].left
    /\ \A u \in DOMAIN ts : c[u].index = ts[u].index

LEMMA CutFields ==
    ASSUME NEW ts, NEW c, NEW t \in DOMAIN ts, NEW size, CutMakes(c, ts, t, size),
           ts[t].right # t
    PROVE  CutParts(c, ts, t, size, t + TAG + size, ts[t].real - TAG - size, ts[t].right)
<1> DEFINE new == t + TAG + size
           rest == ts[t].real - TAG - size
           right == ts[t].right
<1>1. /\ new \notin DOMAIN ts /\ DOMAIN c = DOMAIN ts \cup {new}
      /\ c \in [DOMAIN c -> TagSet]
  BY Zenon DEF CutMakes
<1>2. c[new] = TagOf(rest, 0, Bucket(rest), t, right)
  BY Zenon DEF CutMakes
<1>3. c[t] = TagOf(TAG + size, size, ts[t].index, ts[t].left, new)
  BY Zenon DEF CutMakes
<1>4. right \in DOMAIN ts =>
         c[right] = TagOf(ts[right].real, ts[right].size, ts[right].index, new,
                          ts[right].right)
  BY Zenon DEF CutMakes
<1>5. \A u \in DOMAIN ts \ {t, right} : c[u] = ts[u]
  BY Zenon DEF CutMakes
<1> HIDE DEF new, rest, right
<1>6. /\ c[new].real = rest /\ c[new].left = t /\ c[new].right = right
      /\ c[new].index = Bucket(rest)
  BY <1>2 DEF TagOf
<1>7. /\ c[t].real = TAG + size /\ c[t].left = ts[t].left /\ c[t].right = new
      /\ c[t].size = size /\ c[t].index = ts[t].index
  BY <1>3 DEF TagOf
<1>8. right \in DOMAIN ts =>
         /\ c[right].real = ts[right].real /\ c[right].size = ts[right].size
         /\ c[right].index = ts[right].index /\ c[right].left = new
         /\ c[right].right = ts[right].right
  BY <1>4 DEF TagOf
<1>9. \A u \in DOMAIN ts \ {t} : /\ c[u].real = ts[u].real
                                 /\ c[u].right = ts[u].right
                                 /\ c[u].size = ts[u].size
  BY <1>5, <1>8, Zenon
<1>10. \A u \in DOMAIN ts \ {right} : c[u].left = ts[u].left
  BY <1>5, <1>7, Zenon
<1>11. \A u \in DOMAIN ts : c[u].index = ts[u].index
  BY <1>5, <1>7, <1>8, Zenon
<1> QED
  BY <1>1, <1>6, <1>7, <1>8, <1>9, <1>10, <1>11, Zenon DEF CutParts, new, rest, right

\* A cut leaves the tags on the ground.
LEMMA CutKeeps ==
    ASSUME Laws, NEW ts, NEW h, Ground(ts, h), NEW t \in DOMAIN ts, NEW size \in Nat,
           ts[t].real - size - 2 * TAG > 0
    PROVE  Ground(Cut(ts, t, size), h)
<1> DEFINE new == t + TAG + size
           rest == ts[t].real - TAG - size
           right == ts[t].right
           c == Cut(ts, t, size)
<1>1. Typed(ts) /\ Apart(ts) /\ Inside(ts, h) /\ LeftRight(ts, h) /\ Ranges(h)
  BY DEF Ground
<1>2. CutMakes(c, ts, t, size)
  BY CutShape, Zenon
<1>3. /\ t \in Nat /\ 0 < t /\ End(ts, t) = t + ts[t].real /\ ts[t].real \in Nat
      /\ right \in Nat /\ ts[t].left \in Nat
  BY <1>1, TagTypes, Zenon
<1>4. /\ new \in Nat /\ t < new /\ new < End(ts, t) /\ 0 < new
      /\ rest \in Nat /\ TAG <= rest /\ new + rest = End(ts, t)
      /\ t + (TAG + size) = new /\ TAG <= TAG + size
  BY <1>3, Consts
<1>5. right # NULL => right = End(ts, t) /\ right \in DOMAIN ts /\ ts[right].left = t
  BY RightFacts, Zenon
<1>6. right # t
  BY <1>3, <1>4, <1>5 DEF NULL
<1> HIDE DEF new, rest, right, c
<1>7. /\ new \notin DOMAIN ts /\ DOMAIN c = DOMAIN ts \cup {new}
      /\ c \in [DOMAIN c -> TagSet]
      /\ c[new].real = rest /\ c[new].left = t /\ c[new].right = right
      /\ c[t].real = TAG + size /\ c[t].left = ts[t].left /\ c[t].right = new
      /\ right \in DOMAIN ts => c[right].left = new
      /\ \A u \in DOMAIN ts \ {t} : c[u].real = ts[u].real /\ c[u].right = ts[u].right
      /\ \A u \in DOMAIN ts \ {right} : c[u].left = ts[u].left
  <2>1. CutParts(c, ts, t, size, t + TAG + size, ts[t].real - TAG - size, ts[t].right)
    BY <1>2, <1>6, CutFields, Zenon DEF right
  <2> QED
    BY <2>1, Zenon DEF CutParts, new, rest, right
<1>9. /\ End(c, new) = End(ts, t) /\ End(c, t) = new
      /\ \A u \in DOMAIN ts \ {t} : End(c, u) = End(ts, u)
  BY <1>4, <1>7, Zenon DEF End
<1>10. Typed(c)
  <2>1. IsFiniteSet(DOMAIN c)
    <3>1. IsFiniteSet(DOMAIN ts)
      BY <1>1, Zenon DEF Typed
    <3>2. IsFiniteSet(DOMAIN ts \cup {new})
      BY <3>1, AddOne, Zenon
    <3> QED
      BY <1>7, <3>2, Zenon
  <2>2. DOMAIN c \subseteq Nat \ {0}
    BY <1>1, <1>4, <1>7 DEF Typed
  <2>3. \A u \in DOMAIN c : TAG <= c[u].real
    BY <1>1, <1>4, <1>7, Zenon DEF Typed
  <2> QED
    BY <1>7, <2>1, <2>2, <2>3, Zenon DEF Typed
<1>11. Apart(c)
  <2>1. \A u \in DOMAIN ts : End(c, u) \in Nat /\ End(c, u) <= End(ts, u)
    <3> TAKE u \in DOMAIN ts
    <3>1. End(ts, u) \in Nat
      BY <1>1, TagTypes, Zenon
    <3> QED
      BY <1>4, <1>9, <3>1
  <2>2. \A u \in DOMAIN ts : u # t => End(ts, t) <= u \/ End(ts, u) <= t
    BY <1>1, Zenon DEF Apart
  <2>3. \A u \in DOMAIN ts : End(c, new) <= u \/ End(c, u) <= new
    <3> TAKE u \in DOMAIN ts
    <3>1. u \in Nat /\ End(ts, u) \in Nat
      BY <1>1, TagTypes, Zenon
    <3>2. CASE u = t
      BY <1>4, <1>9, <3>2
    <3>3. CASE u # t
      BY <1>3, <1>4, <1>9, <2>2, <3>1, <3>3
    <3> QED
      BY <3>2, <3>3
  <2>4. \A u, v \in DOMAIN ts : u # v => End(c, u) <= v \/ End(c, v) <= u
    <3> TAKE u, v \in DOMAIN ts
    <3> HAVE u # v
    <3>1. End(ts, u) <= v \/ End(ts, v) <= u
      BY <1>1, Zenon DEF Apart
    <3>2. u \in Nat /\ v \in Nat /\ End(ts, u) \in Nat /\ End(ts, v) \in Nat
      BY <1>1, TagTypes, Zenon
    <3> QED
      BY <2>1, <3>1, <3>2
  <2> QED
    BY <1>7, <2>3, <2>4, Zenon DEF Apart
<1>12. Inside(c, h)
  <2>1. \A u \in DOMAIN ts : \E r \in h : First(r) <= u /\ End(c, u) <= Last(r)
    <3> TAKE u \in DOMAIN ts
    <3>1. PICK r \in h : First(r) <= u /\ End(ts, u) <= Last(r)
      BY <1>1, Zenon DEF Inside
    <3>2. First(r) \in Nat /\ Last(r) \in Nat
      BY <1>1, RangeFacts DEF Ranges
    <3>3. u \in Nat /\ End(ts, u) \in Nat
      BY <1>1, TagTypes, Zenon
    <3>4. End(c, u) <= Last(r)
      BY <1>4, <1>9, <3>1, <3>2, <3>3
    <3> QED
      BY <3>1, <3>4
  <2>2. \E r \in h : First(r) <= new /\ End(c, new) <= Last(r)
    <3>1. PICK r \in h : First(r) <= t /\ End(ts, t) <= Last(r)
      BY <1>1, Zenon DEF Inside
    <3>2. First(r) \in Nat /\ Last(r) \in Nat
      BY <1>1, RangeFacts DEF Ranges
    <3>4. First(r) <= new
      BY <1>3, <1>4, <3>1, <3>2
    <3> QED
      BY <1>9, <3>1, <3>4, Zenon
  <2> QED
    BY <1>7, <2>1, <2>2, Zenon DEF Inside
<1>13. \A u \in DOMAIN ts :
          /\ IF ts[u].left = NULL
             THEN \E r \in h : u = First(r)
             ELSE ts[u].left \in DOMAIN ts /\ ts[ts[u].left].right = u
          /\ IF ts[u].right = NULL
             THEN \E r \in h : End(ts, u) = Last(r)
             ELSE /\ ts[u].right = End(ts, u)
                  /\ ts[u].right \in DOMAIN ts
                  /\ ts[ts[u].right].left = u
  BY <1>1, Zenon DEF LeftRight
<1>14. new # NULL /\ t # NULL
  BY <1>3, <1>4 DEF NULL
<1>15. \A u \in DOMAIN c : IF c[u].left = NULL
                           THEN \E r \in h : u = First(r)
                           ELSE c[u].left \in DOMAIN c /\ c[c[u].left].right = u
  <2> TAKE u \in DOMAIN c
  <2>1. CASE u = new
    BY <1>7, <1>14, <2>1, Zenon
  <2>2. CASE u = right /\ u # new
    BY <1>7, <1>14, <2>2, Zenon
  <2>3. CASE u # new /\ u # right
    <3>1. u \in DOMAIN ts /\ c[u].left = ts[u].left
      BY <1>7, <2>3, Zenon
    <3>2. CASE ts[u].left = NULL
      BY <1>13, <3>1, <3>2, Zenon
    <3>3. CASE ts[u].left # NULL
      <4>1. ts[u].left \in DOMAIN ts /\ ts[ts[u].left].right = u
        BY <1>13, <3>1, <3>3, Zenon
      <4>2. ts[u].left # t
        BY <2>3, <4>1, Zenon DEF right
      <4>3. ts[u].left \in DOMAIN c /\ c[ts[u].left].right = u
        BY <1>7, <4>1, <4>2, Zenon
      <4> QED
        BY <3>1, <3>3, <4>3, Zenon
    <3> QED
      BY <3>2, <3>3
  <2> QED
    BY <2>1, <2>2, <2>3
<1>16. \A u \in DOMAIN c : IF c[u].right = NULL
                           THEN \E r \in h : End(c, u) = Last(r)
                           ELSE /\ c[u].right = End(c, u)
                                /\ c[u].right \in DOMAIN c
                                /\ c[c[u].right].left = u
  <2> TAKE u \in DOMAIN c
  <2>1. CASE u = new
    <3>1. CASE right = NULL
      <4>1. \E r \in h : End(ts, t) = Last(r)
        BY <1>13, <3>1, Zenon DEF right
      <4> QED
        BY <1>7, <1>9, <2>1, <3>1, <4>1, Zenon
    <3>2. CASE right # NULL
      BY <1>5, <1>7, <1>9, <2>1, <3>2, Zenon
    <3> QED
      BY <3>1, <3>2
  <2>2. CASE u = t
    BY <1>7, <1>9, <1>14, <2>2, Zenon
  <2>3. CASE u # new /\ u # t
    <3>1. u \in DOMAIN ts /\ c[u].right = ts[u].right /\ End(c, u) = End(ts, u)
      BY <1>7, <1>9, <2>3, Zenon
    <3>2. CASE ts[u].right = NULL
      <4>1. \E r \in h : End(ts, u) = Last(r)
        BY <1>13, <3>1, <3>2, Zenon
      <4> QED
        BY <3>1, <3>2, <4>1, Zenon
    <3>3. CASE ts[u].right # NULL
      <4>1. /\ ts[u].right = End(ts, u) /\ ts[u].right \in DOMAIN ts
            /\ ts[ts[u].right].left = u
        BY <1>13, <3>1, <3>3, Zenon
      <4>2. ts[u].right # right
        <5> SUFFICES ASSUME ts[u].right = right PROVE FALSE
          OBVIOUS
        <5> QED
          BY <1>5, <2>3, <3>3, <4>1, Zenon
      <4>3. ts[u].right \in DOMAIN c /\ c[ts[u].right].left = u
        BY <1>7, <4>1, <4>2, Zenon
      <4> QED
        BY <3>1, <3>3, <4>1, <4>3, Zenon
    <3> QED
      BY <3>2, <3>3
  <2> QED
    BY <2>1, <2>2, <2>3
<1>17. \A r \in h : First(r) \in DOMAIN c /\ c[First(r)].left = NULL
  <2> TAKE r \in h
  <2>1. First(r) \in DOMAIN ts /\ ts[First(r)].left = NULL
    BY Zenon DEF Ground
  <2>2. First(r) # NULL
    BY <1>1, RangeFacts DEF Ranges, NULL
  <2>3. First(r) # right
    BY <1>5, <1>14, <2>1, <2>2, Zenon
  <2> QED
    BY <1>7, <2>1, <2>3, Zenon
<1>18. LeftRight(c, h)
  BY <1>15, <1>16, Zenon DEF LeftRight
<1> QED
  BY <1>1, <1>10, <1>11, <1>12, <1>17, <1>18, Zenon DEF Ground, c

\* What a join makes of t, the tag behind it and the one behind that.
JoinParts(j, t, next, right) ==
    /\ next \in DOMAIN tags /\ next # t /\ right # t /\ right # next
    /\ next = End(tags, t) /\ tags[next].left = t /\ next # NULL
    /\ right # NULL => /\ right = End(tags, next) /\ right \in DOMAIN tags
                       /\ tags[right].left = next
    /\ DOMAIN j = DOMAIN tags \ {next}
    /\ j \in [DOMAIN j -> TagSet]
    /\ j[t].real = tags[t].real + tags[next].real
    /\ j[t].size = tags[t].size /\ j[t].index = -1
    /\ j[t].left = tags[t].left /\ j[t].right = right
    /\ right \in DOMAIN tags => j[right].left = t
    /\ \A u \in DOMAIN tags \ {t, next} : /\ j[u].real = tags[u].real
                                          /\ j[u].right = tags[u].right
                                          /\ j[u].size = tags[u].size
                                          /\ j[u].index = tags[u].index
    /\ \A u \in DOMAIN tags \ {next, right} : j[u].left = tags[u].left

LEMMA JoinShape ==
    ASSUME Ground(tags, held), NEW t \in DOMAIN tags, tags[t].right # NULL
    PROVE  JoinParts(Joined(t), t, tags[t].right, tags[tags[t].right].right)
<1> DEFINE next == tags[t].right
           right == tags[next].right
           j == Joined(t)
<1>1. Typed(tags)
  BY DEF Ground
<1>2. next = End(tags, t) /\ next \in DOMAIN tags /\ tags[next].left = t /\ next # t
  BY RightFacts, Zenon
<1>3. right # NULL => /\ right = End(tags, next) /\ right \in DOMAIN tags
                      /\ tags[right].left = next /\ right # next
  BY <1>2, RightFacts, Zenon
<1>4. /\ t \in Nat /\ 0 < t /\ t < End(tags, t) /\ tags[t].real \in Nat
      /\ tags[t] \in TagSet /\ tags[t].left \in Nat /\ tags[t].size \in Nat
  BY <1>1, TagTypes, Zenon
<1>5. /\ next \in Nat /\ 0 < next /\ next < End(tags, next) /\ tags[next].real \in Nat
      /\ right \in Nat /\ End(tags, next) \in Nat
  BY <1>1, <1>2, TagTypes, Zenon
<1>6. right # t /\ right # next
  BY <1>2, <1>3, <1>4, <1>5 DEF NULL
<1>7. tags[t].real + tags[next].real \in Nat
  BY <1>4, <1>5
<1> DEFINE A == [tags[t] EXCEPT !.real = @ + tags[next].real, !.right = right, !.index = -1]
           B(u) == [tags[u] EXCEPT !.left = t]
<1>8. j = [u \in DOMAIN tags \ {next} |->
             CASE u = t -> A
               [] u = right -> B(u)
               [] OTHER -> tags[u]]
  BY DEF Joined
<1> HIDE DEF j
<1>9. A = TagOf(tags[t].real + tags[next].real, tags[t].size, -1, tags[t].left, right)
  <2>1. \A a, b, c : [tags[t] EXCEPT !.real = a, !.right = b, !.index = c]
                         = TagOf(a, tags[t].size, c, tags[t].left, b)
    BY <1>4, TagFields, Zenon
  <2> QED
    BY <2>1, Zenon
<1>10. right \in DOMAIN tags =>
          B(right) = TagOf(tags[right].real, tags[right].size, tags[right].index, t,
                           tags[right].right)
  BY <1>1, TagTypes, TagFields, Zenon
<1>11. A \in TagSet /\ (right \in DOMAIN tags => B(right) \in TagSet)
  <2>1. -1 \in Exps \cup {-1}
    OBVIOUS
  <2>2. TagOf(tags[t].real + tags[next].real, tags[t].size, -1, tags[t].left, right) \in TagSet
    BY <1>4, <1>5, <1>7, <2>1, TagIn, Zenon
  <2>3. right \in DOMAIN tags =>
           TagOf(tags[right].real, tags[right].size, tags[right].index, t,
                 tags[right].right) \in TagSet
    BY <1>1, <1>4, TagTypes, TagIn, Zenon
  <2> QED
    BY <1>9, <1>10, <2>2, <2>3, Zenon
<1> HIDE DEF A, B, next, right
<1>12. DOMAIN j = DOMAIN tags \ {next}
  BY <1>8, Zenon
<1>13. j[t] = A
  BY <1>2, <1>6, <1>8
<1>14. right \in DOMAIN tags => j[right] = B(right)
  BY <1>6, <1>8
<1>15. \A u \in DOMAIN tags \ {t, next, right} : j[u] = tags[u]
  BY <1>8
<1>16. j \in [DOMAIN j -> TagSet]
  <2>1. \A u \in DOMAIN j : j[u] \in TagSet
    BY <1>1, <1>11, <1>12, <1>13, <1>14, <1>15, TagTypes, Zenon
  <2> QED
    BY <1>8, <2>1
<1>17. /\ j[t].real = tags[t].real + tags[next].real
       /\ j[t].size = tags[t].size /\ j[t].index = -1
       /\ j[t].left = tags[t].left /\ j[t].right = right
  BY <1>9, <1>13 DEF TagOf
<1>18. right \in DOMAIN tags =>
          /\ j[right].real = tags[right].real /\ j[right].size = tags[right].size
          /\ j[right].index = tags[right].index /\ j[right].left = t
          /\ j[right].right = tags[right].right
  BY <1>10, <1>14 DEF TagOf
<1>19. \A u \in DOMAIN tags \ {t, next} : /\ j[u].real = tags[u].real
                                          /\ j[u].right = tags[u].right
                                          /\ j[u].size = tags[u].size
                                          /\ j[u].index = tags[u].index
  BY <1>15, <1>18, Zenon
<1>20. \A u \in DOMAIN tags \ {next, right} : j[u].left = tags[u].left
  BY <1>15, <1>17, Zenon
<1>21. next # NULL
  BY Zenon DEF next
<1>22. JoinParts(j, t, next, right)
  BY <1>2, <1>3, <1>6, <1>12, <1>16, <1>17, <1>18, <1>19, <1>20, <1>21, Zenon DEF JoinParts
<1> QED
  BY <1>22, Zenon DEF j, next, right

\* A join leaves the tags on the ground.
LEMMA JoinKeeps ==
    ASSUME Laws, Ground(tags, held), NEW t \in DOMAIN tags, tags[t].right # NULL
    PROVE  Ground(Joined(t), held)
<1> DEFINE next == tags[t].right
           right == tags[next].right
           j == Joined(t)
<1>1. /\ Typed(tags) /\ Apart(tags) /\ Inside(tags, held) /\ LeftRight(tags, held)
      /\ Ranges(held)
  BY DEF Ground
<1>2. JoinParts(j, t, next, right)
  BY JoinShape, Zenon
<1>3. \A u \in DOMAIN tags :
          /\ IF tags[u].left = NULL
             THEN \E r \in held : u = First(r)
             ELSE tags[u].left \in DOMAIN tags /\ tags[tags[u].left].right = u
          /\ IF tags[u].right = NULL
             THEN \E r \in held : End(tags, u) = Last(r)
             ELSE /\ tags[u].right = End(tags, u)
                  /\ tags[u].right \in DOMAIN tags
                  /\ tags[tags[u].right].left = u
  BY <1>1, Zenon DEF LeftRight
<1>4. tags[t].right = next /\ tags[next].right = right
  OBVIOUS
<1> HIDE DEF next, right, j
<1>5. /\ next \in DOMAIN tags /\ next # t /\ right # t /\ right # next
      /\ next = End(tags, t) /\ tags[next].left = t /\ next # NULL
      /\ right # NULL => /\ right = End(tags, next) /\ right \in DOMAIN tags
                         /\ tags[right].left = next
      /\ DOMAIN j = DOMAIN tags \ {next}
      /\ j \in [DOMAIN j -> TagSet]
      /\ j[t].real = tags[t].real + tags[next].real
      /\ j[t].left = tags[t].left /\ j[t].right = right
      /\ right \in DOMAIN tags => j[right].left = t
      /\ \A u \in DOMAIN tags \ {t, next} : /\ j[u].real = tags[u].real
                                            /\ j[u].right = tags[u].right
      /\ \A u \in DOMAIN tags \ {next, right} : j[u].left = tags[u].left
  BY <1>2, Zenon DEF JoinParts
<1>6. \A u \in DOMAIN tags : /\ u \in Nat /\ End(tags, u) \in Nat /\ u < End(tags, u)
                             /\ tags[u].real \in Nat /\ End(tags, u) = u + tags[u].real
                             /\ u # NULL /\ TAG <= tags[u].real
  <2> TAKE u \in DOMAIN tags
  <2>1. /\ u \in Nat /\ End(tags, u) \in Nat /\ u < End(tags, u) /\ 0 < u
        /\ tags[u].real \in Nat /\ End(tags, u) = u + tags[u].real
        /\ TAG <= tags[u].real
    BY <1>1, TagTypes, Zenon
  <2> QED
    BY <2>1 DEF NULL
<1>7. /\ End(j, t) = End(tags, next)
      /\ \A u \in DOMAIN tags \ {t, next} : End(j, u) = End(tags, u)
  <2>1. t + (tags[t].real + tags[next].real) = next + tags[next].real
    BY <1>5, <1>6
  <2> QED
    BY <1>5, <1>6, <2>1, Zenon DEF End
<1>8. Typed(j)
  <2>1. IsFiniteSet(DOMAIN j)
    <3>1. IsFiniteSet(DOMAIN tags)
      BY <1>1, Zenon DEF Typed
    <3>2. IsFiniteSet(DOMAIN tags \ {next})
      BY <3>1, TakeOne, Zenon
    <3> QED
      BY <1>5, <3>2, Zenon
  <2>2. DOMAIN j \subseteq Nat \ {0}
    BY <1>1, <1>5, Zenon DEF Typed
  <2>3. \A u \in DOMAIN j : TAG <= j[u].real
    <3>1. TAG <= j[t].real
      BY <1>5, <1>6, Consts
    <3> QED
      BY <1>5, <1>6, <3>1, Zenon
  <2> QED
    BY <1>5, <2>1, <2>2, <2>3, Zenon DEF Typed
<1>9. Apart(j)
  <2>1. \A u \in DOMAIN tags \ {t, next} : End(j, t) <= u \/ End(j, u) <= t
    <3> TAKE u \in DOMAIN tags \ {t, next}
    <3>1. End(tags, t) <= u \/ End(tags, u) <= t
      BY <1>1, Zenon DEF Apart
    <3>2. End(tags, next) <= u \/ End(tags, u) <= next
      BY <1>1, <1>5, Zenon DEF Apart
    <3> QED
      BY <1>5, <1>6, <1>7, <3>1, <3>2
  <2>2. \A u, v \in DOMAIN tags \ {t, next} : u # v => End(j, u) <= v \/ End(j, v) <= u
    BY <1>1, <1>7, Zenon DEF Apart
  <2> QED
    BY <1>5, <2>1, <2>2, Zenon DEF Apart
<1>10. Inside(j, held)
  <2>1. \E r \in held : First(r) <= t /\ End(j, t) <= Last(r)
    <3>1. PICK r \in held : First(r) <= t /\ End(tags, t) <= Last(r)
      BY <1>1, Zenon DEF Inside
    <3>2. PICK q \in held : First(q) <= next /\ End(tags, next) <= Last(q)
      BY <1>1, <1>5, Zenon DEF Inside
    <3>3. /\ First(r) \in Nat /\ Last(r) \in Nat /\ First(q) \in Nat /\ Last(q) \in Nat
      BY <1>1, RangeFacts DEF Ranges
    <3>4. next # First(q)
      <4>1. tags[First(q)].left = NULL
        BY Zenon DEF Ground
      <4> QED
        BY <1>5, <1>6, <4>1, Zenon
    <3>5. r = q
      <4> SUFFICES ASSUME r # q PROVE FALSE
        OBVIOUS
      <4>1. Last(r) <= First(q) \/ Last(q) <= First(r)
        BY <1>1, RangesApart, Zenon
      <4> QED
        BY <1>5, <1>6, <3>1, <3>2, <3>3, <3>4, <4>1
    <3> QED
      BY <1>7, <3>1, <3>2, <3>5, Zenon
  <2> QED
    BY <1>1, <1>5, <1>7, <2>1, Zenon DEF Inside
<1>11. \A u \in DOMAIN j : IF j[u].left = NULL
                           THEN \E r \in held : u = First(r)
                           ELSE j[u].left \in DOMAIN j /\ j[j[u].left].right = u
  <2> TAKE u \in DOMAIN j
  <2>1. u \in DOMAIN tags /\ u # next /\ t \in DOMAIN j
    BY <1>5, Zenon
  <2>2. CASE u = right
    BY <1>5, <1>6, <2>1, <2>2, Zenon
  <2>3. CASE u # right
    <3>1. j[u].left = tags[u].left
      BY <1>5, <2>1, <2>3, Zenon
    <3>2. CASE tags[u].left = NULL
      <4>1. \E r \in held : u = First(r)
        BY <1>3, <2>1, <3>2, Zenon
      <4> QED
        BY <3>1, <3>2, <4>1, Zenon
    <3>3. CASE tags[u].left # NULL
      <4>1. tags[u].left \in DOMAIN tags /\ tags[tags[u].left].right = u
        BY <1>3, <2>1, <3>3, Zenon
      <4>2. tags[u].left # next /\ tags[u].left # t
        BY <1>4, <2>1, <2>3, <4>1, Zenon
      <4>3. tags[u].left \in DOMAIN j /\ j[tags[u].left].right = u
        BY <1>5, <4>1, <4>2, Zenon
      <4> QED
        BY <3>1, <3>3, <4>3, Zenon
    <3> QED
      BY <3>2, <3>3
  <2> QED
    BY <2>2, <2>3
<1>12. \A u \in DOMAIN j : IF j[u].right = NULL
                           THEN \E r \in held : End(j, u) = Last(r)
                           ELSE /\ j[u].right = End(j, u)
                                /\ j[u].right \in DOMAIN j
                                /\ j[j[u].right].left = u
  <2> TAKE u \in DOMAIN j
  <2>1. u \in DOMAIN tags /\ u # next
    BY <1>5, Zenon
  <2>2. CASE u = t
    <3>1. CASE right = NULL
      <4>1. \E r \in held : End(tags, next) = Last(r)
        BY <1>3, <1>4, <1>5, <3>1, Zenon
      <4> QED
        BY <1>5, <1>7, <2>2, <3>1, <4>1, Zenon
    <3>2. CASE right # NULL
      BY <1>5, <1>7, <2>2, <3>2, Zenon
    <3> QED
      BY <3>1, <3>2
  <2>3. CASE u # t
    <3>1. j[u].right = tags[u].right /\ End(j, u) = End(tags, u)
      BY <1>5, <1>7, <2>1, <2>3, Zenon
    <3>2. CASE tags[u].right = NULL
      <4>1. \E r \in held : End(tags, u) = Last(r)
        BY <1>3, <2>1, <3>2, Zenon
      <4> QED
        BY <3>1, <3>2, <4>1, Zenon
    <3>3. CASE tags[u].right # NULL
      <4>1. /\ tags[u].right = End(tags, u) /\ tags[u].right \in DOMAIN tags
            /\ tags[tags[u].right].left = u
        BY <1>3, <2>1, <3>3, Zenon
      <4>2. tags[u].right # next /\ tags[u].right # right
        BY <1>5, <2>1, <2>3, <3>3, <4>1, Zenon
      <4>3. tags[u].right \in DOMAIN j /\ j[tags[u].right].left = u
        BY <1>5, <4>1, <4>2, Zenon
      <4> QED
        BY <3>1, <3>3, <4>1, <4>3, Zenon
    <3> QED
      BY <3>2, <3>3
  <2> QED
    BY <2>2, <2>3
<1>13. \A r \in held : First(r) \in DOMAIN j /\ j[First(r)].left = NULL
  <2> TAKE r \in held
  <2>1. First(r) \in DOMAIN tags /\ tags[First(r)].left = NULL
    BY Zenon DEF Ground
  <2>2. First(r) # next /\ First(r) # right
    BY <1>5, <1>6, <2>1, Zenon
  <2> QED
    BY <1>5, <2>1, <2>2, Zenon
<1>14. LeftRight(j, held)
  BY <1>11, <1>12, Zenon DEF LeftRight
<1> QED
  BY <1>1, <1>8, <1>9, <1>10, <1>13, <1>14, Zenon DEF Ground, j

\* Ranges without a common page lie apart.
LEMMA PagesApart ==
    ASSUME NEW r \in RangeSet, NEW q \in RangeSet, PagesOf(q) \cap PagesOf(r) = {}
    PROVE  r.base + r.n <= q.base \/ q.base + q.n <= r.base
<1>1. r.base \in Nat /\ q.base \in Nat /\ r.n \in Nat \ {0} /\ q.n \in Nat \ {0}
  BY RangeFacts
<1> DEFINE x == IF r.base <= q.base THEN q.base ELSE r.base
<1>2. ~(x \in PagesOf(q) /\ x \in PagesOf(r))
  BY Zenon
<1> QED
  BY <1>1, <1>2 DEF PagesOf

\* A tag made of new pages is on the ground.
Grown(ts, t, new) == [u \in DOMAIN ts \cup {t} |-> IF u = t THEN new ELSE ts[u]]

LEMMA GrowKeeps ==
    ASSUME Laws, Ground(tags, held), NEW r \in RangeSet, l_pageCount <= r.n,
           \A q \in held : PagesOf(q) \cap PagesOf(r) = {},
           NEW new \in TagSet, new.real = r.n * PAGE, new.left = NULL, new.right = NULL
    PROVE  /\ Ground(Grown(tags, First(r), new), held \cup {r})
           /\ First(r) \notin DOMAIN tags
<1> DEFINE t == First(r)
           g == Grown(tags, t, new)
           h == held \cup {r}
<1>1. /\ Typed(tags) /\ Apart(tags) /\ Inside(tags, held) /\ LeftRight(tags, held)
      /\ Ranges(held)
  BY DEF Ground
<1>2. /\ t \in Nat \ {0} /\ t \in Nat /\ Last(r) \in Nat /\ t < Last(r)
      /\ Last(r) = t + r.n * PAGE
      /\ r.n \in Nat /\ r.n > 0
  BY RangeFacts
<1>3. Ranges(h)
  <2>1. h \subseteq RangeSet /\ \A q \in h : l_pageCount <= q.n
    BY <1>1, Zenon DEF Ranges
  <2>2. \A q \in held : r.base + r.n <= q.base \/ q.base + q.n <= r.base
    BY <1>1, PagesApart, Zenon DEF Ranges
  <2>3. \A p, q \in held : p # q => p.base + p.n <= q.base \/ q.base + q.n <= p.base
    BY <1>1, Zenon DEF Ranges
  <2>4. \A p, q \in h : p # q => p.base + p.n <= q.base \/ q.base + q.n <= p.base
    BY <2>2, <2>3, Zenon
  <2> QED
    BY <2>1, <2>4, Zenon DEF Ranges
<1>4. r \notin held
  <2>1. r.base \in PagesOf(r)
    BY RangeFacts DEF PagesOf
  <2> QED
    BY <2>1, Zenon
<1>5. \A u \in DOMAIN tags : /\ u \in Nat /\ End(tags, u) \in Nat /\ u < End(tags, u)
                             /\ u # NULL
  <2> TAKE u \in DOMAIN tags
  <2>1. u \in Nat /\ End(tags, u) \in Nat /\ u < End(tags, u) /\ 0 < u
    BY <1>1, TagTypes, Zenon
  <2> QED
    BY <2>1 DEF NULL
<1>6. \A u \in DOMAIN tags : End(tags, u) <= t \/ Last(r) <= u
  <2> TAKE u \in DOMAIN tags
  <2>1. PICK q \in held : First(q) <= u /\ End(tags, u) <= Last(q)
    BY <1>1, Zenon DEF Inside
  <2>2. Last(r) <= First(q) \/ Last(q) <= First(r)
    <3>1. r \in h /\ q \in h /\ r # q
      BY <1>4, Zenon
    <3> HIDE DEF h
    <3> QED
      BY <1>3, <3>1, RangesApart, Zenon
  <2>3. First(q) \in Nat /\ Last(q) \in Nat
    BY <1>1, RangeFacts DEF Ranges
  <2> QED
    BY <1>2, <1>5, <2>1, <2>2, <2>3
<1>7. t \notin DOMAIN tags
  BY <1>2, <1>5, <1>6
<1> HIDE DEF t, h
<1>8. /\ DOMAIN g = DOMAIN tags \cup {t} /\ g[t] = new
      /\ \A u \in DOMAIN tags : g[u] = tags[u]
      /\ g = [u \in DOMAIN g |-> g[u]]
  BY <1>7 DEF Grown
<1> HIDE DEF g
<1>9. g[t].real = r.n * PAGE /\ g[t].left = NULL /\ g[t].right = NULL
  BY <1>8, Zenon
<1>10. End(g, t) = Last(r) /\ \A u \in DOMAIN tags : End(g, u) = End(tags, u)
  BY <1>2, <1>8, <1>9, Zenon DEF End
<1>11. Typed(g)
  <2>1. IsFiniteSet(DOMAIN g)
    <3>1. IsFiniteSet(DOMAIN tags)
      BY <1>1, Zenon DEF Typed
    <3>2. IsFiniteSet(DOMAIN tags \cup {t})
      BY <3>1, AddOne, Zenon
    <3> QED
      BY <1>8, <3>2, Zenon
  <2>2. DOMAIN g \subseteq Nat \ {0}
    BY <1>1, <1>2, <1>8, Zenon DEF Typed
  <2>3. TAG <= g[t].real
    <3>1. PAGE <= r.n * PAGE /\ r.n * PAGE \in Nat
      BY <1>2, Consts, TimesOrder
    <3> QED
      BY <1>9, <3>1, Consts
  <2>4. \A u \in DOMAIN g : TAG <= g[u].real
    BY <1>1, <1>8, <2>3, Zenon DEF Typed
  <2>5. \A u \in DOMAIN g : g[u] \in TagSet
    BY <1>1, <1>8, TagTypes, Zenon
  <2>6. g \in [DOMAIN g -> TagSet]
    BY <1>8, <2>5
  <2> QED
    BY <2>1, <2>2, <2>4, <2>6, Zenon DEF Typed
<1>12. Apart(g)
  <2>1. \A u \in DOMAIN tags : End(g, u) <= t \/ End(g, t) <= u
    BY <1>6, <1>10, Zenon
  <2>2. \A u, v \in DOMAIN tags : u # v => End(g, u) <= v \/ End(g, v) <= u
    BY <1>1, <1>10, Zenon DEF Apart
  <2> QED
    BY <1>8, <2>1, <2>2, Zenon DEF Apart
<1>13. Inside(g, h)
  <2>1. r \in h /\ \A q \in held : q \in h
    BY Zenon DEF h
  <2>2. First(r) <= t /\ End(g, t) <= Last(r)
    BY <1>2, <1>10 DEF t
  <2>3. \A u \in DOMAIN tags : \E q \in held : First(q) <= u /\ End(g, u) <= Last(q)
    BY <1>1, <1>10, Zenon DEF Inside
  <2> QED
    BY <1>8, <2>1, <2>2, <2>3, Zenon DEF Inside
<1>14. LeftRight(g, h)
  <2> SUFFICES ASSUME NEW u \in DOMAIN g
               PROVE  /\ IF g[u].left = NULL
                         THEN \E q \in h : u = First(q)
                         ELSE g[u].left \in DOMAIN g /\ g[g[u].left].right = u
                      /\ IF g[u].right = NULL
                         THEN \E q \in h : End(g, u) = Last(q)
                         ELSE /\ g[u].right = End(g, u)
                              /\ g[u].right \in DOMAIN g
                              /\ g[g[u].right].left = u
    BY Zenon DEF LeftRight
  <2>1. CASE u = t
    BY <1>9, <1>10, <2>1, Zenon DEF h, t
  <2>2. CASE u # t
    <3>1. u \in DOMAIN tags /\ g[u] = tags[u] /\ End(g, u) = End(tags, u)
      BY <1>8, <1>10, <2>2, Zenon
    <3>2. /\ IF tags[u].left = NULL
             THEN \E q \in held : u = First(q)
             ELSE tags[u].left \in DOMAIN tags /\ tags[tags[u].left].right = u
          /\ IF tags[u].right = NULL
             THEN \E q \in held : End(tags, u) = Last(q)
             ELSE /\ tags[u].right = End(tags, u)
                  /\ tags[u].right \in DOMAIN tags
                  /\ tags[tags[u].right].left = u
      BY <1>1, <3>1, Zenon DEF LeftRight
    <3>3. IF g[u].left = NULL
          THEN \E q \in h : u = First(q)
          ELSE g[u].left \in DOMAIN g /\ g[g[u].left].right = u
      BY <1>8, <3>1, <3>2, Zenon DEF h
    <3>4. IF g[u].right = NULL
          THEN \E q \in h : End(g, u) = Last(q)
          ELSE /\ g[u].right = End(g, u)
               /\ g[u].right \in DOMAIN g
               /\ g[g[u].right].left = u
      BY <1>8, <3>1, <3>2, Zenon DEF h
    <3> QED
      BY <3>3, <3>4
  <2> QED
    BY <2>1, <2>2
<1>15. \A q \in h : First(q) \in DOMAIN g /\ g[First(q)].left = NULL
  <2>1. \A q \in held : First(q) \in DOMAIN tags /\ tags[First(q)].left = NULL
    BY Zenon DEF Ground
  <2> QED
    BY <1>8, <1>9, <2>1, Zenon DEF h, t
<1> QED
  BY <1>3, <1>7, <1>11, <1>12, <1>13, <1>14, <1>15, Zenon DEF Ground, g, h, t

-----------------------------------------------------------------------------

\* A whole tag is a range.
LEMMA WholeIsRange ==
    ASSUME Ground(tags, held), NEW t \in DOMAIN tags, Whole(t)
    PROVE  \E r \in held : t = First(r) /\ End(tags, t) = Last(r)
<1>1. Typed(tags) /\ Inside(tags, held) /\ LeftRight(tags, held) /\ Ranges(held)
  BY DEF Ground
<1>2. tags[t].left = NULL /\ tags[t].right = NULL
  BY DEF Whole
<1>3. PICK r \in held : t = First(r)
  BY <1>1, <1>2, Zenon DEF LeftRight
<1>4. PICK q \in held : End(tags, t) = Last(q)
  BY <1>1, <1>2, Zenon DEF LeftRight
<1>5. PICK p \in held : First(p) <= t /\ End(tags, t) <= Last(p)
  BY <1>1, Zenon DEF Inside
<1>6. /\ First(r) \in Nat /\ Last(r) \in Nat /\ First(r) < Last(r)
      /\ First(q) \in Nat /\ Last(q) \in Nat /\ First(q) < Last(q)
      /\ First(p) \in Nat /\ Last(p) \in Nat
  BY <1>1, RangeFacts DEF Ranges
<1>7. t \in Nat /\ End(tags, t) \in Nat /\ t < End(tags, t)
  BY <1>1, TagTypes, Zenon
<1>8. r = p
  <2>1. First(r) <= t /\ t < Last(r) /\ First(p) <= t /\ t < Last(p)
    BY <1>3, <1>5, <1>6, <1>7
  <2> QED
    BY <1>1, <1>7, <2>1, OneRange, Zenon
<1>9. q = p
  <2> DEFINE x == End(tags, t) - 1
  <2>1. x \in Nat /\ First(q) <= x /\ x < Last(q) /\ First(p) <= x /\ x < Last(p)
    BY <1>4, <1>5, <1>6, <1>7
  <2> HIDE DEF x
  <2> QED
    BY <1>1, <2>1, OneRange, Zenon
<1> QED
  BY <1>3, <1>4, <1>8, <1>9, Zenon

\* A whole tag goes with its range.
LEMMA ReleaseKeeps ==
    ASSUME Laws, Ground(tags, held), NEW t \in DOMAIN tags, Whole(t), NEW r \in held,
           t = First(r), End(tags, t) = Last(r)
    PROVE  Ground([u \in DOMAIN tags \ {t} |-> tags[u]], held \ {r})
<1> DEFINE g == [u \in DOMAIN tags \ {t} |-> tags[u]]
           h == held \ {r}
<1>1. /\ Typed(tags) /\ Apart(tags) /\ Inside(tags, held) /\ LeftRight(tags, held)
      /\ Ranges(held)
  BY DEF Ground
<1>2. /\ DOMAIN g = DOMAIN tags \ {t}
      /\ \A u \in DOMAIN g : g[u] = tags[u]
      /\ g = [u \in DOMAIN g |-> g[u]]
  OBVIOUS
<1> HIDE DEF g, h
<1>3. tags[t].left = NULL /\ tags[t].right = NULL
  BY DEF Whole
<1>4. \A u \in DOMAIN tags : /\ u \in Nat /\ End(tags, u) \in Nat /\ u < End(tags, u)
                             /\ u # NULL
  <2> TAKE u \in DOMAIN tags
  <2>1. u \in Nat /\ End(tags, u) \in Nat /\ u < End(tags, u) /\ 0 < u
    BY <1>1, TagTypes, Zenon
  <2> QED
    BY <2>1 DEF NULL
<1>5. \A u \in DOMAIN g : End(g, u) = End(tags, u)
  BY <1>2, Zenon DEF End
<1>6. Typed(g)
  <2>1. IsFiniteSet(DOMAIN g)
    <3>1. IsFiniteSet(DOMAIN tags)
      BY <1>1, Zenon DEF Typed
    <3>2. IsFiniteSet(DOMAIN tags \ {t})
      BY <3>1, TakeOne, Zenon
    <3> QED
      BY <1>2, <3>2, Zenon
  <2>2. DOMAIN g \subseteq Nat \ {0} /\ \A u \in DOMAIN g : TAG <= g[u].real
    BY <1>1, <1>2, Zenon DEF Typed
  <2>3. \A u \in DOMAIN g : g[u] \in TagSet
    BY <1>1, <1>2, TagTypes, Zenon
  <2>4. g \in [DOMAIN g -> TagSet]
    BY <1>2, <2>3
  <2> QED
    BY <2>1, <2>2, <2>4, Zenon DEF Typed
<1>7. Apart(g)
  BY <1>1, <1>2, <1>5, Zenon DEF Apart
<1>8. Ranges(h)
  BY <1>1, Zenon DEF Ranges, h
<1>9. Inside(g, h)
  <2> SUFFICES ASSUME NEW u \in DOMAIN g
               PROVE  \E q \in h : First(q) <= u /\ End(g, u) <= Last(q)
    BY Zenon DEF Inside
  <2>1. u \in DOMAIN tags /\ u # t /\ End(g, u) = End(tags, u)
    BY <1>2, <1>5, Zenon
  <2>2. PICK q \in held : First(q) <= u /\ End(tags, u) <= Last(q)
    BY <1>1, <2>1, Zenon DEF Inside
  <2>3. q # r
    <3> SUFFICES ASSUME q = r PROVE FALSE
      OBVIOUS
    <3>1. End(tags, t) <= u \/ End(tags, u) <= t
      BY <1>1, <2>1, Zenon DEF Apart
    <3> QED
      BY <1>4, <2>1, <2>2, <3>1
  <2> QED
    BY <2>1, <2>2, <2>3, Zenon DEF h
<1>10. LeftRight(g, h)
  <2> SUFFICES ASSUME NEW u \in DOMAIN g
               PROVE  /\ IF g[u].left = NULL
                         THEN \E q \in h : u = First(q)
                         ELSE g[u].left \in DOMAIN g /\ g[g[u].left].right = u
                      /\ IF g[u].right = NULL
                         THEN \E q \in h : End(g, u) = Last(q)
                         ELSE /\ g[u].right = End(g, u)
                              /\ g[u].right \in DOMAIN g
                              /\ g[g[u].right].left = u
    BY Zenon DEF LeftRight
  <2>1. u \in DOMAIN tags /\ u # t /\ g[u] = tags[u] /\ End(g, u) = End(tags, u)
    BY <1>2, <1>5, Zenon
  <2>2. /\ IF tags[u].left = NULL
           THEN \E q \in held : u = First(q)
           ELSE tags[u].left \in DOMAIN tags /\ tags[tags[u].left].right = u
        /\ IF tags[u].right = NULL
           THEN \E q \in held : End(tags, u) = Last(q)
           ELSE /\ tags[u].right = End(tags, u)
                /\ tags[u].right \in DOMAIN tags
                /\ tags[tags[u].right].left = u
    BY <1>1, <2>1, Zenon DEF LeftRight
  <2>3. \A q \in held : u = First(q) => q \in h
    BY <2>1, Zenon DEF h
  <2>4. \A q \in held : End(tags, u) = Last(q) => q \in h
    <3> SUFFICES ASSUME End(tags, u) = Last(r) PROVE FALSE
      BY Zenon DEF h
    <3>1. End(tags, t) <= u \/ End(tags, u) <= t
      BY <1>1, <2>1, Zenon DEF Apart
    <3> QED
      BY <1>4, <2>1, <3>1
  <2>5. tags[u].left # NULL => tags[u].left # t
    BY <1>3, <1>4, <2>1, <2>2, Zenon
  <2>6. tags[u].right # NULL => tags[u].right # t
    BY <1>3, <1>4, <2>1, <2>2, Zenon
  <2>7. IF tags[u].left = NULL
        THEN \E q \in h : u = First(q)
        ELSE tags[u].left \in DOMAIN g /\ g[tags[u].left].right = u
    BY <1>2, <2>2, <2>3, <2>5, Zenon
  <2>8. IF tags[u].right = NULL
        THEN \E q \in h : End(tags, u) = Last(q)
        ELSE /\ tags[u].right = End(tags, u)
             /\ tags[u].right \in DOMAIN g
             /\ g[tags[u].right].left = u
    BY <1>2, <2>2, <2>4, <2>6, Zenon
  <2> QED
    BY <2>1, <2>7, <2>8, Zenon
<1>11. \A q \in h : First(q) \in DOMAIN g /\ g[First(q)].left = NULL
  <2> TAKE q \in h
  <2>1. q \in held /\ q # r
    BY Zenon DEF h
  <2>2. First(q) \in DOMAIN tags /\ tags[First(q)].left = NULL
    BY <2>1, Zenon DEF Ground
  <2>3. Last(r) <= First(q) \/ Last(q) <= First(r)
    BY <1>1, <2>1, RangesApart, Zenon
  <2>4. /\ First(r) \in Nat /\ Last(r) \in Nat /\ First(r) < Last(r)
        /\ First(q) \in Nat /\ Last(q) \in Nat /\ First(q) < Last(q)
    BY <1>1, <2>1, RangeFacts DEF Ranges
  <2>5. First(q) # t
    BY <2>3, <2>4
  <2> QED
    BY <1>2, <2>2, <2>5, Zenon
<1> QED
  BY <1>6, <1>7, <1>8, <1>9, <1>10, <1>11, Zenon DEF Ground, g, h

LEMMA DivFacts ==
    ASSUME NEW q \in Nat, NEW p \in Nat \ {0}
    PROVE  (q * p) \div p = q /\ (q * p + p - 1) \div p = q
<1>1. \A a \in Nat : \A d \in Nat : a = q * p + d /\ d < p => a \div p = q
  <2> TAKE a \in Nat
  <2> TAKE d \in Nat
  <2> HAVE a = q * p + d /\ d < p
  <2> DEFINE x == a \div p
  <2>1. x \in Int /\ x * p <= a /\ a < (x + 1) * p
    OBVIOUS
  <2> HIDE DEF x
  <2>2. x <= q
    <3> SUFFICES ASSUME x >= q + 1 PROVE FALSE
      BY <2>1
    <3>1. x * p >= (q + 1) * p /\ (q + 1) * p = q * p + p /\ q * p \in Nat
      BY <2>1
    <3> QED
      BY <2>1, <3>1
  <2>3. x >= q
    <3> SUFFICES ASSUME x + 1 <= q PROVE FALSE
      BY <2>1
    <3>1. (x + 1) * p <= q * p /\ q * p \in Nat /\ (x + 1) * p \in Int
      BY <2>1
    <3> QED
      BY <2>1, <3>1
  <2> QED
    BY <2>1, <2>2, <2>3 DEF x
<1>2. /\ q * p \in Nat /\ q * p + p - 1 \in Nat /\ q * p = q * p + 0 /\ 0 < p
      /\ q * p + p - 1 = q * p + (p - 1) /\ p - 1 < p /\ p - 1 \in Nat
  OBVIOUS
<1> QED
  BY <1>1, <1>2

\* vmm_unmap_pages of a whole range.
LEMMA UnmapWholeRange ==
    ASSUME Ranges(held), NEW r \in held
    PROVE  UnmapRange(r.base, r.n) = held \ {r}
<1>1. /\ r \in RangeSet /\ r.base \in Nat /\ r.n \in Nat \ {0}
      /\ \A q \in held : q \in RangeSet /\ q.base \in Nat /\ q.n \in Nat \ {0}
  BY RangeFacts DEF Ranges
<1>2. \A q \in held : q # r => r.base + r.n <= q.base \/ q.base + q.n <= r.base
  BY Zenon DEF Ranges
<1>3. \A q \in held : PagesOf(q) \cap (r.base .. r.base + r.n - 1) = {} <=> q # r
  <2> TAKE q \in held
  <2>1. CASE q = r
    <3>1. r.base \in PagesOf(q) /\ r.base \in r.base .. r.base + r.n - 1
      BY <1>1, <2>1 DEF PagesOf
    <3> QED
      BY <2>1, <3>1, Zenon
  <2>2. CASE q # r
    BY <1>1, <1>2, <2>2 DEF PagesOf
  <2> QED
    BY <2>1, <2>2
<1>4. \A g \in held : r.base \in PagesOf(g) => g = r
  BY <1>1, <1>2 DEF PagesOf
<1> DEFINE A(g) == [base |-> g.base, n |-> r.base - g.base]
           B(g) == [base |-> r.base + r.n, n |-> g.base + g.n - (r.base + r.n)]
           H == {g \in held : r.base \in PagesOf(g)}
<1>5. ~(A(r).n > 0) /\ ~(B(r).n > 0)
  BY <1>1
<1>6. UnmapRange(r.base, r.n) =
         {q \in held : PagesOf(q) \cap (r.base .. r.base + r.n - 1) = {}} \cup
         {q \in UNION {{A(g), B(g)} : g \in H} : q.n > 0}
  BY DEF UnmapRange
<1> HIDE DEF A, B
<1>7. \A q \in UNION {{A(g), B(g)} : g \in H} : q = A(r) \/ q = B(r)
  BY <1>4, Zenon
<1>8. {q \in UNION {{A(g), B(g)} : g \in H} : q.n > 0} = {}
  BY <1>5, <1>7, Zenon
<1>9. {q \in held : PagesOf(q) \cap (r.base .. r.base + r.n - 1) = {}} = held \ {r}
  BY <1>3, Zenon
<1> QED
  BY <1>6, <1>8, <1>9, Zenon

-----------------------------------------------------------------------------
(* Lists, indices and counts together.                                     *)

LEMMA FreeFacts ==
    ASSUME NEW ts, Typed(ts)
    PROVE  /\ -1 \notin Exps
           /\ \A t \in DOMAIN ts : t \in Free(ts) <=> ts[t].index \in Exps
           /\ \A t \in Free(ts) : t \in DOMAIN ts
<1>1. -1 \notin Exps
  BY Consts
<1>2. \A t \in DOMAIN ts : ts[t].index \in Exps \cup {-1}
  BY TagTypes, Zenon
<1> QED
  BY <1>1, <1>2, Zenon DEF Free

\* What is in a list is a tag.
LEMMA ListedFacts ==
    ASSUME NEW ts, NEW lists, Good(lists, DOMAIN ts), NEW b \in Exps
    PROVE  Range(lists[b]) \subseteq DOMAIN ts
<1>1. lists[b] \in Seq(DOMAIN ts)
  BY Zenon DEF Good
<1>2. lists[b] \in [1 .. Len(lists[b]) -> DOMAIN ts]
  BY <1>1
<1> QED
  BY <1>2 DEF Range

\* Lists of fewer tags.
LEMMA GoodWithin ==
    ASSUME NEW S, NEW U, NEW lists, Good(lists, S),
           \A b \in Exps : Range(lists[b]) \subseteq U
    PROVE  Good(lists, U)
<1>1. lists \in [Exps -> Seq(S)] /\ \A b \in Exps : NoTwice(lists[b])
  BY Zenon DEF Good
<1>2. \A b \in Exps : lists[b] \in Seq(U)
  <2> TAKE b \in Exps
  <2>1. \A i \in DOMAIN lists[b] : lists[b][i] \in U
    BY Zenon DEF Range
  <2>2. lists[b] \in Seq(S)
    BY <1>1, Zenon
  <2> QED
    BY <2>1, <2>2, ListWithin, Zenon
<1>3. lists \in [Exps -> Seq(U)]
  BY <1>1, <1>2, Zenon
<1> QED
  BY <1>1, <1>3, Zenon DEF Good

\* List b, and no other, got or lost t.
ListMore(l, lists, t, b) ==
    /\ \A c \in Exps : t \notin Range(lists[c])
    /\ Range(l[b]) = Range(lists[b]) \cup {t}
    /\ \A c \in Exps \ {b} : l[c] = lists[c]

ListLess(l, lists, t, b) ==
    /\ t \in Range(lists[b])
    /\ Range(l[b]) = Range(lists[b]) \ {t}
    /\ \A c \in Exps \ {b} : l[c] = lists[c] /\ t \notin Range(lists[c])

FiledMore(new, l, ts, lists, t, b) ==
    /\ Filed(new, l) /\ b \in Exps /\ ListMore(l, lists, t, b)
    /\ Free(new) = Free(ts) \cup {t}

\* A tag is filed in the list of its size.
LEMMA InsertFiled ==
    ASSUME Laws, NEW ts, Typed(ts), NEW lists, Filed(ts, lists),
           NEW new, Typed(new), NEW t, DOMAIN new = DOMAIN ts \cup {t}, t \notin Free(ts),
           new[t].index = Bucket(new[t].real),
           \A u \in DOMAIN ts \ {t} : new[u].index = ts[u].index,
           \A u \in Free(ts) : new[u].real = ts[u].real,
           NEW b, b = Bucket(new[t].real)
    PROVE  FiledMore(new, insert_tag(lists, t, b), ts, lists, t, b)
<1> DEFINE l == insert_tag(lists, t, b)
<1>1. t \in DOMAIN new /\ DOMAIN ts \subseteq DOMAIN new
  BY Zenon
<1>2. b \in Exps /\ new[t].index = b
  <2>1. new[t].real \in Nat /\ TAG <= new[t].real
    BY <1>1, TagTypes, Zenon
  <2> QED
    BY <2>1, BucketIn, Zenon
<1>3. Good(lists, DOMAIN ts)
  BY Zenon DEF Filed
<1>4. \A c \in Exps : Range(lists[c]) \subseteq DOMAIN ts
  BY <1>3, ListedFacts, Zenon
<1>5. Good(lists, DOMAIN new)
  BY <1>1, <1>3, <1>4, GoodWithin, Zenon
<1>6. \A c \in Exps : t \notin Range(lists[c])
  <2> SUFFICES ASSUME NEW c \in Exps, t \in Range(lists[c]) PROVE FALSE
    OBVIOUS
  <2>1. t \in DOMAIN ts
    BY <1>4, Zenon
  <2>2. ts[t].index = c
    BY <2>1, Zenon DEF Filed
  <2> QED
    BY <2>1, <2>2, FreeFacts, Zenon
<1>7. /\ Good(l, DOMAIN new)
      /\ Range(l[b]) = Range(lists[b]) \cup {t}
      /\ \A c \in Exps \ {b} : l[c] = lists[c]
  <2>1. Inserted(l, lists, t, b, DOMAIN new)
    BY <1>1, <1>2, <1>5, <1>6, InsertKeeps, Zenon
  <2> QED
    BY <2>1, Zenon DEF Inserted
<1> HIDE DEF l
<1>8. \A c \in Exps : \A u \in DOMAIN new : u \in Range(l[c]) <=> new[u].index = c
  <2> TAKE c \in Exps
  <2> TAKE u \in DOMAIN new
  <2>1. CASE u = t
    BY <1>2, <1>6, <1>7, <2>1, Zenon
  <2>2. CASE u # t
    <3>1. u \in DOMAIN ts /\ new[u].index = ts[u].index
      BY <2>2, Zenon
    <3>2. u \in Range(lists[c]) <=> ts[u].index = c
      BY <3>1, Zenon DEF Filed
    <3>3. u \in Range(l[c]) <=> u \in Range(lists[c])
      BY <1>7, <2>2, Zenon
    <3> QED
      BY <3>1, <3>2, <3>3, Zenon
  <2> QED
    BY <2>1, <2>2
<1>9. Free(new) = Free(ts) \cup {t}
  <2>1. \A u \in DOMAIN ts \ {t} : u \in Free(new) <=> u \in Free(ts)
    BY <1>1, Zenon DEF Free
  <2>2. t \in Free(new)
    BY <1>1, <1>2, FreeFacts, Zenon
  <2>3. \A u : u \in Free(new) => u \in DOMAIN new
    BY Zenon DEF Free
  <2>4. \A u : u \in Free(ts) => u \in DOMAIN ts
    BY Zenon DEF Free
  <2> QED
    BY <2>1, <2>2, <2>3, <2>4, Zenon
<1>10. \A u \in Free(new) : new[u].index = Bucket(new[u].real)
  <2> TAKE u \in Free(new)
  <2>1. CASE u = t
    BY <2>1, Zenon
  <2>2. CASE u # t
    <3>1. u \in Free(ts) /\ u \in DOMAIN ts \ {t}
      BY <1>9, <2>2, Zenon DEF Free
    <3>2. ts[u].index = Bucket(ts[u].real)
      BY <3>1, Zenon DEF Filed
    <3> QED
      BY <3>1, <3>2, Zenon
  <2> QED
    BY <2>1, <2>2
<1> QED
  BY <1>2, <1>6, <1>7, <1>8, <1>9, <1>10, Zenon DEF Filed, FiledMore, ListMore, l

FiledLess(new, l, lists, t, b) ==
    /\ Filed(new, l) /\ b \in Exps /\ ListLess(l, lists, t, b)
    /\ Free(new) = Free(tags) \ {t}

\* A tag is taken out of its list.
LEMMA RemoveFiled ==
    ASSUME Typed(tags), NEW lists, Filed(tags, lists), NEW t \in Free(tags),
           NEW new, Typed(new), DOMAIN new \subseteq DOMAIN tags,
           t \in DOMAIN new => new[t].index = -1,
           \A u \in DOMAIN tags \ DOMAIN new : u = t \/ tags[u].index = -1,
           \A u \in DOMAIN new \ {t} : new[u].index = tags[u].index,
           \A u \in Free(tags) \ {t} : new[u].real = tags[u].real,
           NEW b, b = tags[t].index
    PROVE  FiledLess(new, remove_tag(lists, t), lists, t, b)
<1> DEFINE l == remove_tag(lists, t)
<1>1. t \in DOMAIN tags /\ b \in Exps
  BY FreeFacts, Zenon
<1>2. Good(lists, DOMAIN tags)
  BY Zenon DEF Filed
<1>3. \A c \in Exps : \A u \in DOMAIN tags : u \in Range(lists[c]) <=> tags[u].index = c
  BY Zenon DEF Filed
<1>4. t \in Range(lists[b]) /\ \A c \in Exps \ {b} : t \notin Range(lists[c])
  BY <1>1, <1>3, Zenon
<1>5. /\ Good(l, DOMAIN tags)
      /\ Range(l[b]) = Range(lists[b]) \ {t}
      /\ \A c \in Exps \ {b} : l[c] = lists[c]
  <2>1. Removed(l, lists, t, b, DOMAIN tags)
    BY <1>1, <1>2, <1>4, RemoveKeeps, Zenon
  <2> QED
    BY <2>1, Zenon DEF Removed
<1> HIDE DEF l
<1>6. \A c \in Exps : Range(l[c]) \subseteq Range(lists[c]) \ {t}
  <2> TAKE c \in Exps
  <2>1. CASE c = b
    BY <1>5, <2>1, Zenon
  <2>2. CASE c # b
    <3>1. l[c] = lists[c] /\ t \notin Range(lists[c])
      BY <1>4, <1>5, <2>2, Zenon
    <3>2. \A u \in Range(lists[c]) : u \in Range(lists[c]) \ {t}
      BY <3>1, Zenon
    <3> QED
      BY <3>1, <3>2, Zenon
  <2> QED
    BY <2>1, <2>2
<1>7. \A c \in Exps : \A u : u # t /\ u \in Range(lists[c]) => u \in Range(l[c])
  BY <1>5, Zenon
<1>8. -1 \notin Exps /\ \A c \in Exps : Range(lists[c]) \subseteq DOMAIN tags
  BY <1>2, FreeFacts, ListedFacts, Zenon
<1>9. \A c \in Exps : Range(l[c]) \subseteq DOMAIN new
  <2> SUFFICES ASSUME NEW c \in Exps, NEW u \in Range(l[c]), u \notin DOMAIN new PROVE FALSE
    BY Zenon
  <2>1. u \in Range(lists[c]) /\ u # t
    BY <1>6, Zenon
  <2>2. u \in DOMAIN tags
    BY <1>8, <2>1, Zenon
  <2>3. tags[u].index = c
    BY <1>3, <2>1, <2>2, Zenon
  <2> QED
    BY <1>8, <2>1, <2>2, <2>3, Zenon
<1>10. Good(l, DOMAIN new)
  BY <1>5, <1>9, GoodWithin, Zenon
<1>11. \A c \in Exps : \A u \in DOMAIN new : u \in Range(l[c]) <=> new[u].index = c
  <2> TAKE c \in Exps
  <2> TAKE u \in DOMAIN new
  <2>1. CASE u = t
    BY <1>6, <1>8, <2>1, Zenon
  <2>2. CASE u # t
    <3>1. u \in DOMAIN tags /\ new[u].index = tags[u].index
      BY <2>2, Zenon
    <3>2. u \in Range(l[c]) <=> u \in Range(lists[c])
      BY <1>6, <1>7, <2>2, Zenon
    <3> QED
      BY <1>3, <3>1, <3>2, Zenon
  <2> QED
    BY <2>1, <2>2
<1>12. Free(new) = Free(tags) \ {t}
  <2>1. \A u \in DOMAIN new \ {t} : u \in Free(new) <=> u \in Free(tags)
    BY Zenon DEF Free
  <2>2. t \notin Free(new)
    BY Zenon DEF Free
  <2>3. \A u : u \in Free(new) => u \in DOMAIN new
    BY Zenon DEF Free
  <2>4. \A u \in Free(tags) \ {t} : u \in DOMAIN new
    BY Zenon DEF Free
  <2> QED
    BY <2>1, <2>2, <2>3, <2>4, Zenon
<1>13. \A u \in Free(new) : new[u].index = Bucket(new[u].real)
  <2> TAKE u \in Free(new)
  <2>1. u \in Free(tags) \ {t} /\ u \in DOMAIN new \ {t}
    BY <1>12, Zenon DEF Free
  <2>2. tags[u].index = Bucket(tags[u].real)
    BY <2>1, Zenon DEF Filed
  <2> QED
    BY <2>1, <2>2, Zenon
<1> QED
  BY <1>1, <1>4, <1>5, <1>10, <1>11, <1>12, <1>13, Zenon DEF Filed, FiledLess, ListLess, l

\* Of the tags listed, only t became whole or ceased to be.
SameWholes(new, ts, lists, t) ==
    \A c \in Exps : \A u \in Range(lists[c]) \ {t} : WholeIn(new, u) <=> WholeIn(ts, u)

CountUp(counts, ts, t, b) ==
    IF WholeIn(ts, t) THEN [counts EXCEPT ![b] = @ + 1] ELSE counts

CountDown(counts, ts, t, b) ==
    IF WholeIn(ts, t) THEN [counts EXCEPT ![b] = @ - 1] ELSE counts

\* The counts when a list gets a tag.
LEMMA InsertCounted ==
    ASSUME Laws, NEW ts, NEW lists, NEW counts, Counted(ts, lists, counts),
           Good(lists, DOMAIN ts), IsFiniteSet(DOMAIN ts),
           NEW new, NEW l, NEW t, NEW b \in Exps, ListMore(l, lists, t, b),
           SameWholes(new, ts, lists, t),
           WholeIn(new, t) => counts[b] # MAXCOMPLETE
    PROVE  Counted(new, l, CountUp(counts, new, t, b))
<1> DEFINE W(c) == Wholes(ts, lists[c])
           V(c) == Wholes(new, l[c])
           counts2 == CountUp(counts, new, t, b)
<1>0. /\ \A c \in Exps : t \notin Range(lists[c])
      /\ Range(l[b]) = Range(lists[b]) \cup {t}
      /\ \A c \in Exps \ {b} : l[c] = lists[c]
      /\ \A c \in Exps : \A u \in Range(lists[c]) : WholeIn(new, u) <=> WholeIn(ts, u)
  BY Zenon DEF ListMore, SameWholes
<1>1. counts \in [Exps -> Int] /\ \A c \in Exps : counts[c] <= MAXCOMPLETE
  BY Zenon DEF Counted
<1>2. \A c \in Exps : IsFiniteSet(W(c)) /\ counts[c] = Cardinality(W(c))
  <2> TAKE c \in Exps
  <2>1. W(c) \subseteq DOMAIN ts
    BY ListedFacts, Zenon DEF Wholes
  <2> QED
    BY <2>1, FiniteWithin, Zenon DEF Counted
<1>3. \A c \in Exps \ {b} : V(c) = W(c)
  BY <1>0, Zenon DEF Wholes
<1>4. V(b) = IF WholeIn(new, t) THEN W(b) \cup {t} ELSE W(b)
  <2>1. \A u : u \in V(b) <=> u \in Range(l[b]) /\ WholeIn(new, u)
    BY Zenon DEF Wholes
  <2>2. \A u : u \in W(b) <=> u \in Range(lists[b]) /\ WholeIn(ts, u)
    BY Zenon DEF Wholes
  <2> HIDE DEF V, W
  <2>3. \A u \in Range(lists[b]) : u \in V(b) <=> u \in W(b)
    BY <1>0, <2>1, <2>2, Zenon
  <2>4. t \notin W(b) /\ (t \in V(b) <=> WholeIn(new, t))
    BY <1>0, <2>1, <2>2, Zenon
  <2>5. \A u : u \in V(b) => u \in Range(lists[b]) \/ u = t
    BY <1>0, <2>1, Zenon
  <2>6. \A u : u \in W(b) => u \in Range(lists[b])
    BY <2>2, Zenon
  <2>7. \A u : u \in V(b) <=> u \in W(b) \/ (u = t /\ WholeIn(new, t))
    BY <2>3, <2>4, <2>5, <2>6, Zenon
  <2> QED
    BY <2>7, Zenon
<1>5. t \notin W(b)
  BY <1>0, Zenon DEF Wholes
<1> HIDE DEF V, W
<1>6. Cardinality(W(b) \cup {t}) = Cardinality(W(b)) + 1
  BY <1>2, <1>5, AddOne, Zenon
<1>7. counts2 \in [Exps -> Int] /\ \A c \in Exps : counts2[c] = Cardinality(V(c)) /\ counts2[c] <= MAXCOMPLETE
  <2>1. CASE WholeIn(new, t)
    <3>1. /\ counts2 \in [Exps -> Int] /\ counts2[b] = counts[b] + 1
          /\ \A c \in Exps \ {b} : counts2[c] = counts[c]
      BY <1>1, <2>1 DEF CountUp
    <3>2. counts2[b] <= MAXCOMPLETE
      BY <1>1, <2>1, <3>1, Consts
    <3>3. counts2[b] = Cardinality(V(b))
      BY <1>2, <1>4, <1>6, <2>1, <3>1, Zenon
    <3> QED
      BY <1>1, <1>2, <1>3, <3>1, <3>2, <3>3, Zenon
  <2>2. CASE ~WholeIn(new, t)
    BY <1>1, <1>2, <1>3, <1>4, <2>2, Zenon DEF CountUp
  <2> QED
    BY <2>1, <2>2
<1> QED
  BY <1>7, Zenon DEF Counted, V

\* The counts when a list loses a tag.
LEMMA RemoveCounted ==
    ASSUME Laws, NEW ts, NEW lists, NEW counts, Counted(ts, lists, counts),
           Good(lists, DOMAIN ts), IsFiniteSet(DOMAIN ts),
           NEW new, NEW l, NEW t, NEW b \in Exps, ListLess(l, lists, t, b),
           SameWholes(new, ts, lists, t)
    PROVE  Counted(new, l, CountDown(counts, ts, t, b))
<1> DEFINE W(c) == Wholes(ts, lists[c])
           V(c) == Wholes(new, l[c])
           counts2 == CountDown(counts, ts, t, b)
<1>0. /\ t \in Range(lists[b])
      /\ Range(l[b]) = Range(lists[b]) \ {t}
      /\ \A c \in Exps \ {b} : l[c] = lists[c] /\ t \notin Range(lists[c])
      /\ \A c \in Exps : \A u \in Range(lists[c]) \ {t} :
             WholeIn(new, u) <=> WholeIn(ts, u)
  BY Zenon DEF ListLess, SameWholes
<1>1. counts \in [Exps -> Int] /\ \A c \in Exps : counts[c] <= MAXCOMPLETE
  BY Zenon DEF Counted
<1>2. \A c \in Exps : IsFiniteSet(W(c)) /\ counts[c] = Cardinality(W(c))
  <2> TAKE c \in Exps
  <2>1. W(c) \subseteq DOMAIN ts
    BY ListedFacts, Zenon DEF Wholes
  <2> QED
    BY <2>1, FiniteWithin, Zenon DEF Counted
<1>3. \A c \in Exps \ {b} : V(c) = W(c)
  <2> TAKE c \in Exps \ {b}
  <2>1. l[c] = lists[c] /\ \A u \in Range(lists[c]) : WholeIn(new, u) <=> WholeIn(ts, u)
    BY <1>0, Zenon
  <2> QED
    BY <2>1, Zenon DEF Wholes
<1>4. V(b) = W(b) \ {t}
  BY <1>0, Zenon DEF Wholes
<1>5. t \in W(b) <=> WholeIn(ts, t)
  BY <1>0, Zenon DEF Wholes
<1> HIDE DEF V, W
<1>6. Cardinality(W(b) \ {t}) = IF t \in W(b) THEN Cardinality(W(b)) - 1 ELSE Cardinality(W(b))
  BY <1>2, TakeOne, Zenon
<1>7. counts2 \in [Exps -> Int] /\ \A c \in Exps : counts2[c] = Cardinality(V(c)) /\ counts2[c] <= MAXCOMPLETE
  <2>1. CASE WholeIn(ts, t)
    <3>1. /\ counts2 \in [Exps -> Int] /\ counts2[b] = counts[b] - 1
          /\ \A c \in Exps \ {b} : counts2[c] = counts[c]
      BY <1>1, <2>1 DEF CountDown
    <3>2. counts2[b] <= MAXCOMPLETE
      BY <1>1, <2>1, <3>1, Consts
    <3>3. counts2[b] = Cardinality(V(b))
      BY <1>2, <1>4, <1>5, <1>6, <2>1, <3>1, Zenon
    <3> QED
      BY <1>1, <1>2, <1>3, <3>1, <3>2, <3>3, Zenon
  <2>2. CASE ~WholeIn(ts, t)
    <3>1. counts2 = counts /\ Cardinality(V(b)) = Cardinality(W(b))
      BY <1>4, <1>5, <1>6, <2>2, Zenon DEF CountDown
    <3> QED
      BY <1>1, <1>2, <1>3, <3>1, Zenon
  <2> QED
    BY <2>1, <2>2
<1> QED
  BY <1>7, Zenon DEF Counted, V

-----------------------------------------------------------------------------
(* The heap: its ground, lists and counts.                                 *)

\* Everything but the index of t, or but its size, is as before.
Reindexed(new, ts, t, x) ==
    /\ DOMAIN new = DOMAIN ts /\ new \in [DOMAIN ts -> TagSet]
    /\ new[t].index = x
    /\ \A u \in DOMAIN ts \ {t} : new[u].index = ts[u].index
    /\ \A u \in DOMAIN ts : /\ new[u].real = ts[u].real /\ new[u].size = ts[u].size
                            /\ new[u].left = ts[u].left /\ new[u].right = ts[u].right

Resized(new, ts, t, x) ==
    /\ DOMAIN new = DOMAIN ts /\ new \in [DOMAIN ts -> TagSet]
    /\ new[t].size = x
    /\ \A u \in DOMAIN ts \ {t} : new[u].size = ts[u].size
    /\ \A u \in DOMAIN ts : /\ new[u].real = ts[u].real /\ new[u].index = ts[u].index
                            /\ new[u].left = ts[u].left /\ new[u].right = ts[u].right

LEMMA ReindexFacts ==
    ASSUME NEW ts, Typed(ts), NEW t \in DOMAIN ts, NEW x \in Exps \cup {-1}
    PROVE  Reindexed([ts EXCEPT ![t].index = x], ts, t, x)
<1> DEFINE new == [ts EXCEPT ![t].index = x]
           R == TagOf(ts[t].real, ts[t].size, x, ts[t].left, ts[t].right)
<1>1. /\ ts[t] \in TagSet /\ ts[t].real \in Nat /\ ts[t].size \in Nat
      /\ ts[t].left \in Nat /\ ts[t].right \in Nat
  BY TagTypes, Zenon
<1>2. [ts[t] EXCEPT !.index = x] = R
  BY <1>1, TagFields, Zenon
<1>3. new = [ts EXCEPT ![t] = R]
  BY <1>2, Zenon
<1>4. R \in TagSet
  BY <1>1, TagIn, Zenon
<1>5. /\ R.index = x /\ R.real = ts[t].real /\ R.size = ts[t].size
      /\ R.left = ts[t].left /\ R.right = ts[t].right
  BY DEF TagOf
<1>6. ts \in [DOMAIN ts -> TagSet]
  BY Zenon DEF Typed
<1> HIDE DEF new, R
<1>7. /\ DOMAIN new = DOMAIN ts /\ new \in [DOMAIN ts -> TagSet] /\ new[t] = R
      /\ \A u \in DOMAIN ts \ {t} : new[u] = ts[u]
  BY <1>3, <1>4, <1>6, Zenon
<1>8. \A u \in DOMAIN ts : /\ new[u].real = ts[u].real /\ new[u].size = ts[u].size
                           /\ new[u].left = ts[u].left /\ new[u].right = ts[u].right
  <2> TAKE u \in DOMAIN ts
  <2>1. CASE u = t
    BY <1>5, <1>7, <2>1, Zenon
  <2>2. CASE u # t
    BY <1>7, <2>2, Zenon
  <2> QED
    BY <2>1, <2>2
<1> QED
  BY <1>5, <1>7, <1>8, Zenon DEF Reindexed, new

LEMMA ResizeFacts ==
    ASSUME NEW ts, Typed(ts), NEW t \in DOMAIN ts, NEW x \in Nat
    PROVE  Resized([ts EXCEPT ![t].size = x], ts, t, x)
<1> DEFINE new == [ts EXCEPT ![t].size = x]
           R == TagOf(ts[t].real, x, ts[t].index, ts[t].left, ts[t].right)
<1>1. /\ ts[t] \in TagSet /\ ts[t].real \in Nat /\ ts[t].index \in Exps \cup {-1}
      /\ ts[t].left \in Nat /\ ts[t].right \in Nat
  BY TagTypes, Zenon
<1>2. [ts[t] EXCEPT !.size = x] = R
  BY <1>1, TagFields, Zenon
<1>3. new = [ts EXCEPT ![t] = R]
  BY <1>2, Zenon
<1>4. R \in TagSet
  BY <1>1, TagIn, Zenon
<1>5. /\ R.index = ts[t].index /\ R.real = ts[t].real /\ R.size = x
      /\ R.left = ts[t].left /\ R.right = ts[t].right
  BY DEF TagOf
<1>6. ts \in [DOMAIN ts -> TagSet]
  BY Zenon DEF Typed
<1> HIDE DEF new, R
<1>7. /\ DOMAIN new = DOMAIN ts /\ new \in [DOMAIN ts -> TagSet] /\ new[t] = R
      /\ \A u \in DOMAIN ts \ {t} : new[u] = ts[u]
  BY <1>3, <1>4, <1>6, Zenon
<1>8. \A u \in DOMAIN ts : /\ new[u].real = ts[u].real /\ new[u].index = ts[u].index
                           /\ new[u].left = ts[u].left /\ new[u].right = ts[u].right
  <2> TAKE u \in DOMAIN ts
  <2>1. CASE u = t
    BY <1>5, <1>7, <2>1, Zenon
  <2>2. CASE u # t
    BY <1>7, <2>2, Zenon
  <2> QED
    BY <2>1, <2>2
<1> QED
  BY <1>5, <1>7, <1>8, Zenon DEF Resized, new

LEMMA HeapParts ==
    ASSUME NEW ts, NEW h, NEW lists, NEW counts, Heap(ts, h, lists, counts)
    PROVE  /\ Ground(ts, h) /\ Typed(ts) /\ Filed(ts, lists) /\ Counted(ts, lists, counts)
           /\ Melted(ts) /\ Good(lists, DOMAIN ts) /\ IsFiniteSet(DOMAIN ts)
           /\ \A b \in Exps : Range(lists[b]) \subseteq Free(ts)
<1>1. /\ Ground(ts, h) /\ Filed(ts, lists) /\ Counted(ts, lists, counts) /\ Melted(ts)
  BY Zenon DEF Heap
<1>2. Typed(ts)
  BY <1>1, Zenon DEF Ground
<1>3. IsFiniteSet(DOMAIN ts)
  BY <1>2, Zenon DEF Typed
<1>4. Good(lists, DOMAIN ts)
  BY <1>1, Zenon DEF Filed
<1>5. \A b \in Exps : Range(lists[b]) \subseteq Free(ts)
  <2> SUFFICES ASSUME NEW b \in Exps, NEW t \in Range(lists[b]) PROVE t \in Free(ts)
    BY Zenon
  <2>1. t \in DOMAIN ts
    BY <1>4, ListedFacts, Zenon
  <2>2. ts[t].index = b
    BY <1>1, <2>1, Zenon DEF Filed
  <2> QED
    BY <1>2, <2>1, <2>2, FreeFacts, Zenon
<1> QED
  BY <1>1, <1>2, <1>3, <1>4, <1>5, Zenon

\* malloc takes a free tag out of its list.
LEMMA TakeHeap ==
    ASSUME Laws, Heap(tags, held, l_freePages, l_completePages), NEW t \in Free(tags),
           NEW ts, ts = [tags EXCEPT ![t].index = -1]
    PROVE  /\ Heap(ts, held, remove_tag(l_freePages, t),
                   CountDown(l_completePages, tags, t, tags[t].index))
           /\ Reindexed(ts, tags, t, -1)
           /\ Free(ts) = Free(tags) \ {t}
           /\ ts[t].right \notin Free(ts)
<1> DEFINE l == remove_tag(l_freePages, t)
           b == tags[t].index
<1>1. /\ Ground(tags, held) /\ Typed(tags) /\ Filed(tags, l_freePages)
      /\ Counted(tags, l_freePages, l_completePages)
      /\ Melted(tags) /\ Good(l_freePages, DOMAIN tags) /\ IsFiniteSet(DOMAIN tags)
  BY HeapParts, Zenon
<1>2. t \in DOMAIN tags
  BY Zenon DEF Free
<1>3. Reindexed(ts, tags, t, -1)
  <2>1. -1 \in Exps \cup {-1}
    OBVIOUS
  <2> QED
    BY <1>1, <1>2, <2>1, ReindexFacts, Zenon
<1>4. /\ DOMAIN ts = DOMAIN tags /\ ts \in [DOMAIN tags -> TagSet]
      /\ ts[t].index = -1
      /\ \A u \in DOMAIN tags \ {t} : ts[u].index = tags[u].index
      /\ \A u \in DOMAIN tags : /\ ts[u].real = tags[u].real
                                /\ ts[u].left = tags[u].left /\ ts[u].right = tags[u].right
  BY <1>3, Zenon DEF Reindexed
<1>5. Ground(ts, held)
  BY <1>1, <1>4, SameGround, Zenon
<1>6. Typed(ts)
  BY <1>5, Zenon DEF Ground
<1>7. FiledLess(ts, l, l_freePages, t, b)
  <2>1. /\ DOMAIN ts \subseteq DOMAIN tags
        /\ t \in DOMAIN ts => ts[t].index = -1
        /\ \A u \in DOMAIN tags \ DOMAIN ts : u = t \/ tags[u].index = -1
        /\ \A u \in DOMAIN ts \ {t} : ts[u].index = tags[u].index
        /\ \A u \in Free(tags) \ {t} : ts[u].real = tags[u].real
    BY <1>4, Zenon DEF Free
  <2> QED
    BY <1>1, <1>6, <2>1, RemoveFiled, Zenon
<1>8. /\ Filed(ts, l) /\ b \in Exps /\ ListLess(l, l_freePages, t, b)
      /\ Free(ts) = Free(tags) \ {t}
  BY <1>7, Zenon DEF FiledLess
<1>9. Counted(ts, l, CountDown(l_completePages, tags, t, b))
  <2>1. \A u \in DOMAIN tags : WholeIn(ts, u) <=> WholeIn(tags, u)
    BY <1>4, Zenon DEF WholeIn
  <2>2. \A c \in Exps : Range(l_freePages[c]) \subseteq DOMAIN tags
    BY <1>1, ListedFacts, Zenon
  <2>3. SameWholes(ts, tags, l_freePages, t)
    BY <2>1, <2>2, Zenon DEF SameWholes
  <2> QED
    BY <1>1, <1>8, <2>3, RemoveCounted, Zenon
<1>10. \A u \in Free(tags) : u \in DOMAIN tags /\ tags[u].right \notin Free(tags)
  BY <1>1, Zenon DEF Melted, Free
<1>11. Melted(ts)
  BY <1>4, <1>8, <1>10, Zenon DEF Melted
<1>12. ts[t].right \notin Free(ts)
  BY <1>2, <1>4, <1>8, <1>10, Zenon
<1> QED
  BY <1>3, <1>5, <1>8, <1>9, <1>11, <1>12, Zenon DEF Heap

\* A tag outside the lists becomes a block, and its rest is filed.
Handed(new, l, ts, h, counts, t, size) ==
    /\ Heap(new, h, l, counts)
    /\ DOMAIN ts \subseteq DOMAIN new
    /\ DOMAIN new \ Free(new) = DOMAIN ts \ Free(ts)
    /\ TAG + new[t].size <= new[t].real
    /\ \A u \in DOMAIN ts \ {t} : new[u].real = ts[u].real /\ new[u].size = ts[u].size

LEMMA CutHeap ==
    ASSUME Laws, NEW ts, NEW h, NEW lists, NEW counts, Heap(ts, h, lists, counts),
           NEW t \in DOMAIN ts, t \notin Free(ts), ts[t].right \notin Free(ts),
           NEW size \in Nat, ts[t].real - size - 2 * TAG > 0
    PROVE  Handed(Cut(ts, t, size),
                  insert_tag(lists, t + TAG + size, Bucket(ts[t].real - TAG - size)),
                  ts, h, counts, t, size)
<1> DEFINE new == t + TAG + size
           rest == ts[t].real - TAG - size
           right == ts[t].right
           b == Bucket(rest)
           l == insert_tag(lists, new, b)
           c == Cut(ts, t, size)
<1>1. /\ Ground(ts, h) /\ Typed(ts) /\ Filed(ts, lists) /\ Counted(ts, lists, counts)
      /\ Melted(ts) /\ Good(lists, DOMAIN ts) /\ IsFiniteSet(DOMAIN ts)
      /\ \A x \in Exps : Range(lists[x]) \subseteq Free(ts)
  BY HeapParts, Zenon
<1>2. Ground(c, h) /\ CutMakes(c, ts, t, size)
  BY <1>1, CutKeeps, CutShape, Zenon
<1>3. t \in Nat /\ 0 < t /\ right \in Nat
  BY <1>1, TagTypes, Zenon
<1>4. new # NULL /\ t # NULL
  BY <1>3, Consts DEF NULL
<1>5. /\ right # t
      /\ right # NULL => right \in DOMAIN ts /\ ts[right].left = t
  <2>1. right # NULL => right \in DOMAIN ts /\ ts[right].left = t /\ right # t
    BY <1>1, RightFacts, Zenon
  <2> QED
    BY <1>4, <2>1, Zenon
<1>6. CutParts(c, ts, t, size, new, rest, right)
  BY <1>2, <1>5, CutFields, Zenon
<1> HIDE DEF new, rest, right, c
<1>7. /\ new \notin DOMAIN ts /\ DOMAIN c = DOMAIN ts \cup {new}
      /\ c[new].real = rest /\ c[new].left = t /\ c[new].right = right
      /\ c[new].index = Bucket(rest)
      /\ c[t].real = TAG + size /\ c[t].size = size
      /\ right \in DOMAIN ts => c[right].left = new
      /\ \A u \in DOMAIN ts \ {t} : /\ c[u].real = ts[u].real
                                    /\ c[u].right = ts[u].right
                                    /\ c[u].size = ts[u].size
      /\ \A u \in DOMAIN ts \ {right} : c[u].left = ts[u].left
      /\ \A u \in DOMAIN ts : c[u].index = ts[u].index
  BY <1>6, Zenon DEF CutParts
<1>8. Typed(c)
  BY <1>2, Zenon DEF Ground
<1>9. \A u \in Free(ts) : u \in DOMAIN ts /\ u # t
  BY Zenon DEF Free
<1>10. FiledMore(c, l, ts, lists, new, b)
  <2>1. /\ new \notin Free(ts)
        /\ c[new].index = Bucket(c[new].real)
        /\ \A u \in DOMAIN ts \ {new} : c[u].index = ts[u].index
        /\ \A u \in Free(ts) : c[u].real = ts[u].real
        /\ b = Bucket(c[new].real)
    BY <1>7, <1>9, Zenon
  <2> HIDE DEF b
  <2> QED
    BY <1>1, <1>7, <1>8, <2>1, InsertFiled, Zenon
<1>11. /\ Filed(c, l) /\ b \in Exps /\ ListMore(l, lists, new, b)
       /\ Free(c) = Free(ts) \cup {new}
  BY <1>10, Zenon DEF FiledMore
<1> HIDE DEF l, b
<1>12. Counted(c, l, counts)
  <2>1. ~WholeIn(c, new)
    BY <1>4, <1>7, Zenon DEF WholeIn
  <2>2. \A u \in Free(ts) : WholeIn(c, u) <=> WholeIn(ts, u)
    <3> TAKE u \in Free(ts)
    <3>1. u \in DOMAIN ts /\ u # t /\ c[u].right = ts[u].right
      BY <1>7, <1>9, Zenon
    <3>2. CASE u = right
      <4>1. right # NULL
        BY <1>1, <3>1, <3>2, TagTypes DEF NULL
      <4> QED
        BY <1>4, <1>5, <1>7, <3>2, <4>1, ZenonT(40) DEF WholeIn
    <3>3. CASE u # right
      BY <1>7, <3>1, <3>3, Zenon DEF WholeIn
    <3> QED
      BY <3>2, <3>3
  <2>3. SameWholes(c, ts, lists, new)
    BY <1>1, <2>2, Zenon DEF SameWholes
  <2>4. Counted(c, l, CountUp(counts, c, new, b))
    BY <1>1, <1>11, <2>1, <2>3, InsertCounted, Zenon
  <2> QED
    BY <2>1, <2>4, Zenon DEF CountUp
<1>13. Melted(c)
  <2>1. right # new
    BY <1>4, <1>5, <1>7, Zenon
  <2>2. c[new].right \notin Free(c)
    BY <1>7, <1>11, <2>1, Zenon DEF right
  <2>3. \A u \in Free(ts) : c[u].right \notin Free(c)
    <3> TAKE u \in Free(ts)
    <3>1. u \in DOMAIN ts /\ c[u].right = ts[u].right /\ ts[u].right \notin Free(ts)
      BY <1>1, <1>7, <1>9, Zenon DEF Melted
    <3>2. ts[u].right # new
      <4>1. u \in DOMAIN ts /\ Ground(ts, h)
        BY <1>1, <3>1, Zenon
      <4>2. ts[u].right # NULL => ts[u].right \in DOMAIN ts
        BY <4>1, RightFacts, Zenon
      <4> QED
        BY <1>4, <1>7, <4>2, Zenon
    <3> QED
      BY <1>11, <3>1, <3>2, Zenon
  <2> QED
    BY <1>11, <2>2, <2>3, Zenon DEF Melted
<1>14. Heap(c, h, l, counts)
  BY <1>2, <1>11, <1>12, <1>13, Zenon DEF Heap
<1>15. DOMAIN c \ Free(c) = DOMAIN ts \ Free(ts)
  BY <1>7, <1>11, Zenon
<1>16. TAG + c[t].size <= c[t].real
  BY <1>7, Consts
<1> QED
  BY <1>7, <1>14, <1>15, <1>16, Zenon DEF Handed, c, new, rest, b, l

LEMMA HandHeap ==
    ASSUME Laws, NEW ts, NEW h, NEW lists, NEW counts, Heap(ts, h, lists, counts),
           NEW t \in DOMAIN ts, t \notin Free(ts), ts[t].right \notin Free(ts),
           NEW size \in Nat, TAG + size <= ts[t].real,
           Hand(ts, lists, t, size)
    PROVE  Handed(tags', l_freePages', ts, h, counts, t, size)
<1>1. CASE Splits(ts[t].real, size)
  <2>1. /\ tags' = Cut(ts, t, size)
        /\ l_freePages' = insert_tag(lists, t + TAG + size, Bucket(ts[t].real - TAG - size))
    BY <1>1, Zenon DEF Hand
  <2>2. ts[t].real - size - 2 * TAG > 0
    BY <1>1, Zenon DEF Splits
  <2> QED
    BY <2>1, <2>2, CutHeap, Zenon
<1>2. CASE ~Splits(ts[t].real, size)
  <2> DEFINE new == [ts EXCEPT ![t].size = size]
  <2>1. tags' = new /\ l_freePages' = lists
    BY <1>2, Zenon DEF Hand
  <2>2. /\ Ground(ts, h) /\ Typed(ts) /\ Filed(ts, lists) /\ Counted(ts, lists, counts)
        /\ Melted(ts) /\ Good(lists, DOMAIN ts)
        /\ \A x \in Exps : Range(lists[x]) \subseteq Free(ts)
    BY HeapParts, Zenon
  <2>3. Resized(new, ts, t, size)
    BY <2>2, ResizeFacts, Zenon
  <2> HIDE DEF new
  <2>4. /\ DOMAIN new = DOMAIN ts /\ new \in [DOMAIN ts -> TagSet]
        /\ new[t].size = size
        /\ \A u \in DOMAIN ts \ {t} : new[u].size = ts[u].size
        /\ \A u \in DOMAIN ts : /\ new[u].real = ts[u].real /\ new[u].index = ts[u].index
                                /\ new[u].left = ts[u].left /\ new[u].right = ts[u].right
    BY <2>3, Zenon DEF Resized
  <2>5. Ground(new, h)
    BY <2>2, <2>4, SameGround, Zenon
  <2>6. Free(new) = Free(ts)
    BY <2>4, Zenon DEF Free
  <2>7. \A u \in Free(ts) : u \in DOMAIN ts
    BY Zenon DEF Free
  <2>8. Filed(new, lists)
    BY <2>2, <2>4, <2>6, <2>7, Zenon DEF Filed
  <2>9. \A x \in Exps : Wholes(new, lists[x]) = Wholes(ts, lists[x])
    <3>1. \A u \in Free(ts) : WholeIn(new, u) <=> WholeIn(ts, u)
      BY <2>4, <2>7, Zenon DEF WholeIn
    <3> QED
      BY <2>2, <3>1, Zenon DEF Wholes
  <2>10. Counted(new, lists, counts)
    BY <2>2, <2>9, Zenon DEF Counted
  <2>11. Melted(new)
    BY <2>2, <2>4, <2>6, <2>7, Zenon DEF Melted
  <2>12. Heap(new, h, lists, counts)
    BY <2>5, <2>8, <2>10, <2>11, Zenon DEF Heap
  <2>13. TAG + new[t].size <= new[t].real
    BY <2>4, Zenon
  <2> QED
    BY <2>1, <2>4, <2>6, <2>12, <2>13, Zenon DEF Handed
<1> QED
  BY <1>1, <1>2

\* free joins a tag to the one behind it.
LEMMA JoinHeap ==
    ASSUME Laws, Heap(tags, held, l_freePages, l_completePages),
           NEW t \in DOMAIN tags, tags[t].right # NULL,
           NEW x \in Free(tags), NEW y, y \notin Free(tags),
           {x, y} = {t, tags[t].right}
    PROVE  /\ Heap(Joined(t), held, remove_tag(l_freePages, x), l_completePages)
           /\ JoinParts(Joined(t), t, tags[t].right, tags[tags[t].right].right)
           /\ Free(Joined(t)) = Free(tags) \ {x}
<1> DEFINE next == tags[t].right
           right == tags[next].right
           j == Joined(t)
           l == remove_tag(l_freePages, x)
           b == tags[x].index
<1>1. /\ Ground(tags, held) /\ Typed(tags) /\ Filed(tags, l_freePages)
      /\ Counted(tags, l_freePages, l_completePages)
      /\ Melted(tags) /\ Good(l_freePages, DOMAIN tags) /\ IsFiniteSet(DOMAIN tags)
      /\ \A c \in Exps : Range(l_freePages[c]) \subseteq Free(tags)
  BY HeapParts, Zenon
<1>2. JoinParts(j, t, next, right)
  BY <1>1, JoinShape, Zenon
<1>3. Ground(j, held)
  BY <1>1, JoinKeeps, Zenon
<1>4. Typed(j)
  BY <1>3, Zenon DEF Ground
<1> HIDE DEF next, right, j
<1>5. /\ next \in DOMAIN tags /\ next # t /\ tags[next].left = t /\ next # NULL
      /\ right # NULL => tags[right].left = next
      /\ DOMAIN j = DOMAIN tags \ {next}
      /\ j[t].index = -1
      /\ right \in DOMAIN tags => j[right].left = t
      /\ \A u \in DOMAIN tags \ {t, next} : /\ j[u].real = tags[u].real
                                            /\ j[u].right = tags[u].right
                                            /\ j[u].index = tags[u].index
      /\ \A u \in DOMAIN tags \ {next, right} : j[u].left = tags[u].left
  BY <1>2, Zenon DEF JoinParts
<1>6. {x, y} = {t, next}
  BY Zenon DEF next
<1>7. /\ y \in DOMAIN tags /\ tags[y].index = -1 /\ x # y
      /\ \A u \in Free(tags) : u \in DOMAIN tags /\ u # y
      /\ t # NULL
  <2>1. y \in DOMAIN tags
    <3>1. y \in {x, y}
      OBVIOUS
    <3>2. y = t \/ y = next
      BY <1>6, <3>1, Zenon
    <3> QED
      BY <1>5, <3>2, Zenon
  <2>2. t # NULL
    BY <1>1, TagTypes DEF NULL
  <2> QED
    BY <2>1, <2>2, Zenon DEF Free
<1>8. FiledLess(j, l, l_freePages, x, b)
  <2>1. x \in DOMAIN j => j[x].index = -1
    BY <1>5, <1>6, Zenon
  <2>2. \A u \in DOMAIN tags \ DOMAIN j : u = x \/ tags[u].index = -1
    BY <1>5, <1>6, <1>7, Zenon
  <2>3. \A u \in DOMAIN j \ {x} : j[u].index = tags[u].index
    <3> TAKE u \in DOMAIN j \ {x}
    <3>1. u \in DOMAIN tags /\ u # next
      BY <1>5, Zenon
    <3>2. CASE u = t
      <4>1. u = y
        BY <1>6, <3>2, Zenon
      <4> QED
        BY <1>5, <1>7, <3>2, <4>1, Zenon
    <3>3. CASE u # t
      BY <1>5, <3>1, <3>3, Zenon
    <3> QED
      BY <3>2, <3>3
  <2>4. \A u \in Free(tags) \ {x} : j[u].real = tags[u].real
    BY <1>5, <1>6, <1>7, Zenon
  <2>5. DOMAIN j \subseteq DOMAIN tags
    BY <1>5, Zenon
  <2> QED
    BY <1>1, <1>4, <2>1, <2>2, <2>3, <2>4, <2>5, RemoveFiled, Zenon
<1>9. /\ Filed(j, l) /\ b \in Exps /\ ListLess(l, l_freePages, x, b)
      /\ Free(j) = Free(tags) \ {x}
  BY <1>8, Zenon DEF FiledLess
<1> HIDE DEF l, b
<1>10. Counted(j, l, l_completePages)
  <2>1. ~WholeIn(tags, x)
    <3>1. tags[t].right # NULL
      BY Zenon
    <3> QED
      BY <1>5, <1>6, <1>7, <3>1, Zenon DEF WholeIn
  <2>2. \A u \in Free(tags) \ {x} : WholeIn(j, u) <=> WholeIn(tags, u)
    <3> TAKE u \in Free(tags) \ {x}
    <3>1. u \in DOMAIN tags \ {t, next} /\ j[u].right = tags[u].right
      BY <1>5, <1>6, <1>7, Zenon
    <3>2. CASE u = right
      <4>1. u # NULL
        BY <1>1, <3>1, TagTypes DEF NULL
      <4> QED
        BY <1>5, <1>7, <3>1, <3>2, <4>1, Zenon DEF WholeIn
    <3>3. CASE u # right
      BY <1>5, <3>1, <3>3, Zenon DEF WholeIn
    <3> QED
      BY <3>2, <3>3
  <2>3. SameWholes(j, tags, l_freePages, x)
    BY <1>1, <2>2, Zenon DEF SameWholes
  <2>4. Counted(j, l, CountDown(l_completePages, tags, x, b))
    BY <1>1, <1>9, <2>3, RemoveCounted, Zenon
  <2> QED
    BY <2>1, <2>4, Zenon DEF CountDown
<1>11. Melted(j)
  <2> SUFFICES ASSUME NEW u \in Free(j) PROVE j[u].right \notin Free(j)
    BY Zenon DEF Melted
  <2>1. u \in Free(tags) /\ u \in DOMAIN tags \ {t, next}
    BY <1>6, <1>7, <1>9, Zenon
  <2>2. tags[u].right \notin Free(tags)
    BY <1>1, <2>1, Zenon DEF Melted
  <2> QED
    BY <1>5, <1>9, <2>1, <2>2, Zenon
<1> QED
  BY <1>2, <1>3, <1>9, <1>10, <1>11, Zenon DEF Heap, next, right, j, l

\* free puts a tag with no free neighbour in a list.
LEMMA PutHeap ==
    ASSUME Laws, Heap(tags, held, l_freePages, l_completePages),
           NEW t \in DOMAIN tags, t \notin Free(tags),
           tags[t].left \notin Free(tags), tags[t].right \notin Free(tags),
           NEW b, b = Bucket(tags[t].real),
           ~(WholeIn(tags, t) /\ l_completePages[b] = MAXCOMPLETE),
           NEW ts, Reindexed(ts, tags, t, b)
    PROVE  /\ Heap(ts, held, insert_tag(l_freePages, t, b),
                   CountUp(l_completePages, tags, t, b))
           /\ Free(ts) = Free(tags) \cup {t}
<1> DEFINE l == insert_tag(l_freePages, t, b)
<1>1. /\ Ground(tags, held) /\ Typed(tags) /\ Filed(tags, l_freePages)
      /\ Counted(tags, l_freePages, l_completePages)
      /\ Melted(tags) /\ Good(l_freePages, DOMAIN tags) /\ IsFiniteSet(DOMAIN tags)
      /\ \A c \in Exps : Range(l_freePages[c]) \subseteq Free(tags)
  BY HeapParts, Zenon
<1>2. t # NULL /\ b \in Exps
  <2>1. t # NULL
    BY <1>1, TagTypes DEF NULL
  <2>2. tags[t].real \in Nat /\ TAG <= tags[t].real
    BY <1>1, TagTypes, Zenon DEF Typed
  <2>3. Bucket(tags[t].real) \in Exps
    BY <2>2, BucketIn, Zenon
  <2> QED
    BY <2>1, <2>3, Zenon
<1>4. /\ DOMAIN ts = DOMAIN tags /\ ts \in [DOMAIN tags -> TagSet]
      /\ ts[t].index = b
      /\ \A u \in DOMAIN tags \ {t} : ts[u].index = tags[u].index
      /\ \A u \in DOMAIN tags : /\ ts[u].real = tags[u].real
                                /\ ts[u].left = tags[u].left /\ ts[u].right = tags[u].right
  BY Zenon DEF Reindexed
<1>5. Ground(ts, held)
  BY <1>1, <1>4, SameGround, Zenon
<1>6. Typed(ts)
  BY <1>5, Zenon DEF Ground
<1>7. FiledMore(ts, l, tags, l_freePages, t, b)
  <2>1. DOMAIN ts = DOMAIN tags \cup {t}
    BY <1>4, Zenon
  <2>2. ts[t].index = Bucket(ts[t].real) /\ b = Bucket(ts[t].real)
    BY <1>4, Zenon
  <2>3. \A u \in Free(tags) : ts[u].real = tags[u].real
    BY <1>4, Zenon DEF Free
  <2>4. \A u \in DOMAIN tags \ {t} : ts[u].index = tags[u].index
    BY <1>4, Zenon
  <2>5. Typed(tags) /\ Filed(tags, l_freePages)
    BY <1>1, Zenon
  <2> QED
    BY <1>6, <2>1, <2>2, <2>3, <2>4, <2>5, InsertFiled, Zenon
<1>8. /\ Filed(ts, l) /\ ListMore(l, l_freePages, t, b) /\ Free(ts) = Free(tags) \cup {t}
  BY <1>7, Zenon DEF FiledMore
<1> HIDE DEF l
<1>9. Counted(ts, l, CountUp(l_completePages, tags, t, b))
  <2>1. \A u \in DOMAIN tags : WholeIn(ts, u) <=> WholeIn(tags, u)
    BY <1>4, Zenon DEF WholeIn
  <2>2. SameWholes(ts, tags, l_freePages, t)
    BY <1>1, <2>1, Zenon DEF SameWholes, Free
  <2>3. WholeIn(ts, t) => l_completePages[b] # MAXCOMPLETE
    BY <2>1, Zenon
  <2>4. Counted(ts, l, CountUp(l_completePages, ts, t, b))
    BY <1>1, <1>2, <1>8, <2>2, <2>3, InsertCounted, Zenon
  <2> QED
    BY <2>1, <2>4, Zenon DEF CountUp
<1>10. Melted(ts)
  <2>1. ts[t].right \notin Free(ts)
    <3>1. tags[t].right # t
      BY <1>1, <1>2, RightFacts, Zenon
    <3> QED
      BY <1>4, <1>8, <3>1, Zenon
  <2>2. \A u \in Free(tags) : ts[u].right \notin Free(ts)
    <3> TAKE u \in Free(tags)
    <3>1. u \in DOMAIN tags /\ tags[u].right \notin Free(tags)
      BY <1>1, Zenon DEF Melted, Free
    <3>2. tags[u].right # NULL => tags[tags[u].right].left = u
      BY <1>1, <3>1, RightFacts, Zenon
    <3>3. tags[u].right # t
      BY <1>2, <3>2, Zenon
    <3> QED
      BY <1>4, <1>8, <3>1, <3>3, Zenon
  <2> QED
    BY <1>8, <2>1, <2>2, Zenon DEF Melted
<1> QED
  BY <1>5, <1>8, <1>9, <1>10, Zenon DEF Heap, l

\* malloc makes a range its tag.
GrownHeap(g, t, new, h) ==
    /\ Heap(g, h, l_freePages, l_completePages)
    /\ t \notin DOMAIN tags /\ DOMAIN g = DOMAIN tags \cup {t}
    /\ g[t] = new /\ \A u \in DOMAIN tags : g[u] = tags[u]
    /\ Free(g) = Free(tags) /\ g[t].right \notin Free(g)

LEMMA GrowHeap ==
    ASSUME Laws, Heap(tags, held, l_freePages, l_completePages),
           NEW r \in RangeSet, l_pageCount <= r.n,
           \A q \in held : PagesOf(q) \cap PagesOf(r) = {},
           NEW new \in TagSet, new.real = r.n * PAGE, new.left = NULL, new.right = NULL,
           new.index = -1
    PROVE  GrownHeap(Grown(tags, First(r), new), First(r), new, held \cup {r})
<1> DEFINE t == First(r)
           g == Grown(tags, t, new)
           h == held \cup {r}
<1>1. /\ Ground(tags, held) /\ Typed(tags) /\ Filed(tags, l_freePages)
      /\ Counted(tags, l_freePages, l_completePages)
      /\ Melted(tags) /\ Good(l_freePages, DOMAIN tags)
      /\ \A c \in Exps : Range(l_freePages[c]) \subseteq Free(tags)
  BY HeapParts, Zenon
<1>2. Ground(g, h) /\ t \notin DOMAIN tags
  BY <1>1, GrowKeeps, Zenon
<1> HIDE DEF t
<1>3. /\ DOMAIN g = DOMAIN tags \cup {t}
      /\ g[t] = new /\ \A u \in DOMAIN tags : g[u] = tags[u]
  BY <1>2, Zenon DEF Grown
<1> HIDE DEF g, h
<1>4. /\ \A u \in Free(tags) : u \in DOMAIN tags
      /\ NULL \notin DOMAIN g
      /\ -1 \notin Exps
  <2>1. Typed(g)
    BY <1>2, Zenon DEF Ground
  <2>2. NULL \notin DOMAIN g
    BY <2>1 DEF Typed, NULL
  <2> QED
    BY <1>1, <2>2, FreeFacts, Zenon
<1>5. Free(g) = Free(tags)
  BY <1>2, <1>3, Zenon DEF Free
<1>6. \A c \in Exps : t \notin Range(l_freePages[c])
  BY <1>1, <1>2, <1>4, Zenon
<1>7. Filed(g, l_freePages)
  <2>1. \A c \in Exps : Range(l_freePages[c]) \subseteq DOMAIN g
    BY <1>1, <1>3, <1>4, Zenon
  <2>2. Good(l_freePages, DOMAIN g)
    BY <1>1, <2>1, GoodWithin, Zenon
  <2>3. \A c \in Exps : \A u \in DOMAIN g : u \in Range(l_freePages[c]) <=> g[u].index = c
    <3> TAKE c \in Exps
    <3> TAKE u \in DOMAIN g
    <3>1. CASE u = t
      BY <1>3, <1>4, <1>6, <3>1, Zenon
    <3>2. CASE u # t
      BY <1>1, <1>3, <3>2, ZenonT(40) DEF Filed
    <3> QED
      BY <3>1, <3>2
  <2>4. \A u \in Free(g) : g[u].index = Bucket(g[u].real)
    BY <1>1, <1>3, <1>4, <1>5, Zenon DEF Filed
  <2> QED
    BY <2>2, <2>3, <2>4, Zenon DEF Filed
<1>8. Counted(g, l_freePages, l_completePages)
  <2>1. \A u \in Free(tags) : WholeIn(g, u) <=> WholeIn(tags, u)
    BY <1>3, <1>4, Zenon DEF WholeIn
  <2>2. \A c \in Exps : Wholes(g, l_freePages[c]) = Wholes(tags, l_freePages[c])
    BY <1>1, <2>1, Zenon DEF Wholes
  <2> QED
    BY <1>1, <2>2, Zenon DEF Counted
<1>9. Melted(g)
  BY <1>1, <1>3, <1>4, <1>5, Zenon DEF Melted
<1>10. g[t].right \notin Free(g)
  BY <1>3, <1>4, Zenon DEF Free
<1> QED
  BY <1>2, <1>3, <1>5, <1>7, <1>8, <1>9, <1>10, Zenon DEF Heap, GrownHeap, g, h, t

\* free gives a whole range back.
ReleasedHeap(g, h, t) ==
    /\ Heap(g, h, l_freePages, l_completePages)
    /\ DOMAIN g = DOMAIN tags \ {t}
    /\ \A u \in DOMAIN g : g[u] = tags[u]
    /\ Free(g) = Free(tags)

LEMMA ReleaseHeap ==
    ASSUME Laws, Heap(tags, held, l_freePages, l_completePages),
           NEW t \in DOMAIN tags, t \notin Free(tags), Whole(t),
           NEW pages, pages = AtLeast((tags[t].real + PAGE - 1) \div PAGE, l_pageCount)
    PROVE  /\ ReleasedHeap([u \in DOMAIN tags \ {t} |-> tags[u]],
                           UnmapRange(t \div PAGE, pages), t)
           /\ \E r \in held : UnmapRange(t \div PAGE, pages) = held \ {r}
<1> DEFINE g == [u \in DOMAIN tags \ {t} |-> tags[u]]
<1>1. /\ Ground(tags, held) /\ Typed(tags) /\ Filed(tags, l_freePages)
      /\ Counted(tags, l_freePages, l_completePages)
      /\ Melted(tags) /\ Good(l_freePages, DOMAIN tags)
      /\ \A c \in Exps : Range(l_freePages[c]) \subseteq Free(tags)
  BY HeapParts, Zenon
<1>2. PICK r \in held : t = First(r) /\ End(tags, t) = Last(r)
  BY <1>1, WholeIsRange, Zenon
<1> DEFINE h == held \ {r}
<1>3. Ground(g, h)
  BY <1>1, <1>2, ReleaseKeeps, Zenon
<1>4. UnmapRange(t \div PAGE, pages) = h
  <2>1. Ranges(held)
    BY <1>1, Zenon DEF Ground
  <2>2. r \in RangeSet /\ l_pageCount <= r.n
    BY <2>1, Zenon DEF Ranges
  <2>3. r.base \in Nat /\ r.n \in Nat
    BY <2>2, Consts DEF RangeSet
  <2>4. PAGE \in Nat \ {0} /\ l_pageCount \in Nat
    BY Consts
  <2>5. tags[t].real \in Nat /\ t \in Nat /\ End(tags, t) = t + tags[t].real
    BY <1>1, TagTypes, Zenon
  <2>6. t = r.base * PAGE /\ t + tags[t].real = (r.base + r.n) * PAGE
    BY <1>2, <2>5, Zenon DEF First, Last
  <2>7. tags[t].real = r.n * PAGE
    <3>1. (r.base + r.n) * PAGE = r.base * PAGE + r.n * PAGE
      BY <2>3, <2>4
    <3>2. r.n * PAGE \in Nat /\ r.base * PAGE \in Nat
      BY <2>3, <2>4
    <3> QED
      BY <2>5, <2>6, <3>1, <3>2
  <2>8. t \div PAGE = r.base /\ (tags[t].real + PAGE - 1) \div PAGE = r.n
    BY <2>3, <2>4, <2>6, <2>7, DivFacts, Zenon
  <2>9. AtLeast(r.n, l_pageCount) = r.n
    BY <2>2, <2>3, <2>4 DEF AtLeast
  <2>10. UnmapRange(r.base, r.n) = h
    BY <2>1, UnmapWholeRange, Zenon
  <2> QED
    BY <2>8, <2>9, <2>10, Zenon
<1>5. DOMAIN g = DOMAIN tags \ {t} /\ \A u \in DOMAIN g : g[u] = tags[u]
  BY Zenon
<1> HIDE DEF g, h
<1>6. Free(g) = Free(tags)
  BY <1>5, Zenon DEF Free
<1>7. \A u \in Free(tags) : u \in DOMAIN g /\ g[u] = tags[u]
  BY <1>5, Zenon DEF Free
<1>8. Filed(g, l_freePages)
  <2>1. \A c \in Exps : Range(l_freePages[c]) \subseteq DOMAIN g
    BY <1>1, <1>7, Zenon
  <2>2. Good(l_freePages, DOMAIN g)
    BY <1>1, <2>1, GoodWithin, Zenon
  <2>3. \A c \in Exps : \A u \in DOMAIN g : u \in Range(l_freePages[c]) <=> g[u].index = c
    BY <1>1, <1>5, Zenon DEF Filed
  <2>4. \A u \in Free(g) : g[u].index = Bucket(g[u].real)
    BY <1>1, <1>6, <1>7, Zenon DEF Filed
  <2> QED
    BY <2>2, <2>3, <2>4, Zenon DEF Filed
<1>9. Counted(g, l_freePages, l_completePages)
  <2>1. \A u \in Free(tags) : WholeIn(g, u) <=> WholeIn(tags, u)
    BY <1>7, Zenon DEF WholeIn
  <2>2. \A c \in Exps : Wholes(g, l_freePages[c]) = Wholes(tags, l_freePages[c])
    BY <1>1, <2>1, Zenon DEF Wholes
  <2> QED
    BY <1>1, <2>2, Zenon DEF Counted
<1>10. Melted(g)
  BY <1>1, <1>6, <1>7, Zenon DEF Melted
<1>11. ReleasedHeap(g, h, t)
  BY <1>3, <1>5, <1>6, <1>8, <1>9, <1>10, Zenon DEF Heap, ReleasedHeap
<1>12. h = held \ {r}
  BY Zenon DEF h
<1> QED
  BY <1>4, <1>11, <1>12, Zenon DEF g

-----------------------------------------------------------------------------
(* malloc and free.                                                        *)

\* What malloc finds is a free tag with room.
LEMMA FoundFacts ==
    ASSUME Laws, Heap(tags, held, l_freePages, l_completePages),
           NEW size \in Nat, Buckets(size) # {}
    PROVE  Found(size) \in Free(tags) /\ TAG + size <= tags[Found(size)].real
<1> DEFINE B == Buckets(size)
           b == CHOOSE x \in B : \A y \in B : x <= y
           R == Roomy(b, size)
           i == CHOOSE x \in R : \A y \in R : x <= y
<1>1. /\ Typed(tags) /\ Good(l_freePages, DOMAIN tags)
      /\ \A c \in Exps : Range(l_freePages[c]) \subseteq Free(tags)
  BY HeapParts, Zenon
<1>2. B \subseteq Exps /\ Exps \subseteq Nat
  <2>1. AtLeast(getexp(size), MINEXP) \in Exps
    BY BucketFacts
  <2>2. AtLeast(getexp(size), MINEXP) .. MAXEXP - 1 \subseteq Exps
    BY <2>1, Consts DEF Exps
  <2>3. Exps \subseteq Nat
    BY Consts DEF Exps
  <2> QED
    BY <2>2, <2>3, Zenon DEF Buckets
<1>3. \A x \in B : Roomy(x, size) # {}
  BY Zenon DEF Buckets
<1>4. Found(size) = l_freePages[b][i]
  BY Zenon DEF Found
<1>5. b \in B
  <2>1. B \in SUBSET Nat /\ B # {}
    BY <1>2, Zenon
  <2> HIDE DEF B
  <2>2. \E x \in B : \A y \in B : x <= y
    BY <2>1, LeastNat, Zenon
  <2> QED
    BY <2>2, Zenon
<1> HIDE DEF b, B
<1>6. l_freePages[b] \in Seq(DOMAIN tags)
  BY <1>1, <1>2, <1>5, Zenon DEF Good
<1>7. DOMAIN l_freePages[b] \subseteq Nat
  BY <1>6
<1>8. i \in R
  <2>1. R \in SUBSET Nat /\ R # {}
    BY <1>3, <1>5, <1>7, Zenon DEF Roomy
  <2> HIDE DEF R
  <2>2. \E x \in R : \A y \in R : x <= y
    BY <2>1, LeastNat, Zenon
  <2> QED
    BY <2>2, Zenon
<1> HIDE DEF i
<1>9. i \in DOMAIN l_freePages[b] /\ tags[l_freePages[b][i]].real - TAG >= size + TAG
  BY <1>8, Zenon DEF Roomy
<1>10. l_freePages[b][i] \in Range(l_freePages[b])
  BY <1>9, Zenon DEF Range
<1>11. Found(size) \in Free(tags)
  BY <1>1, <1>2, <1>4, <1>5, <1>10, Zenon
<1>12. Found(size) \in DOMAIN tags
  BY <1>11, Zenon DEF Free
<1>13. tags[Found(size)].real \in Nat
  BY <1>1, <1>12, TagTypes, Zenon
<1>14. TAG + size <= tags[Found(size)].real
  BY <1>4, <1>9, <1>13, Consts
<1> QED
  BY <1>11, <1>14, Zenon

\* What malloc leaves: one more tag, t, is a caller's.
Mallocd(t) ==
    /\ Heap(tags', held', l_freePages', l_completePages')
    /\ t \notin live /\ live' = live \cup {t}
    /\ DOMAIN tags' \ Free(tags') = (DOMAIN tags \ Free(tags)) \cup {t}
    /\ \A u \in live' : TAG + tags'[u].size <= tags'[u].real
    /\ fault' = fault

LEMMA ReusesHeap ==
    ASSUME Laws, Heap(tags, held, l_freePages, l_completePages),
           live \subseteq DOMAIN tags \ Free(tags),
           \A u \in live : TAG + tags[u].size <= tags[u].real,
           NEW size \in Nat, MallocReuses(size)
    PROVE  Mallocd(Found(size))
<1> DEFINE t == Found(size)
           ts == [tags EXCEPT ![t].index = -1]
           l == remove_tag(l_freePages, t)
           counts == CountDown(l_completePages, tags, t, tags[t].index)
<1>1. t \in Free(tags) /\ TAG + size <= tags[t].real
  BY FoundFacts, Zenon DEF MallocReuses
<1>2. /\ Hand(ts, l, t, size)
      /\ l_completePages' = counts
      /\ held' = held /\ fault' = fault
  BY Zenon DEF MallocReuses, CountDown, WholeIn, Whole
<1> HIDE DEF t
<1>3. t \in DOMAIN tags
  BY <1>1, Zenon DEF Free
<1>4. /\ Heap(ts, held, l, counts) /\ Reindexed(ts, tags, t, -1)
      /\ Free(ts) = Free(tags) \ {t} /\ ts[t].right \notin Free(ts)
  BY <1>1, TakeHeap, Zenon
<1> HIDE DEF ts, l, counts
<1>5. /\ DOMAIN ts = DOMAIN tags
      /\ \A u \in DOMAIN tags : ts[u].real = tags[u].real /\ ts[u].size = tags[u].size
  BY <1>4, Zenon DEF Reindexed
<1>6. t \in DOMAIN ts /\ t \notin Free(ts) /\ TAG + size <= ts[t].real
  BY <1>1, <1>3, <1>4, <1>5, Zenon
<1>7. Handed(tags', l_freePages', ts, held, counts, t, size)
  BY <1>2, <1>4, <1>6, HandHeap, Zenon
<1>8. /\ Heap(tags', held, l_freePages', counts)
      /\ DOMAIN tags' \ Free(tags') = DOMAIN ts \ Free(ts)
      /\ TAG + tags'[t].size <= tags'[t].real
      /\ \A u \in DOMAIN ts \ {t} : /\ tags'[u].real = ts[u].real
                                    /\ tags'[u].size = ts[u].size
  BY <1>7, Zenon DEF Handed
<1>9. Heap(tags', held', l_freePages', l_completePages')
  BY <1>2, <1>8, Zenon
<1>10. DOMAIN tags' \ Free(tags') = (DOMAIN tags \ Free(tags)) \cup {t}
  BY <1>3, <1>4, <1>5, <1>8, Zenon
<1>11. t \notin live /\ live' = live \cup {t}
  BY <1>1, <1>2, Zenon DEF Hand
<1>12. \A u \in live' : TAG + tags'[u].size <= tags'[u].real
  <2> TAKE u \in live'
  <2>1. CASE u = t
    BY <1>8, <2>1, Zenon
  <2>2. CASE u # t
    BY <1>5, <1>8, <1>11, <2>2, Zenon
  <2> QED
    BY <2>1, <2>2
<1> QED
  BY <1>2, <1>9, <1>10, <1>11, <1>12, Zenon DEF Mallocd, t

\* The pages that malloc asks for hold the block and its tag.
LEMMA PagesSuffice ==
    ASSUME NEW size \in Nat
    PROVE  /\ PagesFor(size) \in Nat \ {0} /\ l_pageCount <= PagesFor(size)
           /\ TAG + size <= PagesFor(size) * PAGE
<1> DEFINE d == (size + TAG + PAGE - 1) \div PAGE
<1>1. PAGE \in Nat \ {0} /\ TAG \in Nat \ {0} /\ l_pageCount \in Nat \ {0}
  BY Consts
<1>2. d \in Nat /\ size + TAG + PAGE - 1 < (d + 1) * PAGE
  BY <1>1
<1> HIDE DEF d
<1>3. (d + 1) * PAGE = d * PAGE + PAGE /\ d * PAGE \in Nat
  BY <1>1, <1>2
<1>4. TAG + size <= d * PAGE
  BY <1>1, <1>2, <1>3
<1>5. PagesFor(size) = AtLeast(d, l_pageCount)
  BY Zenon DEF PagesFor, d
<1> DEFINE n == PagesFor(size)
<1>6. n \in Nat \ {0} /\ l_pageCount <= n /\ d <= n
  BY <1>1, <1>2, <1>5 DEF AtLeast
<1> HIDE DEF n
<1>7. d * PAGE <= n * PAGE /\ n * PAGE \in Nat
  BY <1>1, <1>2, <1>6, TimesOrder
<1>8. TAG + size <= n * PAGE
  BY <1>1, <1>3, <1>4, <1>7
<1> QED
  BY <1>6, <1>8, Zenon DEF n

LEMMA GrowsHeap ==
    ASSUME Laws, Heap(tags, held, l_freePages, l_completePages),
           live \subseteq DOMAIN tags \ Free(tags),
           \A u \in live : TAG + tags[u].size <= tags[u].real,
           NEW size \in Nat, MallocGrows(size)
    PROVE  \E r \in Offers(PagesFor(size)) : Mallocd(First(r)) /\ held' = held \cup {r}
<1> DEFINE n == PagesFor(size)
           Fresh(r) == [real |-> r.n * PAGE, size |-> size, index |-> -1,
                        left |-> NULL, right |-> NULL]
<1>1. PICK r \in Offers(n) :
         /\ held' = held \cup {r}
         /\ Hand([u \in DOMAIN tags \cup {r.base * PAGE} |->
                     IF u = r.base * PAGE THEN Fresh(r) ELSE tags[u]],
                 l_freePages, r.base * PAGE, size)
  BY Zenon DEF MallocGrows
<1>2. l_completePages' = l_completePages /\ fault' = fault
  BY Zenon DEF MallocGrows
<1> DEFINE t == First(r)
           new == Fresh(r)
           g == Grown(tags, t, new)
           h == held \cup {r}
<1>3. Hand(g, l_freePages, t, size)
  BY <1>1, Zenon DEF First, Grown
<1>4. n \in Nat \ {0} /\ l_pageCount <= n /\ TAG + size <= n * PAGE
  BY PagesSuffice, Zenon
<1>5. /\ r \in [base : HEAP_START .. HEAP_END - n, n : {n}]
      /\ \A q \in held : PagesOf(q) \cap PagesOf(r) = {}
  BY Zenon DEF Offers
<1>6. r \in RangeSet /\ r.n = n
  <2> HIDE DEF n
  <2> QED
    BY <1>4, <1>5, Consts DEF RangeSet
<1>7. /\ new \in TagSet /\ new.real = r.n * PAGE /\ new.left = NULL /\ new.right = NULL
      /\ new.index = -1 /\ new.size = size
  <2>1. r.n * PAGE \in Nat
    BY <1>4, <1>6, Consts, TimesOrder
  <2> QED
    BY <2>1 DEF TagSet, NULL
<1>8. TAG + new.size <= new.real /\ TAG + size <= new.real
  BY <1>4, <1>6, <1>7, Zenon
<1> HIDE DEF n, t, new
<1>9. GrownHeap(g, t, new, h)
  <2>1. l_pageCount <= r.n
    BY <1>4, <1>6, Zenon
  <2> QED
    BY <1>5, <1>6, <1>7, <2>1, GrowHeap, Zenon DEF t
<1> HIDE DEF g, h
<1>10. /\ Heap(g, h, l_freePages, l_completePages)
       /\ t \notin DOMAIN tags /\ DOMAIN g = DOMAIN tags \cup {t}
       /\ g[t] = new /\ \A u \in DOMAIN tags : g[u] = tags[u]
       /\ Free(g) = Free(tags) /\ g[t].right \notin Free(g)
  BY <1>9, Zenon DEF GrownHeap
<1>11. t \in DOMAIN g /\ t \notin Free(g) /\ TAG + size <= g[t].real
  BY <1>7, <1>8, <1>10, Zenon DEF Free
<1>12. Handed(tags', l_freePages', g, h, l_completePages, t, size)
  BY <1>3, <1>10, <1>11, HandHeap, Zenon
<1>13. /\ Heap(tags', h, l_freePages', l_completePages)
       /\ DOMAIN tags' \ Free(tags') = DOMAIN g \ Free(g)
       /\ TAG + tags'[t].size <= tags'[t].real
       /\ \A u \in DOMAIN g \ {t} : /\ tags'[u].real = g[u].real
                                    /\ tags'[u].size = g[u].size
  BY <1>12, Zenon DEF Handed
<1>14. Heap(tags', held', l_freePages', l_completePages')
  BY <1>1, <1>2, <1>13, Zenon DEF h
<1>15. DOMAIN tags' \ Free(tags') = (DOMAIN tags \ Free(tags)) \cup {t}
  BY <1>10, <1>11, <1>13, Zenon
<1>16. t \notin live /\ live' = live \cup {t}
  BY <1>3, <1>10, Zenon DEF Hand
<1>17. \A u \in live' : TAG + tags'[u].size <= tags'[u].real
  <2> TAKE u \in live'
  <2>1. CASE u = t
    BY <1>13, <2>1, Zenon
  <2>2. CASE u # t
    BY <1>10, <1>13, <1>16, <2>2, Zenon
  <2> QED
    BY <2>1, <2>2
<1>18. Mallocd(t)
  BY <1>2, <1>14, <1>15, <1>16, <1>17, Zenon DEF Mallocd
<1> QED
  BY <1>1, <1>18, Zenon DEF t, n

-----------------------------------------------------------------------------
(* The steps.                                                              *)

\* What the proofs of the steps need of the invariant.
LEMMA InvParts ==
    ASSUME HeapInv
    PROVE  /\ Heap(tags, held, l_freePages, l_completePages)
           /\ Ground(tags, held) /\ Typed(tags) /\ NULL \notin DOMAIN tags
           /\ live \subseteq DOMAIN tags \ Free(tags)
           /\ live \cup InHand = DOMAIN tags \ Free(tags) /\ live \cap InHand = {}
           /\ \A u \in live : TAG + tags[u].size <= tags[u].real
           /\ \A u \in DOMAIN tags : u \in Free(tags) <=> tags[u].index >= 0
<1>1. Heap(tags, held, l_freePages, l_completePages) /\ Owned
  BY Zenon DEF HeapInv
<1>2. Ground(tags, held) /\ Typed(tags)
  BY <1>1, HeapParts, Zenon
<1>3. NULL \notin DOMAIN tags
  BY <1>2 DEF Typed, NULL
<1>4. /\ live \cup InHand = DOMAIN tags \ Free(tags) /\ live \cap InHand = {}
      /\ \A u \in live : TAG + tags[u].size <= tags[u].real
  BY <1>1, Zenon DEF Owned
<1>5. live \subseteq DOMAIN tags \ Free(tags)
  BY <1>4, Zenon
<1>6. \A u \in DOMAIN tags : u \in Free(tags) <=> tags[u].index >= 0
  <2> TAKE u \in DOMAIN tags
  <2>1. u \in Free(tags) <=> tags[u].index \in Exps
    BY <1>2, FreeFacts, Zenon
  <2>2. tags[u].index \in Exps \cup {-1}
    BY <1>2, TagTypes, Zenon
  <2>3. tags[u].index \in Exps <=> tags[u].index >= 0
    BY <2>2, Consts DEF Exps
  <2> QED
    BY <2>1, <2>3, Zenon
<1> QED
  BY <1>1, <1>2, <1>3, <1>4, <1>5, <1>6, Zenon

\* The tag that free works on.
LEMMA InHandFacts ==
    ASSUME HeapInv, pc \in {"left", "right", "put"}
    PROVE  /\ tag \in DOMAIN tags \ Free(tags) /\ tag \notin live
           /\ DOMAIN tags \ Free(tags) = live \cup {tag}
<1>1. InHand = {tag}
  BY Zenon DEF InHand
<1> QED
  BY <1>1, InvParts, Zenon

\* The invariant while free works on tag, and between calls.
LEMMA WorkingInv ==
    ASSUME Heap(tags', held', l_freePages', l_completePages'),
           pc' \in {"left", "right", "put"}, fault' \in BOOLEAN,
           live' \cup {tag'} = DOMAIN tags' \ Free(tags'), tag' \notin live',
           \A u \in live' : TAG + tags'[u].size <= tags'[u].real,
           NeighboursDone'
    PROVE  HeapInv'
<1>1. InHand' = {tag'}
  BY Zenon DEF InHand
<1>2. /\ pc' \in {"idle", "left", "right", "put", "copied", "stopped"}
      /\ pc' # "copied" /\ pc' \notin {"idle", "stopped"}
  OBVIOUS
<1>3. Owned'
  BY <1>1, <1>2, Zenon DEF Owned
<1> QED
  BY <1>3, Zenon DEF HeapInv

LEMMA RestingInv ==
    ASSUME Heap(tags', held', l_freePages', l_completePages'),
           pc' \in {"idle", "copied", "stopped"}, fault' \in BOOLEAN,
           live' = DOMAIN tags' \ Free(tags'),
           IF pc' = "copied" THEN tag' \in live' ELSE tag' = NULL,
           \A u \in live' : TAG + tags'[u].size <= tags'[u].real
    PROVE  HeapInv'
<1>1. InHand' = {}
  <2>1. pc' \notin {"left", "right", "put"}
    OBVIOUS
  <2> QED
    BY <2>1, Zenon DEF InHand
<1>2. /\ pc' \in {"idle", "left", "right", "put", "copied", "stopped"}
      /\ pc' \in {"idle", "stopped"} => pc' # "copied"
      /\ pc' \notin {"right", "put"} /\ pc' # "put"
  OBVIOUS
<1>3. Owned'
  BY <1>1, <1>2, Zenon DEF Owned
<1>4. NeighboursDone'
  BY <1>2, Zenon DEF NeighboursDone
<1> QED
  BY <1>3, <1>4, Zenon DEF HeapInv

LEMMA RestingFacts ==
    ASSUME HeapInv, pc \in {"idle", "copied", "stopped"}
    PROVE  /\ live = DOMAIN tags \ Free(tags) /\ fault \in BOOLEAN
           /\ pc = "copied" => tag \in live
           /\ pc = "idle" => tag = NULL
<1>1. pc \notin {"left", "right", "put"}
  OBVIOUS
<1>2. InHand = {}
  BY <1>1, Zenon DEF InHand
<1>3. Owned
  BY Zenon DEF HeapInv
<1> QED
  BY <1>2, <1>3, Zenon DEF Owned

\* A call of malloc, by itself or in realloc.
LEMMA MallocMakes ==
    ASSUME Laws, HeapInv, NEW size \in Sizes, MallocReuses(size) \/ MallocGrows(size)
    PROVE  \E t : Mallocd(t)
<1>1. /\ Heap(tags, held, l_freePages, l_completePages)
      /\ live \subseteq DOMAIN tags \ Free(tags)
      /\ \A u \in live : TAG + tags[u].size <= tags[u].real
  BY InvParts, Zenon
<1>2. size \in Nat
  BY Consts
<1>3. CASE MallocReuses(size)
  BY <1>1, <1>2, <1>3, ReusesHeap, Zenon
<1>4. CASE MallocGrows(size)
  BY <1>1, <1>2, <1>4, GrowsHeap, Zenon
<1> QED
  BY <1>3, <1>4

LEMMA MallocStep ==
    ASSUME Laws, HeapInv, NEW size \in Sizes, MallocReuses(size) \/ MallocGrows(size),
           pc = "idle",
           \/ pc' = pc /\ tag' = tag
           \/ pc' = "copied" /\ tag' \in live
    PROVE  HeapInv'
<1>1. PICK t : Mallocd(t)
  BY MallocMakes, Zenon
<1>2. /\ Heap(tags', held', l_freePages', l_completePages')
      /\ live' = live \cup {t}
      /\ DOMAIN tags' \ Free(tags') = (DOMAIN tags \ Free(tags)) \cup {t}
      /\ \A u \in live' : TAG + tags'[u].size <= tags'[u].real
      /\ fault' = fault
  BY <1>1, Zenon DEF Mallocd
<1>3. /\ live = DOMAIN tags \ Free(tags) /\ fault \in BOOLEAN
      /\ pc = "idle" => tag = NULL
  BY RestingFacts, Zenon
<1>4. /\ live' = DOMAIN tags' \ Free(tags') /\ fault' \in BOOLEAN
      /\ live \subseteq live'
  BY <1>2, <1>3, Zenon
<1>5. pc' \in {"idle", "copied", "stopped"}
  OBVIOUS
<1>6. IF pc' = "copied" THEN tag' \in live' ELSE tag' = NULL
  <2>1. CASE pc' = pc /\ tag' = tag
    <3>1. pc' # "copied"
      BY <2>1
    <3> QED
      BY <1>3, <2>1, <3>1, Zenon
  <2>2. CASE pc' = "copied" /\ tag' \in live
    BY <1>4, <2>2, Zenon
  <2> QED
    BY <2>1, <2>2
<1> QED
  BY <1>2, <1>4, <1>5, <1>6, RestingInv, Zenon

\* A caller's tag passes to free.
LEMMA FreeStep ==
    ASSUME HeapInv, pc \in {"idle", "copied"}, NEW t \in live,
           live' = live \ {t}, pc' = "left", tag' = t,
           UNCHANGED <<tags, l_freePages, l_completePages, held, fault>>
    PROVE  HeapInv'
<1>1. /\ live = DOMAIN tags \ Free(tags) /\ fault \in BOOLEAN
  BY RestingFacts, Zenon
<1>2. /\ Heap(tags, held, l_freePages, l_completePages)
      /\ \A u \in live : TAG + tags[u].size <= tags[u].real
  BY InvParts, Zenon
<1>3. /\ tags' = tags /\ l_freePages' = l_freePages
      /\ l_completePages' = l_completePages /\ held' = held /\ fault' = fault
  BY Zenon
<1>4. /\ Heap(tags', held', l_freePages', l_completePages')
      /\ fault' \in BOOLEAN
      /\ live' \cup {tag'} = DOMAIN tags' \ Free(tags') /\ tag' \notin live'
      /\ \A u \in live' : TAG + tags'[u].size <= tags'[u].real
  BY <1>1, <1>2, <1>3, Zenon
<1>5. pc' \in {"left", "right", "put"} /\ pc' \notin {"right", "put"} /\ pc' # "put"
  OBVIOUS
<1>6. NeighboursDone'
  BY <1>5, Zenon DEF NeighboursDone
<1> QED
  BY <1>4, <1>5, <1>6, WorkingInv, Zenon

LEMMA MeltLeftStep ==
    ASSUME Laws, HeapInv, MeltLeft
    PROVE  HeapInv'
<1> DEFINE left == tags[tag].left
           j == Joined(left)
<1>1. /\ pc = "left" /\ left # NULL /\ tags[left].index >= 0
      /\ tags' = j /\ l_freePages' = remove_tag(l_freePages, left) /\ tag' = left
      /\ l_completePages' = l_completePages /\ held' = held /\ live' = live
      /\ pc' = pc /\ fault' = fault
  BY Zenon DEF MeltLeft
<1>2. pc \in {"left", "right", "put"} /\ pc' \in {"left", "right", "put"}
      /\ pc' \notin {"right", "put"} /\ pc' # "put"
  BY <1>1
<1>3. /\ tag \in DOMAIN tags \ Free(tags) /\ tag \notin live
      /\ DOMAIN tags \ Free(tags) = live \cup {tag}
  BY <1>2, InHandFacts, Zenon
<1>4. /\ Heap(tags, held, l_freePages, l_completePages) /\ Ground(tags, held)
      /\ NULL \notin DOMAIN tags
      /\ \A u \in live : TAG + tags[u].size <= tags[u].real
      /\ \A u \in DOMAIN tags : u \in Free(tags) <=> tags[u].index >= 0
  BY InvParts, Zenon
<1> HIDE DEF left
<1>5. left \in DOMAIN tags /\ tags[left].right = tag
  BY <1>1, <1>3, <1>4, Zenon DEF Ground, LeftRight, left
<1>6. left \in Free(tags)
  BY <1>1, <1>4, <1>5, Zenon
<1>7. /\ Heap(j, held, remove_tag(l_freePages, left), l_completePages)
      /\ JoinParts(j, left, tags[left].right, tags[tags[left].right].right)
      /\ Free(j) = Free(tags) \ {left}
  <2>1. tags[left].right # NULL
    BY <1>3, <1>4, <1>5, Zenon
  <2>2. tag \notin Free(tags) /\ {left, tag} = {left, tags[left].right}
    BY <1>3, <1>5, Zenon
  <2> QED
    BY <1>4, <1>5, <1>6, <2>1, <2>2, JoinHeap, Zenon
<1> HIDE DEF j
<1>8. /\ DOMAIN j = DOMAIN tags \ {tag}
      /\ \A u \in DOMAIN tags \ {left, tag} : /\ j[u].real = tags[u].real
                                              /\ j[u].size = tags[u].size
  BY <1>5, <1>7, Zenon DEF JoinParts
<1>9. Heap(tags', held', l_freePages', l_completePages')
  BY <1>1, <1>7, Zenon
<1>10. live' \cup {tag'} = DOMAIN tags' \ Free(tags') /\ tag' \notin live'
  <2>1. left # tag /\ left \notin live
    BY <1>3, <1>6, Zenon
  <2>2. \A u : u \in live \/ u = left <=> u \in DOMAIN j /\ u \notin Free(j)
    <3>1. \A u : u \in DOMAIN tags /\ u \notin Free(tags) <=> u \in live \/ u = tag
      BY <1>3, Zenon
    <3>2. Free(j) = Free(tags) \ {left}
      BY <1>7, Zenon
    <3> QED
      BY <1>3, <1>5, <1>8, <2>1, <3>1, <3>2, Zenon
  <2>3. live \cup {left} = DOMAIN j \ Free(j)
    BY <2>2, Zenon
  <2> QED
    BY <1>1, <2>1, <2>3, Zenon
<1>11. \A u \in live' : TAG + tags'[u].size <= tags'[u].real
  <2> TAKE u \in live'
  <2>1. u \in live /\ u \in DOMAIN tags \ {left, tag}
    BY <1>1, <1>3, <1>6, Zenon
  <2> QED
    BY <1>1, <1>4, <1>8, <2>1, Zenon
<1>12. NeighboursDone'
  BY <1>2, Zenon DEF NeighboursDone
<1>13. fault' \in BOOLEAN
  BY <1>1, Zenon DEF HeapInv, Owned
<1> QED
  BY <1>2, <1>9, <1>10, <1>11, <1>12, <1>13, WorkingInv, Zenon

LEMMA MeltRightStep ==
    ASSUME Laws, HeapInv, MeltRight
    PROVE  HeapInv'
<1> DEFINE right == tags[tag].right
           j == Joined(tag)
<1>1. /\ pc = "right" /\ right # NULL /\ tags[right].index >= 0
      /\ tags' = j /\ l_freePages' = remove_tag(l_freePages, right) /\ tag' = tag
      /\ l_completePages' = l_completePages /\ held' = held /\ live' = live
      /\ pc' = pc /\ fault' = fault
  BY Zenon DEF MeltRight
<1>2. pc \in {"left", "right", "put"} /\ pc' \in {"left", "right", "put"}
      /\ pc \in {"right", "put"} /\ pc' # "put"
  BY <1>1
<1>3. /\ tag \in DOMAIN tags \ Free(tags) /\ tag \notin live
      /\ DOMAIN tags \ Free(tags) = live \cup {tag}
  BY <1>2, InHandFacts, Zenon
<1>4. /\ Heap(tags, held, l_freePages, l_completePages) /\ Ground(tags, held)
      /\ \A u \in live : TAG + tags[u].size <= tags[u].real
      /\ \A u \in DOMAIN tags : u \in Free(tags) <=> tags[u].index >= 0
  BY InvParts, Zenon
<1>5. tags[tag].left \notin Free(tags)
  BY <1>2, Zenon DEF HeapInv, NeighboursDone
<1>6. right \in DOMAIN tags
  BY <1>1, <1>3, <1>4, RightFacts, Zenon
<1>7. right \in Free(tags)
  BY <1>1, <1>4, <1>6, Zenon
<1>8. /\ Heap(j, held, remove_tag(l_freePages, right), l_completePages)
      /\ JoinParts(j, tag, right, tags[right].right)
      /\ Free(j) = Free(tags) \ {right}
  <2>1. tags[tag].right # NULL /\ tag \notin Free(tags) /\ tag \in DOMAIN tags
    BY <1>1, <1>3, Zenon
  <2>2. {right, tag} = {tag, tags[tag].right}
    BY Zenon
  <2> QED
    BY <1>4, <1>7, <2>1, <2>2, JoinHeap, Zenon
<1> HIDE DEF j, right
<1>9. /\ DOMAIN j = DOMAIN tags \ {right} /\ j[tag].left = tags[tag].left
      /\ \A u \in DOMAIN tags \ {tag, right} : /\ j[u].real = tags[u].real
                                               /\ j[u].size = tags[u].size
  BY <1>8, Zenon DEF JoinParts
<1>10. Heap(tags', held', l_freePages', l_completePages')
  BY <1>1, <1>8, Zenon
<1>11. live' \cup {tag'} = DOMAIN tags' \ Free(tags') /\ tag' \notin live'
  BY <1>1, <1>3, <1>7, <1>8, <1>9, Zenon
<1>12. \A u \in live' : TAG + tags'[u].size <= tags'[u].real
  <2> TAKE u \in live'
  <2>1. u \in live /\ u \in DOMAIN tags \ {tag, right}
    BY <1>1, <1>3, <1>7, Zenon
  <2> QED
    BY <1>1, <1>4, <1>9, <2>1, Zenon
<1>13. tags'[tag'].left \notin Free(tags')
  BY <1>1, <1>5, <1>8, <1>9, Zenon
<1>14. NeighboursDone'
  BY <1>2, <1>13, Zenon DEF NeighboursDone
<1>15. fault' \in BOOLEAN
  BY <1>1, Zenon DEF HeapInv, Owned
<1> QED
  BY <1>2, <1>10, <1>11, <1>12, <1>14, <1>15, WorkingInv, Zenon

\* free looks at a neighbour and leaves it.
LEMMA NeighbourBusy ==
    ASSUME HeapInv, NEW u, ~(u # NULL /\ tags[u].index >= 0)
    PROVE  u \notin Free(tags)
<1>1. /\ NULL \notin DOMAIN tags
      /\ \A v \in DOMAIN tags : v \in Free(tags) <=> tags[v].index >= 0
  BY InvParts, Zenon
<1> SUFFICES ASSUME u \in Free(tags) PROVE FALSE
  BY Zenon
<1>2. u \in DOMAIN tags
  BY Zenon DEF Free
<1> QED
  BY <1>1, <1>2, Zenon

LEMMA SideDone ==
    ASSUME HeapInv, pc \in {"left", "right"}, pc' \in {"right", "put"},
           UNCHANGED <<tags, l_freePages, l_completePages, held, live, tag, fault>>,
           tags[tag].left \notin Free(tags),
           pc' = "put" => tags[tag].right \notin Free(tags)
    PROVE  HeapInv'
<1>1. pc \in {"left", "right", "put"} /\ pc' \in {"left", "right", "put"}
  OBVIOUS
<1>2. /\ tags' = tags /\ l_freePages' = l_freePages /\ live' = live /\ tag' = tag
      /\ l_completePages' = l_completePages /\ held' = held /\ fault' = fault
  BY Zenon
<1>3. /\ tag \notin live /\ DOMAIN tags \ Free(tags) = live \cup {tag}
  BY <1>1, InHandFacts, Zenon
<1>4. /\ Heap(tags, held, l_freePages, l_completePages)
      /\ \A u \in live : TAG + tags[u].size <= tags[u].real
  BY InvParts, Zenon
<1>5. NeighboursDone'
  BY <1>2, Zenon DEF NeighboursDone
<1>6. fault' \in BOOLEAN
  BY <1>2, Zenon DEF HeapInv, Owned
<1>7. /\ Heap(tags', held', l_freePages', l_completePages')
      /\ live' \cup {tag'} = DOMAIN tags' \ Free(tags') /\ tag' \notin live'
      /\ \A u \in live' : TAG + tags'[u].size <= tags'[u].real
  BY <1>2, <1>3, <1>4, Zenon
<1> QED
  BY <1>1, <1>5, <1>6, <1>7, WorkingInv, Zenon

LEMMA FreeKeepsStep ==
    ASSUME Laws, HeapInv, FreeKeeps
    PROVE  HeapInv'
<1> DEFINE b == Bucket(tags[tag].real)
<1>1. /\ pc = "put" /\ ~Surplus(b)
      /\ l_freePages' = insert_tag(l_freePages, tag, b)
      /\ l_completePages' = CountUp(l_completePages, tags, tag, b)
      /\ tags' = [tags EXCEPT ![tag].index = b]
      /\ pc' = "idle" /\ tag' = NULL
      /\ held' = held /\ live' = live /\ fault' = fault
  BY Zenon DEF FreeKeeps, CountUp, WholeIn, Whole
<1>2. pc \in {"left", "right", "put"} /\ pc \in {"right", "put"}
      /\ pc' \in {"idle", "copied", "stopped"} /\ pc' # "copied"
  BY <1>1
<1>3. /\ tag \in DOMAIN tags /\ tag \notin Free(tags) /\ tag \notin live
      /\ DOMAIN tags \ Free(tags) = live \cup {tag}
  BY <1>2, InHandFacts, Zenon
<1>4. /\ Heap(tags, held, l_freePages, l_completePages) /\ Typed(tags)
      /\ \A u \in live : TAG + tags[u].size <= tags[u].real
  BY InvParts, Zenon
<1>5. tags[tag].left \notin Free(tags) /\ tags[tag].right \notin Free(tags)
  BY <1>1, <1>2, Zenon DEF HeapInv, NeighboursDone
<1>6. ~(WholeIn(tags, tag) /\ l_completePages[b] = MAXCOMPLETE)
  BY <1>1, Zenon DEF Surplus, WholeIn, Whole
<1>7. Reindexed(tags', tags, tag, b)
  <2>1. tags[tag].real \in Nat /\ TAG <= tags[tag].real
    BY <1>3, <1>4, TagTypes, Zenon
  <2>2. b \in Exps \cup {-1}
    BY <2>1, BucketIn, Zenon
  <2> HIDE DEF b
  <2>3. Reindexed([tags EXCEPT ![tag].index = b], tags, tag, b)
    BY <1>3, <1>4, <2>2, ReindexFacts, Zenon
  <2> QED
    BY <1>1, <2>3, Zenon
<1>8. /\ Heap(tags', held, insert_tag(l_freePages, tag, b),
              CountUp(l_completePages, tags, tag, b))
      /\ Free(tags') = Free(tags) \cup {tag}
  BY <1>3, <1>4, <1>5, <1>6, <1>7, PutHeap, Zenon
<1> HIDE DEF b
<1>9. Heap(tags', held', l_freePages', l_completePages')
  BY <1>1, <1>8, Zenon
<1>10. /\ DOMAIN tags' = DOMAIN tags
       /\ \A u \in DOMAIN tags : tags'[u].real = tags[u].real /\ tags'[u].size = tags[u].size
  BY <1>7, Zenon DEF Reindexed
<1>11. live' = DOMAIN tags' \ Free(tags')
  BY <1>1, <1>3, <1>8, <1>10, Zenon
<1>12. \A u \in live' : TAG + tags'[u].size <= tags'[u].real
  <2> TAKE u \in live'
  <2>1. u \in live /\ u \in DOMAIN tags
    BY <1>1, <1>3, Zenon
  <2> QED
    BY <1>4, <1>10, <2>1, Zenon
<1>13. fault' \in BOOLEAN
  BY <1>1, Zenon DEF HeapInv, Owned
<1> QED
  BY <1>1, <1>2, <1>9, <1>11, <1>12, <1>13, RestingInv, Zenon

LEMMA FreeReleasesStep ==
    ASSUME Laws, HeapInv, FreeReleases
    PROVE  HeapInv' /\ \E r \in held : held' = held \ {r}
<1> DEFINE b == Bucket(tags[tag].real)
           pages == AtLeast((tags[tag].real + PAGE - 1) \div PAGE, l_pageCount)
           g == [u \in DOMAIN tags \ {tag} |-> tags[u]]
           h == UnmapRange(tag \div PAGE, pages)
<1>1. /\ pc = "put" /\ Surplus(b) /\ held' = h /\ tags' = g
      /\ pc' = "idle" /\ tag' = NULL
      /\ l_freePages' = l_freePages /\ l_completePages' = l_completePages
      /\ live' = live /\ fault' = fault
  BY Zenon DEF FreeReleases
<1>2. pc \in {"left", "right", "put"} /\ pc' \in {"idle", "copied", "stopped"}
      /\ pc' # "copied"
  BY <1>1
<1>3. /\ tag \in DOMAIN tags /\ tag \notin Free(tags) /\ tag \notin live
      /\ DOMAIN tags \ Free(tags) = live \cup {tag}
  BY <1>2, InHandFacts, Zenon
<1>4. /\ Heap(tags, held, l_freePages, l_completePages)
      /\ \A u \in live : TAG + tags[u].size <= tags[u].real
  BY InvParts, Zenon
<1>5. Whole(tag)
  BY <1>1, Zenon DEF Surplus
<1> HIDE DEF b
<1>6. ReleasedHeap(g, h, tag) /\ \E r \in held : h = held \ {r}
  BY <1>3, <1>4, <1>5, ReleaseHeap, Zenon
<1> HIDE DEF g, h, pages
<1>7. /\ Heap(g, h, l_freePages, l_completePages)
      /\ DOMAIN g = DOMAIN tags \ {tag} /\ \A u \in DOMAIN g : g[u] = tags[u]
      /\ Free(g) = Free(tags)
  BY <1>6, Zenon DEF ReleasedHeap
<1>8. Heap(tags', held', l_freePages', l_completePages')
  BY <1>1, <1>7, Zenon
<1>9. live' = DOMAIN tags' \ Free(tags')
  BY <1>1, <1>3, <1>7, Zenon
<1>10. \A u \in live' : TAG + tags'[u].size <= tags'[u].real
  <2> TAKE u \in live'
  <2>1. u \in live /\ u \in DOMAIN g
    BY <1>1, <1>9, Zenon
  <2> QED
    BY <1>1, <1>4, <1>7, <2>1, Zenon
<1>11. fault' \in BOOLEAN
  BY <1>1, Zenon DEF HeapInv, Owned
<1>12. HeapInv'
  BY <1>1, <1>2, <1>8, <1>9, <1>10, <1>11, RestingInv, Zenon
<1> QED
  BY <1>1, <1>6, <1>12, Zenon

LEMMA InitInv ==
    ASSUME Laws, Init
    PROVE  HeapInv
<1>1. /\ DOMAIN tags = {} /\ held = {} /\ live = {} /\ pc = "idle" /\ tag = NULL
      /\ fault = FALSE /\ l_freePages = [b \in Exps |-> <<>>]
      /\ l_completePages = [b \in Exps |-> 0]
      /\ tags \in [DOMAIN tags -> TagSet]
  BY DEF Init
<1>2. Free(tags) = {}
  BY <1>1, Zenon DEF Free
<1>3. Typed(tags)
  BY <1>1, NoneCounted, Zenon DEF Typed
<1>4. Ground(tags, held)
  BY <1>1, <1>3, Zenon DEF Ground, Ranges, Apart, Inside, LeftRight
<1>5. \A b \in Exps : l_freePages[b] = << >> /\ l_completePages[b] = 0
  BY <1>1, Zenon
<1>6. DOMAIN (<< >>) = {} /\ << >> \in Seq(DOMAIN tags)
  OBVIOUS
<1>7. Filed(tags, l_freePages)
  <2>1. Good(l_freePages, DOMAIN tags)
    BY <1>1, <1>5, <1>6, Zenon DEF Good, NoTwice
  <2> QED
    BY <1>1, <1>2, <2>1, Zenon DEF Filed
<1>8. Counted(tags, l_freePages, l_completePages)
  <2>1. \A b \in Exps : Wholes(tags, l_freePages[b]) = {}
    BY <1>5, <1>6, Zenon DEF Wholes, Range
  <2>2. Cardinality({}) = 0
    BY NoneCounted, Zenon
  <2>3. l_completePages \in [Exps -> Int] /\ 0 <= MAXCOMPLETE
    BY <1>1, Consts
  <2> QED
    BY <1>5, <2>1, <2>2, <2>3, Zenon DEF Counted
<1>9. Heap(tags, held, l_freePages, l_completePages)
  BY <1>2, <1>4, <1>7, <1>8, Zenon DEF Heap, Melted
<1>10. /\ pc \in {"idle", "left", "right", "put", "copied", "stopped"}
       /\ pc \notin {"left", "right", "put"} /\ pc \notin {"right", "put"}
       /\ pc # "copied" /\ pc # "put"
  BY <1>1
<1>11. Owned
  BY <1>1, <1>2, <1>10, Zenon DEF Owned, InHand
<1>12. NeighboursDone
  BY <1>10, Zenon DEF NeighboursDone
<1> QED
  BY <1>9, <1>11, <1>12, Zenon DEF HeapInv

LEMMA NextInv ==
    ASSUME Laws, HeapInv, [Next]_vars
    PROVE  HeapInv'
<1>1. CASE \E size \in Sizes : malloc(size)
  <2>1. PICK size \in Sizes : malloc(size)
    BY <1>1
  <2>2. pc = "idle" /\ (MallocReuses(size) \/ MallocGrows(size)) /\ pc' = pc /\ tag' = tag
    BY <2>1, Zenon DEF malloc
  <2> QED
    BY <2>2, MallocStep, Zenon
<1>2. CASE \E t \in live : free(t)
  <2>1. PICK t \in live : free(t)
    BY <1>2
  <2>2. /\ pc = "idle" /\ live' = live \ {t} /\ pc' = "left" /\ tag' = t
        /\ UNCHANGED <<tags, l_freePages, l_completePages, held, fault>>
    BY <2>1, Zenon DEF free
  <2>3. pc \in {"idle", "copied"}
    BY <2>2
  <2> QED
    BY <2>2, <2>3, FreeStep, Zenon
<1>3. CASE \E t \in live, size \in Sizes : realloc(t, size)
  <2>1. PICK t \in live, size \in Sizes : realloc(t, size)
    BY <1>3
  <2>2. /\ pc = "idle" /\ (MallocReuses(size) \/ MallocGrows(size))
        /\ pc' = "copied" /\ tag' \in live
    BY <2>1, Zenon DEF realloc
  <2> QED
    BY <2>2, MallocStep, Zenon
<1>4. CASE \E t \in live, size \in Sizes : ReallocFails(t, size)
  <2>1. /\ pc = "idle" /\ pc' = "stopped" /\ fault' = TRUE
        /\ tags' = tags /\ l_freePages' = l_freePages /\ live' = live /\ tag' = tag
        /\ l_completePages' = l_completePages /\ held' = held
    BY <1>4, Zenon DEF ReallocFails
  <2>2. /\ pc \in {"idle", "copied", "stopped"} /\ pc' \in {"idle", "copied", "stopped"}
        /\ pc' # "copied" /\ fault' \in BOOLEAN
    BY <2>1
  <2>3. live = DOMAIN tags \ Free(tags) /\ tag = NULL
    BY <2>1, <2>2, RestingFacts, Zenon
  <2>4. /\ Heap(tags', held', l_freePages', l_completePages')
        /\ \A u \in live' : TAG + tags'[u].size <= tags'[u].real
        /\ live' = DOMAIN tags' \ Free(tags') /\ tag' = NULL
    BY <2>1, <2>3, InvParts, Zenon
  <2> QED
    BY <2>2, <2>4, RestingInv, Zenon
<1>5. CASE MeltLeft
  BY <1>5, MeltLeftStep, Zenon
<1>6. CASE LeftDone
  <2>1. /\ pc = "left" /\ pc' = "right"
        /\ ~(tags[tag].left # NULL /\ tags[tags[tag].left].index >= 0)
        /\ UNCHANGED <<tags, l_freePages, l_completePages, held, live, tag, fault>>
    BY <1>6, Zenon DEF LeftDone
  <2>2. tags[tag].left \notin Free(tags)
    BY <2>1, NeighbourBusy, Zenon
  <2>3. pc \in {"left", "right"} /\ pc' \in {"right", "put"} /\ pc' # "put"
    BY <2>1
  <2> QED
    BY <2>1, <2>2, <2>3, SideDone, Zenon
<1>7. CASE MeltRight
  BY <1>7, MeltRightStep, Zenon
<1>8. CASE RightDone
  <2>1. /\ pc = "right" /\ pc' = "put"
        /\ ~(tags[tag].right # NULL /\ tags[tags[tag].right].index >= 0)
        /\ UNCHANGED <<tags, l_freePages, l_completePages, held, live, tag, fault>>
    BY <1>8, Zenon DEF RightDone
  <2>2. tags[tag].right \notin Free(tags)
    BY <2>1, NeighbourBusy, Zenon
  <2>3. pc \in {"left", "right"} /\ pc' \in {"right", "put"} /\ pc \in {"right", "put"}
    BY <2>1
  <2>4. tags[tag].left \notin Free(tags)
    BY <2>3, Zenon DEF HeapInv, NeighboursDone
  <2> QED
    BY <2>1, <2>2, <2>3, <2>4, SideDone, Zenon
<1>9. CASE FreeKeeps
  BY <1>9, FreeKeepsStep, Zenon
<1>10. CASE FreeReleases
  BY <1>10, FreeReleasesStep, Zenon
<1>11. CASE ReallocFrees
  <2>1. /\ pc = "copied" /\ live' = live \ {tag} /\ pc' = "left" /\ tag' = tag
        /\ UNCHANGED <<tags, l_freePages, l_completePages, held, fault>>
    BY <1>11, Zenon DEF ReallocFrees
  <2>2. pc \in {"idle", "copied"} /\ pc \in {"idle", "copied", "stopped"}
    BY <2>1
  <2>3. tag \in live
    BY <2>1, <2>2, RestingFacts, Zenon
  <2> QED
    BY <2>1, <2>2, <2>3, FreeStep, Zenon
<1>12. CASE UNCHANGED vars
  <2>1. /\ tags' = tags /\ l_freePages' = l_freePages /\ live' = live /\ tag' = tag
        /\ l_completePages' = l_completePages /\ held' = held /\ fault' = fault
        /\ pc' = pc
    BY <1>12, Zenon DEF vars
  <2> QED
    BY <2>1, Zenon DEF HeapInv, Owned, NeighboursDone, InHand
<1> QED
  BY <1>1, <1>2, <1>3, <1>4, <1>5, <1>6, <1>7, <1>8, <1>9, <1>10, <1>11, <1>12, SMTT(30)
  DEF Next

-----------------------------------------------------------------------------
(* What follows from the invariant.                                        *)

\* The tags in the lists are the free ones.
LEMMA ListedFree ==
    ASSUME HeapInv
    PROVE  /\ Listed = Free(tags)
           /\ \A t \in Listed : \E b \in Exps : /\ t \in Range(l_freePages[b])
                                                /\ b = Bucket(tags[t].real)
<1>1. /\ Typed(tags) /\ Filed(tags, l_freePages)
      /\ \A b \in Exps : Range(l_freePages[b]) \subseteq Free(tags)
  BY HeapParts, Zenon DEF HeapInv
<1>2. \A t \in Free(tags) : \E b \in Exps : /\ t \in Range(l_freePages[b])
                                            /\ b = Bucket(tags[t].real)
  <2> TAKE t \in Free(tags)
  <2>1. t \in DOMAIN tags /\ tags[t].index \in Exps
    BY <1>1, FreeFacts, Zenon
  <2>2. t \in Range(l_freePages[tags[t].index]) /\ tags[t].index = Bucket(tags[t].real)
    BY <1>1, <2>1, Zenon DEF Filed
  <2> QED
    BY <2>1, <2>2, Zenon
<1>3. Listed = Free(tags)
  BY <1>1, <1>2, Zenon DEF Listed
<1> QED
  BY <1>2, <1>3, Zenon

LEMMA InvSound ==
    ASSUME HeapInv
    PROVE  HeapSound
<1>1. /\ Heap(tags, held, l_freePages, l_completePages)
      /\ Ground(tags, held) /\ Typed(tags)
      /\ live \subseteq DOMAIN tags \ Free(tags)
      /\ \A u \in live : TAG + tags[u].size <= tags[u].real
  BY InvParts, Zenon
<1>2. /\ Good(l_freePages, DOMAIN tags) /\ Counted(tags, l_freePages, l_completePages)
  BY <1>1, HeapParts, Zenon
<1>3. /\ pc \in {"idle", "left", "right", "put", "copied", "stopped"}
      /\ fault \in BOOLEAN
      /\ pc = "copied" => tag \in live
      /\ pc \in {"idle", "stopped"} => tag = NULL
  BY Zenon DEF HeapInv, Owned
<1>4. tag \in DOMAIN tags \cup {NULL}
  <2>1. CASE pc \in {"left", "right", "put"}
    BY <2>1, InHandFacts, Zenon
  <2>2. CASE pc \in {"idle", "stopped"}
    BY <1>3, <2>2, Zenon
  <2>3. CASE pc = "copied"
    BY <1>1, <1>3, <2>3, Zenon
  <2> QED
    BY <1>3, <2>1, <2>2, <2>3
<1>5. TypeOK
  <2>1. tags \in [DOMAIN tags -> TagSet]
    BY <1>1, Zenon DEF Typed
  <2>2. held \subseteq RangeSet
    BY <1>1, Zenon DEF Ground, Ranges
  <2>3. l_freePages \in [Exps -> Seq(DOMAIN tags)] /\ l_completePages \in [Exps -> Int]
    BY <1>2, Zenon DEF Good, Counted
  <2> QED
    BY <1>1, <1>3, <1>4, <2>1, <2>2, <2>3, Zenon DEF TypeOK, TagSet, RangeSet
<1>6. TagsTile
  BY <1>1, Zenon DEF TagsTile, Ground, LeftRight, First, Last, End
<1>7. BlocksApart
  <2> SUFFICES ASSUME NEW t \in live, NEW u \in DOMAIN tags \ {t}
               PROVE  u + tags[u].real <= t \/ t + TAG + tags[t].size <= u
    BY <1>1, Zenon DEF BlocksApart
  <2>1. End(tags, t) <= u \/ End(tags, u) <= t
    BY <1>1, Zenon DEF Ground, Apart
  <2>2. /\ t \in Nat /\ End(tags, t) = t + tags[t].real
        /\ tags[t].real \in Nat /\ tags[t].size \in Nat
        /\ TAG + tags[t].size <= tags[t].real
    BY <1>1, TagTypes, Zenon
  <2>3. u \in Nat /\ End(tags, u) = u + tags[u].real
    BY <1>1, TagTypes, Zenon
  <2> QED
    BY <2>1, <2>2, <2>3, Consts
<1> QED
  BY <1>5, <1>6, <1>7, Zenon DEF HeapSound

LEMMA InvOnce ==
    ASSUME HeapInv
    PROVE  FreeOnce
<1>1. /\ Heap(tags, held, l_freePages, l_completePages)
      /\ live \subseteq DOMAIN tags \ Free(tags)
  BY InvParts, Zenon
<1>2. /\ Filed(tags, l_freePages) /\ Melted(tags) /\ Good(l_freePages, DOMAIN tags)
      /\ \A b \in Exps : Range(l_freePages[b]) \subseteq Free(tags)
  BY <1>1, HeapParts, Zenon
<1>3. Listed = Free(tags)
  BY ListedFree, Zenon
<1>4. \A u \in Free(tags) : u \in DOMAIN tags
  BY Zenon DEF Free
<1>5. ListedOrLive
  <2>1. ASSUME NEW b \in Exps, NEW i \in DOMAIN l_freePages[b],
               NEW k \in DOMAIN l_freePages[b]
        PROVE  /\ tags[l_freePages[b][i]].index = b
               /\ i # k => l_freePages[b][i] # l_freePages[b][k]
    <3>1. l_freePages[b][i] \in Range(l_freePages[b])
      BY Zenon DEF Range
    <3>2. l_freePages[b][i] \in DOMAIN tags
      BY <1>2, <1>4, <3>1, Zenon
    <3>3. tags[l_freePages[b][i]].index = b
      BY <1>2, <3>1, <3>2, Zenon DEF Filed
    <3>4. NoTwice(l_freePages[b])
      BY <1>2, Zenon DEF Good
    <3> QED
      BY <3>3, <3>4, Zenon DEF NoTwice
  <2>2. live \cap Listed = {}
    BY <1>1, <1>3, Zenon
  <2>3. pc = "idle" => DOMAIN tags = live \cup Listed
    <3> HAVE pc = "idle"
    <3>1. pc \in {"idle", "copied", "stopped"}
      OBVIOUS
    <3>2. live = DOMAIN tags \ Free(tags)
      BY <3>1, RestingFacts, Zenon
    <3> QED
      BY <1>3, <1>4, <3>2, Zenon
  <2> QED
    BY <2>1, <2>2, <2>3, Zenon DEF ListedOrLive
<1>6. NoFreeNeighbours
  BY <1>2, <1>3, Zenon DEF NoFreeNeighbours, Melted
<1> QED
  BY <1>5, <1>6, Zenon DEF FreeOnce

LEMMA InvNoneFits ==
    ASSUME Laws, HeapInv
    PROVE  NoneFits
<1> SUFFICES ASSUME NEW size \in Sizes, MallocGrows(size), NEW t \in Listed
             PROVE  tags[t].real - TAG < size + TAG
  BY Zenon DEF NoneFits
<1>1. Buckets(size) = {}
  BY Zenon DEF MallocGrows
<1>2. Typed(tags) /\ Listed = Free(tags)
  BY InvParts, ListedFree, Zenon
<1>3. t \in DOMAIN tags
  BY <1>2, Zenon DEF Free
<1>4. size \in Nat /\ tags[t].real \in Nat /\ TAG \in Nat
  BY <1>2, <1>3, TagTypes, Consts
<1> SUFFICES ASSUME tags[t].real - TAG >= size + TAG PROVE FALSE
  BY <1>4
<1>5. PICK b \in Exps : t \in Range(l_freePages[b]) /\ b = Bucket(tags[t].real)
  BY ListedFree, Zenon
<1>6. PICK i \in DOMAIN l_freePages[b] : l_freePages[b][i] = t
  BY <1>5, Zenon DEF Range
<1>7. i \in Roomy(b, size)
  BY <1>6, Zenon DEF Roomy
<1>8. b \in AtLeast(getexp(size), MINEXP) .. MAXEXP - 1
  <2>1. tags[t].real - TAG \in Nat /\ size <= tags[t].real - TAG
    BY <1>4
  <2>2. /\ AtLeast(getexp(size), MINEXP) \in Exps
        /\ AtLeast(getexp(size), MINEXP) <= AtLeast(getexp(tags[t].real - TAG), MINEXP)
    BY <1>4, <2>1, BucketFacts, Zenon
  <2>3. AtLeast(getexp(size), MINEXP) <= b
    BY <1>5, <2>2, Zenon DEF Bucket
  <2> QED
    BY <2>2, <2>3, Consts DEF Exps
<1>9. b \in Buckets(size)
  BY <1>7, <1>8, Zenon DEF Buckets
<1> QED
  BY <1>1, <1>9, Zenon

LEMMA InvCounted ==
    ASSUME HeapInv
    PROVE  CompleteCounted
  BY HeapParts, Zenon
  DEF HeapInv, CompleteCounted, Counted, Wholes, WholeIn, Whole

\* Every step is one of the pages' source, or leaves the ranges alone.
LEMMA StepSource ==
    ASSUME Laws, HeapInv, [Next]_vars
    PROVE  [Source!Alloc \/ Source!FreeWhole]_held
<1> SUFFICES ASSUME held' # held
             PROVE  Source!Alloc \/ Source!FreeWhole
  BY Zenon
<1>1. ASSUME NEW size \in Sizes, MallocGrows(size)
      PROVE  Source!Alloc
  <2>1. /\ Heap(tags, held, l_freePages, l_completePages)
        /\ live \subseteq DOMAIN tags \ Free(tags)
        /\ \A u \in live : TAG + tags[u].size <= tags[u].real
    BY InvParts, Zenon
  <2>2. size \in Nat
    BY Consts
  <2>3. PICK r \in Offers(PagesFor(size)) : held' = held \cup {r}
    BY <1>1, <2>1, <2>2, GrowsHeap, Zenon
  <2> DEFINE n == PagesFor(size)
  <2>4. n \in Nat \ {0}
    BY <2>2, PagesSuffice, Zenon
  <2>5. /\ r \in [base : HEAP_START .. HEAP_END - n, n : {n}]
        /\ \A q \in held : PagesOf(q) \cap PagesOf(r) = {}
    BY <2>3, Zenon DEF Offers
  <2> HIDE DEF n
  <2>6. /\ r.base \in HEAP_START .. HEAP_END - 1 /\ r.n \in 1 .. HEAP_END - r.base
        /\ r = [base |-> r.base, n |-> r.n]
    BY <2>4, <2>5, Consts
  <2>7. \A q \in held : Source!Pages(q) \cap Source!Pages([base |-> r.base, n |-> r.n]) = {}
    BY <2>5, <2>6, Zenon DEF PagesOf, Source!Pages
  <2>8. held' = held \cup {[base |-> r.base, n |-> r.n]}
    BY <2>3, <2>6, Zenon
  <2> QED
    BY <2>6, <2>7, <2>8, Zenon DEF Source!Alloc, Source!HeapPages
<1>2. ASSUME NEW size \in Sizes, MallocReuses(size)
      PROVE  FALSE
  BY <1>2, Zenon DEF MallocReuses
<1>3. ASSUME FreeReleases
      PROVE  Source!FreeWhole
  BY <1>3, FreeReleasesStep, Zenon DEF Source!FreeWhole
<1>4. held' = held \/ FreeReleases
      \/ \E size \in Sizes : MallocReuses(size) \/ MallocGrows(size)
  BY Zenon DEF Next, vars, malloc, free, realloc, ReallocFails, MeltLeft, LeftDone,
               MeltRight, RightDone, FreeKeeps, ReallocFrees
<1> QED
  BY <1>1, <1>2, <1>3, <1>4, Zenon

-----------------------------------------------------------------------------
(* The theorems.                                                           *)

INSTANCE FiniteSetTheorems

LEMMA LawsHold == Laws
<1>1. ASSUME NEW T \in SUBSET Nat, T # {}
      PROVE  \E x \in T : \A y \in T : x <= y
  <2>1. PICK x \in T : \A y \in T : ~(<<y, x>> \in OpToRel(<, Nat))
    BY <1>1, WFMin, NatLessThanWellFounded, Zenon
  <2>2. \A y \in T : ~(y < x)
    BY <2>1 DEF OpToRel
  <2> QED
    BY <2>2
<1>2. ASSUME NEW S, IsFiniteSet(S)
      PROVE  /\ \A T \in SUBSET S : IsFiniteSet(T)
             /\ \A x : /\ IsFiniteSet(S \cup {x}) /\ IsFiniteSet(S \ {x})
                       /\ x \notin S => Cardinality(S \cup {x}) = Cardinality(S) + 1
                       /\ Cardinality(S \ {x}) =
                             IF x \in S THEN Cardinality(S) - 1 ELSE Cardinality(S)
  BY <1>2, FS_Subset, FS_AddElement, FS_RemoveElement, Zenon
<1> QED
  BY <1>1, <1>2, FS_EmptySet, Zenon DEF Laws

LEMMA InvAlways == Spec => []HeapInv
<1>1. Init => HeapInv
  BY LawsHold, InitInv, Zenon
<1>2. HeapInv /\ [Next]_vars => HeapInv'
  BY LawsHold, NextInv, Zenon
<1> QED
  BY <1>1, <1>2, PTL DEF Spec

\* The heap is whole after any sequence of malloc, free and realloc: the tags
\* tile the pages, and the blocks of callers lie apart (split_tag, melt_left,
\* absorb_right).
THEOREM HeapStaysSound == Spec => []HeapSound
<1>1. HeapInv => HeapSound
  BY InvSound, Zenon
<1> QED
  BY <1>1, InvAlways, PTL

\* Free memory is in one list, in one place of it, and in one piece: malloc
\* never hands it out twice and free leaves no two free neighbours.
THEOREM FreeMemoryOnce == Spec => []FreeOnce
<1>1. HeapInv => FreeOnce
  BY InvOnce, Zenon
<1> QED
  BY <1>1, InvAlways, PTL

\* l_completePages counts the whole blocks of every list and never passes
\* MAXCOMPLETE (malloc, free).
THEOREM WholesAreCounted == Spec => []CompleteCounted
<1>1. HeapInv => CompleteCounted
  BY InvCounted, Zenon
<1> QED
  BY <1>1, InvAlways, PTL

\* malloc asks for pages only if no free tag, of whatever list, has the room.
THEOREM GrowsIfNoneFits == Spec => GrowsOnlyWhenFull
<1>1. HeapInv => NoneFits
  BY LawsHold, InvNoneFits, Zenon
<1> QED
  BY <1>1, InvAlways, PTL DEF GrowsOnlyWhenFull

\* malloc and free keep the contract of the pages' source: free gives back
\* exactly the ranges that malloc was given.
THEOREM RangesGoBackWhole == Spec => PageSourceKept
<1>1. Init => Source!Init
  BY Zenon DEF Init, Source!Init
<1>2. HeapInv /\ [Next]_vars => [Source!Alloc \/ Source!FreeWhole]_held
  BY LawsHold, StepSource, Zenon
<1> QED
  BY <1>1, <1>2, InvAlways, PTL DEF Spec, PageSourceKept, Source!WholeSpec
=============================================================================
