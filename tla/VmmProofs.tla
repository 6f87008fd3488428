----------------------------- MODULE VmmProofs ------------------------------
(***************************************************************************)
(* The region list of Vmm keeps its promises for every heap and every      *)
(* number of nodes and frames.  Three parts: the list tiles the heap       *)
(* (cutting, joining and marking regions, and the steps of the walks over  *)
(* it); the account of held, lost and pending pages; blank nodes, frames   *)
(* and the theorems.                                                       *)
(***************************************************************************)
EXTENDS Vmm, TLAPS

NodeType == node \in [Nodes -> [base : Nat, cnt : Nat, free : BOOLEAN,
                                next : Nodes \cup {NULL}]]

\* The regions lie in the heap and leave out no page of it.
Fills ==
    /\ \A i \in Live : HEAP_START <= node[i].base /\ EndOf(i) <= HEAP_END
    /\ \A x \in HeapPages : \E i \in Live : node[i].base <= x /\ x < EndOf(i)

Struct == NodeType /\ head \in Nodes /\ ListTilesHeap /\ Fills

InRegion(x, i) == node[i].base <= x /\ x < EndOf(i)

\* allocvmmr finds a blank node if there is one.
AllocWorks == Blanks # {} => allocvmmr \in Blanks

\* x is a page of a region in use.
Used(x) == \E i \in Live : ~node[i].free /\ InRegion(x, i)

\* The pages from b to the one before e lie in one region in use.
InUsed(b, e) == \E i \in Live : ~node[i].free /\ node[i].base <= b /\ e <= EndOf(i)

\* The pages of the call under way that lie in a region in use though nobody
\* holds them: no longer (vmm_unmap_pages) or not yet (vmm_map_pages).
Pending == IF pc \in {"map", "unmap"} THEN Pages(ArgRange) ELSE {}

Control ==
    /\ pc \in {"idle", "ffreer", "map", "unmap", "merge"}
    /\ arg \in [vst : Nat, n : Nat, user : BOOLEAN, cont : BOOLEAN]
    /\ pc \in {"ffreer", "map", "unmap"} => arg.n > 0
    /\ curr \in Nodes \cup {NULL}
    /\ pc = "ffreer" => curr \in Live \cup {NULL}
    /\ pc \in {"map", "unmap", "merge"} => curr \in Live

\* The pages the call is about lie in one region in use; the walk of
\* vmm_unmap_pages has it ahead.
Target ==
    /\ pc = "map" => \E i \in Live : Covers(i)
    /\ pc = "unmap" => \E i \in Live : Covers(i) /\ node[curr].base <= node[i].base

\* Every page of a region in use is held, lost or in the call's hands, and is
\* only one of the three.
Account ==
    /\ held \subseteq [base : HeapPages, n : Nat \ {0}]
    /\ lost \subseteq HeapPages
    /\ \A x \in HeapPages : Used(x) <=> x \in HeldPages \/ x \in lost \/ x \in Pending
    /\ \A x \in HeapPages : /\ x \in HeldPages => x \notin lost /\ x \notin Pending
                            /\ x \in lost => x \notin Pending

\* A range lies in one region in use, and no two ranges share a page.
HeldApart ==
    /\ \A r \in held : InUsed(r.base, r.base + r.n)
    /\ \A r, q \in held : r # q => r.base + r.n <= q.base \/ q.base + q.n <= r.base

Mapped ==
    /\ mapped \subseteq HeapPages
    /\ nfree \in Nat
    /\ HeldPages \subseteq mapped
    /\ mapped \subseteq HeldPages \cup lost

\* No two free regions in a row, except ahead of the merging.
Coalesced ==
    \A i \in Live :
        /\ node[i].free
        /\ node[i].next # NULL
        /\ pc = "merge" => node[i].base < node[curr].base
        => ~node[node[i].next].free

\* What vmm_ffreer has passed does not fit.
Passed ==
    pc = "ffreer" =>
        \A i \in Live : (curr = NULL \/ node[i].base < node[curr].base) => ~Fits(i)

IInv ==
    /\ Struct /\ Control /\ Target /\ Account /\ HeldApart /\ Mapped
    /\ Coalesced /\ Passed /\ FramesConserved

-----------------------------------------------------------------------------
(* Facts about a list that tiles the heap.                                 *)

LEMMA Consts ==
    /\ HEAP_START \in Nat /\ HEAP_START > 0
    /\ HEAP_END \in Nat /\ HEAP_START < HEAP_END
    /\ 0 \in Nodes /\ Nodes \subseteq Nat
    /\ NULL \notin Nodes
BY VmmAssumption DEF Nodes, NULL

LEMMA FieldTypes ==
    ASSUME NodeType, NEW i \in Nodes
    PROVE  /\ node[i].base \in Nat /\ node[i].cnt \in Nat
           /\ node[i].free \in BOOLEAN
           /\ node[i].next \in Nodes \cup {NULL}
           /\ EndOf(i) \in Nat /\ EndOf(i) = node[i].base + node[i].cnt
BY DEF NodeType, EndOf

LEMMA LiveIsNode == Live \subseteq Nodes /\ Blanks \subseteq Nodes
BY Zenon DEF Live, Blanks

\* A page lies in one region.
LEMMA OneRegion ==
    ASSUME Struct, NEW i \in Live, NEW j \in Live, NEW x \in Int,
           InRegion(x, i), InRegion(x, j)
    PROVE  i = j
BY FieldTypes, LiveIsNode DEF Struct, ListTilesHeap, InRegion

\* The region that starts behind region i is the next one in the list.
LEMMA NextIsBehind ==
    ASSUME Struct, NEW i \in Live, NEW j \in Live,
           node[i].base < node[j].base
    PROVE  /\ node[i].next # NULL
           /\ node[i].next \in Live
           /\ node[node[i].next].base = EndOf(i)
           /\ EndOf(i) <= node[j].base
<1>0. /\ i \in Nodes /\ j \in Nodes
      /\ node[j].base \in Nat /\ EndOf(i) \in Nat /\ EndOf(j) \in Nat /\ HEAP_END \in Nat
  BY FieldTypes, LiveIsNode, Consts, Zenon DEF Struct
<1>1. /\ i # j
      /\ node[i].cnt > 0 /\ node[j].cnt > 0
      /\ EndOf(i) <= node[j].base \/ EndOf(j) <= node[i].base
  BY FieldTypes, LiveIsNode DEF Struct, ListTilesHeap
<1>2. EndOf(i) <= node[j].base
  BY <1>0, <1>1, FieldTypes DEF Struct
<1>3. EndOf(j) <= HEAP_END /\ EndOf(j) > node[j].base
  BY <1>0, <1>1, FieldTypes DEF Struct, Fills
<1>4. EndOf(i) # HEAP_END
  BY <1>0, <1>2, <1>3
<1> QED
  BY <1>2, <1>4, Zenon DEF Struct, ListTilesHeap

\* Live nodes that start at the same page are the same.
LEMMA SameBase ==
    ASSUME Struct, NEW i \in Live, NEW j \in Live, node[i].base = node[j].base
    PROVE  i = j
BY FieldTypes, LiveIsNode DEF Struct, ListTilesHeap

\* Without overlap, two regions in a row are different nodes.
LEMMA NextIsOther ==
    ASSUME Struct, NEW i \in Live, node[i].next # NULL
    PROVE  /\ node[i].next \in Live /\ node[i].next # i
           /\ node[node[i].next].base = EndOf(i)
           /\ node[i].base < EndOf(i)
BY FieldTypes, LiveIsNode DEF Struct, ListTilesHeap

\* The first region is the head.
LEMMA HeadIsFirst ==
    ASSUME Struct, NEW i \in Live
    PROVE  /\ head \in Live /\ node[head].base <= node[i].base
BY FieldTypes, LiveIsNode, Zenon DEF Struct, ListTilesHeap, Fills

-----------------------------------------------------------------------------
(* Cutting a region.                                                       *)

\* Nothing but region i changes, and the blank node k becomes the region
\* behind it.
CutInto(i, n, f, g, k) ==
    /\ NodeType'
    /\ Live' = Live \cup {k}
    /\ \A j \in Live \ {i} : node'[j] = node[j] /\ EndOf(j)' = EndOf(j)
    /\ node'[i].base = node[i].base /\ node'[i].cnt = n
    /\ node'[i].free = f /\ node'[i].next = k
    /\ EndOf(i)' = node[i].base + n
    /\ node'[k].base = node[i].base + n /\ node'[k].cnt = node[i].cnt - n
    /\ node'[k].free = g /\ node'[k].next = node[i].next
    /\ EndOf(k)' = EndOf(i)

\* Split cuts a region in two.
LEMMA SplitFacts ==
    ASSUME Struct, NEW i \in Live, NEW n \in Nat, 0 < n, n < node[i].cnt,
           allocvmmr \in Blanks, NEW f \in BOOLEAN, NEW g \in BOOLEAN,
           node' = Split(i, n, f, g)
    PROVE  \E k \in Nodes \ Live : CutInto(i, n, f, g, k)
<1>0. PICK k \in Blanks : k = allocvmmr
  BY Zenon
<1>1. k \in Nodes /\ k \notin Live /\ i \in Nodes /\ i # k
  BY LiveIsNode, Zenon DEF Live
<1>2. /\ node[i].base \in Nat /\ node[i].cnt \in Nat /\ node[i].cnt - n \in Nat
      /\ node[i].base + n \in Nat /\ node[i].next \in Nodes \cup {NULL}
      /\ node[i].base >= HEAP_START /\ HEAP_START > 0 /\ HEAP_START \in Nat
  BY <1>1, FieldTypes, Consts DEF Struct, Fills
<1> DEFINE a == Region(node[i].base, n, f, k)
           b == Region(node[i].base + n, node[i].cnt - n, g, node[i].next)
<1>3. node' = [node EXCEPT ![k] = b, ![i] = a]
  BY <1>0, Zenon DEF Split
<1>4. /\ a \in [base : Nat, cnt : Nat, free : BOOLEAN, next : Nodes \cup {NULL}]
      /\ b \in [base : Nat, cnt : Nat, free : BOOLEAN, next : Nodes \cup {NULL}]
  BY <1>1, <1>2, Zenon DEF Region
<1>5. /\ a.base = node[i].base /\ a.cnt = n /\ a.free = f /\ a.next = k
      /\ b.base = node[i].base + n /\ b.cnt = node[i].cnt - n /\ b.free = g
      /\ b.next = node[i].next
  BY Zenon DEF Region
<1> HIDE DEF a, b
<1>6. /\ node'[i] = a /\ node'[k] = b
      /\ \A j \in Nodes \ {i, k} : node'[j] = node[j]
      /\ NodeType'
  BY <1>1, <1>3, <1>4 DEF Struct, NodeType
<1>7. \A j \in Nodes : j \in Live' <=> j \in Live \cup {k}
  <2> SUFFICES ASSUME NEW j \in Nodes PROVE j \in Live' <=> j \in Live \cup {k}
    BY Zenon
  <2>1. CASE j = i
    BY <1>1, <1>2, <1>5, <1>6, <2>1 DEF Live, Blanks, IsBlank
  <2>2. CASE j = k
    BY <1>1, <1>2, <1>5, <1>6, <2>2 DEF Live, Blanks, IsBlank
  <2>3. CASE j \notin {i, k}
    BY <1>1, <1>6, <2>3, Zenon DEF Live, Blanks, IsBlank
  <2> QED
    BY <2>1, <2>2, <2>3, Zenon
<1>8. Live' = Live \cup {k}
  BY <1>1, <1>7, LiveIsNode, Zenon DEF Live
<1>9. \A j \in Live \ {i} : node'[j] = node[j] /\ EndOf(j)' = EndOf(j)
  BY <1>1, <1>6, LiveIsNode, Zenon DEF EndOf
<1>10. EndOf(i)' = node[i].base + n /\ EndOf(k)' = EndOf(i)
  BY <1>2, <1>5, <1>6 DEF EndOf
<1> QED
  BY <1>1, <1>5, <1>6, <1>8, <1>9, <1>10, Zenon DEF CutInto

LEMMA SplitKeeps ==
    ASSUME Struct, NEW i \in Live, NEW n \in Nat, 0 < n, n < node[i].cnt,
           allocvmmr \in Blanks, NEW f \in BOOLEAN, NEW g \in BOOLEAN,
           node' = Split(i, n, f, g), head' = head
    PROVE  Struct'
<1> PICK k \in Nodes \ Live : CutInto(i, n, f, g, k)
  BY SplitFacts, Zenon
<1> USE DEF CutInto
<1>0. /\ \A j \in Live : /\ j \in Nodes /\ j # k
                         /\ node[j].base \in Nat /\ node[j].cnt \in Nat /\ EndOf(j) \in Nat
                         /\ node[j].next \in Nodes \cup {NULL}
                         /\ EndOf(j) = node[j].base + node[j].cnt
      /\ HEAP_START \in Nat /\ HEAP_END \in Nat
      /\ NULL \notin Nodes
  BY FieldTypes, LiveIsNode, Consts, Zenon DEF Struct
<1>1. head' \in Live' /\ node'[head'].base = HEAP_START
  BY Zenon DEF Struct, ListTilesHeap
<1>2. ASSUME NEW j \in Live'
      PROVE  /\ node'[j].cnt > 0
             /\ IF node'[j].next = NULL
                THEN EndOf(j)' = HEAP_END
                ELSE node'[j].next \in Live' /\ node'[node'[j].next].base = EndOf(j)'
  <2>1. CASE j = i
    BY <1>0, <2>1, SMTT(30)
  <2>2. CASE j = k
    BY <1>0, <2>2, SMTT(30) DEF Struct, ListTilesHeap
  <2>3. CASE j \in Live \ {i}
    BY <1>0, <2>3 DEF Struct, ListTilesHeap
  <2> QED
    BY <2>1, <2>2, <2>3, Zenon
<1>3. ASSUME NEW j \in Live', NEW l \in Live', j # l
      PROVE  EndOf(j)' <= node'[l].base \/ EndOf(l)' <= node'[j].base
  <2>1. \A m \in Live \ {i} : EndOf(m) <= node[i].base \/ EndOf(i) <= node[m].base
    BY Zenon DEF Struct, ListTilesHeap
  <2>2. CASE j \in {i, k} /\ l \in {i, k}
    BY <1>0, <1>3, <2>2
  <2>3. CASE j \in {i, k} /\ l \in Live \ {i}
    BY <1>0, <2>1, <2>3
  <2>4. CASE j \in Live \ {i} /\ l \in {i, k}
    BY <1>0, <2>1, <2>4
  <2>5. CASE j \in Live \ {i} /\ l \in Live \ {i}
    BY <1>3, <2>5 DEF Struct, ListTilesHeap
  <2> QED
    BY <2>2, <2>3, <2>4, <2>5, Zenon
<1>4. ASSUME NEW j \in Live'
      PROVE  HEAP_START <= node'[j].base /\ EndOf(j)' <= HEAP_END
  <2>1. \A m \in Live : HEAP_START <= node[m].base /\ EndOf(m) <= HEAP_END
    BY Zenon DEF Struct, Fills
  <2>2. CASE j \in {i, k}
    BY <1>0, <2>1, <2>2
  <2>3. CASE j \in Live \ {i}
    BY <2>1, <2>3, Zenon
  <2> QED
    BY <2>2, <2>3, Zenon
<1>5. ASSUME NEW x \in HeapPages
      PROVE  \E j \in Live' : node'[j].base <= x /\ x < EndOf(j)'
  <2>1. PICK j \in Live : node[j].base <= x /\ x < EndOf(j)
    BY Zenon DEF Struct, Fills
  <2>2. x \in Int
    BY <1>0 DEF HeapPages
  <2>3. CASE j = i
    BY <1>0, <2>1, <2>2, <2>3
  <2>4. CASE j # i
    BY <2>1, <2>4
  <2> QED
    BY <2>3, <2>4, Zenon
<1>6. ListTilesHeap'
  BY <1>1, <1>2, <1>3, Zenon DEF ListTilesHeap
<1>7. Fills'
  BY <1>4, <1>5, Zenon DEF Fills
<1> QED
  BY <1>6, <1>7, Zenon DEF Struct

-----------------------------------------------------------------------------
(* Joining two regions, and changing what a region is marked as.           *)

\* What Joined leaves: region i takes the pages of the one behind it, whose
\* node is blank again.
LEMMA JoinFacts ==
    ASSUME Struct, NEW i \in Live, NEW k \in Live, k = node[i].next, k # NULL,
           node' = Joined(i)
    PROVE  /\ k # i
           /\ NodeType'
           /\ Live' = Live \ {k}
           /\ \A j \in Live \ {i, k} : node'[j] = node[j] /\ EndOf(j)' = EndOf(j)
           /\ node'[i].base = node[i].base /\ node'[i].cnt = node[i].cnt + node[k].cnt
           /\ node'[i].free = node[i].free /\ node'[i].next = node[k].next
           /\ EndOf(i)' = EndOf(k) /\ EndOf(i) = node[k].base
<1>1. /\ k \in Live /\ k # i /\ i \in Nodes /\ k \in Nodes
      /\ EndOf(i) = node[k].base
  BY NextIsOther, LiveIsNode, Zenon
<1>2. /\ node[i].base \in Nat /\ node[i].cnt \in Nat /\ node[i].free \in BOOLEAN
      /\ node[k].base \in Nat /\ node[k].cnt \in Nat
      /\ node[k].next \in Nodes \cup {NULL} /\ NULL \notin Nodes
      /\ node[i].base >= HEAP_START /\ HEAP_START > 0 /\ HEAP_START \in Nat
      /\ EndOf(i) = node[i].base + node[i].cnt /\ EndOf(k) = node[k].base + node[k].cnt
  BY <1>1, FieldTypes, Consts, ZenonT(30) DEF Struct, Fills
<1> DEFINE a == Region(node[i].base, node[i].cnt + node[k].cnt, node[i].free,
                       node[k].next)
<1>3. node' = [node EXCEPT ![i] = a, ![k] = Blank]
  BY Zenon DEF Joined
<1>4. /\ a \in [base : Nat, cnt : Nat, free : BOOLEAN, next : Nodes \cup {NULL}]
      /\ Blank \in [base : Nat, cnt : Nat, free : BOOLEAN, next : Nodes \cup {NULL}]
      /\ IsBlank(Blank)
  BY <1>1, <1>2 DEF Region, Blank, IsBlank
<1>5. /\ a.base = node[i].base /\ a.cnt = node[i].cnt + node[k].cnt
      /\ a.free = node[i].free /\ a.next = node[k].next
  BY Zenon DEF Region
<1> HIDE DEF a
<1>6. /\ node'[i] = a /\ node'[k] = Blank
      /\ \A j \in Nodes \ {i, k} : node'[j] = node[j]
      /\ NodeType'
  BY <1>1, <1>3, <1>4 DEF Struct, NodeType
<1>7. \A j \in Nodes : j \in Live' <=> j \in Live \ {k}
  <2> SUFFICES ASSUME NEW j \in Nodes PROVE j \in Live' <=> j \in Live \ {k}
    BY Zenon
  <2>1. CASE j = i
    BY <1>1, <1>2, <1>5, <1>6, <2>1 DEF Live, Blanks, IsBlank
  <2>2. CASE j = k
    BY <1>1, <1>4, <1>6, <2>2, Zenon DEF Live, Blanks
  <2>3. CASE j \notin {i, k}
    BY <1>1, <1>6, <2>3, Zenon DEF Live, Blanks, IsBlank
  <2> QED
    BY <2>1, <2>2, <2>3, Zenon
<1>8. Live' = Live \ {k}
  BY <1>1, <1>7, LiveIsNode, Zenon DEF Live
<1>9. \A j \in Live \ {i, k} : node'[j] = node[j] /\ EndOf(j)' = EndOf(j)
  BY <1>1, <1>6, LiveIsNode, Zenon DEF EndOf
<1>10. EndOf(i)' = node'[i].base + node'[i].cnt
  BY Zenon DEF EndOf
<1>11. EndOf(i)' = EndOf(k)
  <2>1. node'[i].base = node[i].base /\ node'[i].cnt = node[i].cnt + node[k].cnt
    BY <1>5, <1>6, Zenon
  <2>2. node[k].base = node[i].base + node[i].cnt
    BY <1>1, <1>2, Zenon
  <2>3. EndOf(k) = node[k].base + node[k].cnt
    BY <1>2, Zenon
  <2>4. node[i].base \in Nat /\ node[i].cnt \in Nat /\ node[k].cnt \in Nat
    BY <1>2, Zenon
  <2>5. node[i].base + (node[i].cnt + node[k].cnt) = EndOf(k)
    BY <2>2, <2>3, <2>4
  <2> QED
    BY <1>10, <2>1, <2>5, Zenon
<1> QED
  BY <1>1, <1>5, <1>6, <1>8, <1>9, <1>11, Zenon

LEMMA JoinKeeps ==
    ASSUME Struct, NEW i \in Live, node[i].next # NULL,
           node' = Joined(i), head' = head
    PROVE  Struct'
<1>0. PICK k \in Live : k = node[i].next /\ k # NULL
  BY NextIsOther, SMTT(30)
<1>1. /\ k # i
      /\ NodeType'
      /\ Live' = Live \ {k}
      /\ \A j \in Live \ {i, k} : node'[j] = node[j] /\ EndOf(j)' = EndOf(j)
      /\ node'[i].base = node[i].base /\ node'[i].cnt = node[i].cnt + node[k].cnt
      /\ node'[i].free = node[i].free /\ node'[i].next = node[k].next
      /\ EndOf(i)' = EndOf(k) /\ EndOf(i) = node[k].base
  BY <1>0, JoinFacts, SMTT(30)
<1>2. /\ \A j \in Live : /\ j \in Nodes
                         /\ node[j].base \in Nat /\ node[j].cnt \in Nat /\ EndOf(j) \in Nat
                         /\ node[j].cnt > 0
                         /\ EndOf(j) = node[j].base + node[j].cnt
                         /\ HEAP_START <= node[j].base /\ EndOf(j) <= HEAP_END
      /\ HEAP_START \in Nat /\ HEAP_END \in Nat
  BY FieldTypes, LiveIsNode, Consts, Zenon DEF Struct, ListTilesHeap, Fills
<1>3. \A j \in Live, l \in Live : j # l => EndOf(j) <= node[l].base \/ EndOf(l) <= node[j].base
  BY Zenon DEF Struct, ListTilesHeap
<1>4. head # k
  BY <1>1, <1>2, SMTT(30) DEF Struct, ListTilesHeap
<1>5. head' \in Live' /\ node'[head'].base = HEAP_START
  BY <1>1, <1>4, SMTT(30) DEF Struct, ListTilesHeap
<1>6. \A j \in Live \ {i} : node[j].next # k
  <2> SUFFICES ASSUME NEW j \in Live, j # i, node[j].next = k PROVE FALSE
    BY SMTT(30)
  <2>1. EndOf(j) = EndOf(i)
    BY <1>0, <1>1, SMTT(30) DEF Struct, ListTilesHeap
  <2> QED
    BY <1>2, <1>3, <2>1
<1>7. ASSUME NEW j \in Live'
      PROVE  /\ node'[j].cnt > 0
             /\ IF node'[j].next = NULL
                THEN EndOf(j)' = HEAP_END
                ELSE node'[j].next \in Live' /\ node'[node'[j].next].base = EndOf(j)'
  <2>1. CASE j = i
    <3>1. node'[i].cnt > 0
      BY <1>1, <1>2
    <3>2. CASE node[k].next = NULL
      BY <1>1, <2>1, <3>1, <3>2, Zenon DEF Struct, ListTilesHeap
    <3>3. CASE node[k].next # NULL
      <4>1. /\ node[k].next \in Live /\ node[node[k].next].base = EndOf(k)
            /\ node[k].next # k
        BY <1>1, <3>3, NextIsOther, Zenon
      <4>2. node[k].next # i
        BY <1>1, <1>2, <4>1
      <4> QED
        BY <1>1, <2>1, <3>1, <3>3, <4>1, <4>2, Zenon
    <3> QED
      BY <3>2, <3>3, Zenon
  <2>2. CASE j \in Live \ {i, k}
    <3>1. node'[j] = node[j] /\ EndOf(j)' = EndOf(j)
      BY <1>1, <2>2, Zenon
    <3>2. CASE node[j].next = NULL
      BY <1>2, <2>2, <3>1, <3>2, Zenon DEF Struct, ListTilesHeap
    <3>3. CASE node[j].next # NULL
      <4>1. /\ node[j].next \in Live /\ node[node[j].next].base = EndOf(j)
            /\ node[j].next # k
        BY <1>6, <2>2, <3>3, NextIsOther, Zenon
      <4> QED
        BY <1>1, <1>2, <2>2, <3>1, <3>3, <4>1
    <3> QED
      BY <3>2, <3>3, Zenon
  <2> QED
    BY <1>1, <2>1, <2>2, Zenon
<1>8. ASSUME NEW j \in Live', NEW l \in Live', j # l
      PROVE  EndOf(j)' <= node'[l].base \/ EndOf(l)' <= node'[j].base
  <2>1. \A m \in Live \ {i, k} : EndOf(m) <= node[i].base \/ EndOf(k) <= node[m].base
    BY <1>1, <1>2, <1>3
  <2> QED
    BY <1>1, <1>3, <1>8, <2>1
<1>9. ASSUME NEW j \in Live'
      PROVE  HEAP_START <= node'[j].base /\ EndOf(j)' <= HEAP_END
  BY <1>1, <1>2, Zenon
<1>10. ASSUME NEW x \in HeapPages
      PROVE  \E j \in Live' : node'[j].base <= x /\ x < EndOf(j)'
  <2>1. PICK j \in Live : node[j].base <= x /\ x < EndOf(j)
    BY Zenon DEF Struct, Fills
  <2>2. x \in Int
    BY <1>2 DEF HeapPages
  <2>3. CASE j \in {i, k}
    BY <1>1, <1>2, <2>1, <2>2, <2>3
  <2>4. CASE j \notin {i, k}
    BY <1>1, <2>1, <2>4, Zenon
  <2> QED
    BY <2>3, <2>4, Zenon
<1>11. ListTilesHeap'
  BY <1>5, <1>7, <1>8, Zenon DEF ListTilesHeap
<1>12. Fills'
  BY <1>9, <1>10, Zenon DEF Fills
<1> QED
  BY <1>1, <1>11, <1>12, Zenon DEF Struct

\* SetFree changes nothing but the flag of region i.
LEMMA FlagFacts ==
    ASSUME Struct, NEW i \in Live, NEW f \in BOOLEAN, node' = SetFree(i, f)
    PROVE  /\ NodeType'
           /\ Live' = Live
           /\ \A j \in Live : /\ node'[j].base = node[j].base
                              /\ node'[j].cnt = node[j].cnt
                              /\ node'[j].next = node[j].next
                              /\ EndOf(j)' = EndOf(j)
           /\ \A j \in Live \ {i} : node'[j].free = node[j].free
           /\ node'[i].free = f
<1>1. /\ i \in Nodes /\ node[i].base \in Nat /\ node[i].cnt \in Nat
      /\ node[i].next \in Nodes \cup {NULL}
      /\ node[i].base >= HEAP_START /\ HEAP_START > 0 /\ HEAP_START \in Nat
  BY LiveIsNode, FieldTypes, Consts, Zenon DEF Struct, Fills
<1> DEFINE a == Region(node[i].base, node[i].cnt, f, node[i].next)
<1>2. node' = [node EXCEPT ![i] = a]
  BY SMTT(30) DEF SetFree
<1>3. /\ a \in [base : Nat, cnt : Nat, free : BOOLEAN, next : Nodes \cup {NULL}]
      /\ a.base = node[i].base /\ a.cnt = node[i].cnt /\ a.free = f
      /\ a.next = node[i].next
  BY <1>1, Zenon DEF Region
<1> HIDE DEF a
<1>4. /\ node'[i] = a
      /\ \A j \in Nodes \ {i} : node'[j] = node[j]
      /\ NodeType'
  BY <1>1, <1>2, <1>3, Zenon DEF Struct, NodeType
<1>5. \A j \in Nodes : j \in Live' <=> j \in Live
  BY <1>1, <1>3, <1>4 DEF Live, Blanks, IsBlank
<1>6. Live' = Live
  BY <1>5, LiveIsNode, Zenon DEF Live
<1>7. \A j \in Live : /\ node'[j].base = node[j].base /\ node'[j].cnt = node[j].cnt
                      /\ node'[j].next = node[j].next
  BY <1>1, <1>3, <1>4, LiveIsNode, Zenon
<1>8. \A j \in Live : EndOf(j)' = EndOf(j)
  BY <1>7, Zenon DEF EndOf
<1> QED
  BY <1>3, <1>4, <1>6, <1>7, <1>8, LiveIsNode, Zenon

LEMMA FlagKeeps ==
    ASSUME Struct, NEW i \in Live, NEW f \in BOOLEAN, node' = SetFree(i, f),
           head' = head
    PROVE  Struct'
<1>1. /\ NodeType'
      /\ Live' = Live
      /\ \A j \in Live : /\ node'[j].base = node[j].base /\ node'[j].cnt = node[j].cnt
                         /\ node'[j].next = node[j].next /\ EndOf(j)' = EndOf(j)
  BY FlagFacts, Zenon
<1>2. ListTilesHeap'
  BY <1>1 DEF Struct, ListTilesHeap
<1>3. Fills'
  BY <1>1, Zenon DEF Struct, Fills
<1> QED
  BY <1>1, <1>2, <1>3, Zenon DEF Struct

-----------------------------------------------------------------------------
(* The list and the walk over it.                                          *)

\* Facts about the call under way.
LEMMA ArgType ==
    ASSUME Control
    PROVE  /\ arg.vst \in Nat /\ arg.n \in Nat /\ FreeEnd \in Nat
           /\ FreeEnd = arg.vst + arg.n
           /\ ArgRange.base = arg.vst /\ ArgRange.n = arg.n
           /\ \A x : x \in Pages(ArgRange) <=> x \in Int /\ arg.vst <= x /\ x < FreeEnd
<1>1. arg.vst \in Nat /\ arg.n \in Nat
  BY Zenon DEF Control
<1>2. ArgRange.base = arg.vst /\ ArgRange.n = arg.n
  BY Zenon DEF ArgRange
<1> QED
  BY <1>1, <1>2 DEF FreeEnd, Pages

\* The region a fitting request is taken from.
LEMMA TakeFacts ==
    ASSUME AllocWorks, Struct, Control, FfreerTakes
    PROVE  /\ curr \in Live /\ arg.n \in Nat /\ arg.n > 0
           /\ node[curr].free
           /\ \/ /\ arg.n < node[curr].cnt /\ allocvmmr \in Blanks
                 /\ node' = Split(curr, arg.n, FALSE, TRUE)
              \/ arg.n = node[curr].cnt /\ node' = SetFree(curr, FALSE)
           /\ head' = head /\ curr' = curr
           /\ arg' \in [vst : Nat, n : Nat, user : BOOLEAN, cont : BOOLEAN]
           /\ arg'.vst = node[curr].base /\ arg'.n = arg.n
<1>1. /\ curr \in Live /\ arg.n \in Nat /\ arg.n > 0
      /\ arg \in [vst : Nat, n : Nat, user : BOOLEAN, cont : BOOLEAN]
  BY Zenon DEF FfreerTakes, Control
<1>2. node[curr].free
  BY Zenon DEF FfreerTakes, Fits
<1>3. \/ /\ arg.n < node[curr].cnt /\ allocvmmr \in Blanks
         /\ node' = Split(curr, arg.n, FALSE, TRUE)
      \/ arg.n = node[curr].cnt /\ node' = SetFree(curr, FALSE)
  BY ZenonT(30) DEF FfreerTakes, AllocWorks
<1>4. node[curr].base \in Nat
  BY <1>1, FieldTypes, LiveIsNode, Zenon DEF Struct
<1>5. arg' = [arg EXCEPT !.vst = node[curr].base] /\ head' = head /\ curr' = curr
  BY Zenon DEF FfreerTakes
<1>6. /\ arg' \in [vst : Nat, n : Nat, user : BOOLEAN, cont : BOOLEAN]
      /\ arg'.vst = node[curr].base /\ arg'.n = arg.n
  BY <1>1, <1>4, <1>5, Zenon
<1> QED
  BY <1>1, <1>2, <1>3, <1>5, <1>6, ZenonT(30)

\* The region pages are given back to.
LEMMA GiveFacts ==
    ASSUME AllocWorks, Struct, Control, UnmapWhole \/ UnmapStart \/ UnmapEnd
    PROVE  /\ curr \in Live /\ arg.n \in Nat /\ arg.n > 0 /\ arg.vst \in Nat
           /\ ~node[curr].free
           /\ \/ /\ arg.vst = node[curr].base /\ arg.n = node[curr].cnt
                 /\ node' = SetFree(curr, TRUE)
              \/ /\ arg.vst = node[curr].base /\ arg.n < node[curr].cnt /\ allocvmmr \in Blanks
                 /\ node' = Split(curr, arg.n, TRUE, FALSE)
              \/ /\ arg.vst = node[curr].base + (node[curr].cnt - arg.n)
                 /\ node[curr].cnt - arg.n \in Nat
                 /\ 0 < node[curr].cnt - arg.n /\ node[curr].cnt - arg.n < node[curr].cnt
                 /\ allocvmmr \in Blanks
                 /\ node' = Split(curr, node[curr].cnt - arg.n, FALSE, TRUE)
           /\ head' = head /\ curr' = head /\ pc' = "merge" /\ arg' = arg
           /\ pc = "unmap"
<1>1. /\ curr \in Live /\ arg.n \in Nat /\ arg.n > 0 /\ arg.vst \in Nat
      /\ ~node[curr].free /\ pc = "unmap"
      /\ FreeEnd = arg.vst + arg.n
  BY ArgType, ZenonT(30) DEF UnmapWhole, UnmapStart, UnmapEnd, Control, Covers
<1>2. /\ node[curr].base \in Nat /\ node[curr].cnt \in Nat
      /\ EndOf(curr) = node[curr].base + node[curr].cnt
  BY <1>1, FieldTypes, LiveIsNode, Zenon DEF Struct
<1>3. head' = head /\ curr' = head /\ pc' = "merge" /\ arg' = arg
  BY ZenonT(30) DEF UnmapWhole, UnmapStart, UnmapEnd, StartMerge
<1>4. CASE UnmapWhole
  <2>1. arg.vst = node[curr].base /\ FreeEnd = EndOf(curr) /\ node' = SetFree(curr, TRUE)
    BY <1>4, Zenon DEF UnmapWhole
  <2>2. arg.n = node[curr].cnt
    BY <1>1, <1>2, <2>1
  <2> QED
    BY <1>1, <1>3, <2>1, <2>2, Zenon
<1>5. CASE UnmapStart
  <2>1. /\ arg.vst = node[curr].base /\ FreeEnd < EndOf(curr)
        /\ allocvmmr \in Blanks /\ node' = Split(curr, arg.n, TRUE, FALSE)
    BY <1>5, Zenon DEF UnmapStart, AllocWorks
  <2>2. arg.n < node[curr].cnt
    BY <1>1, <1>2, <2>1
  <2> QED
    BY <1>1, <1>3, <2>1, <2>2, ZenonT(30)
<1>6. CASE UnmapEnd
  <2>1. /\ arg.vst > node[curr].base /\ FreeEnd = EndOf(curr)
        /\ allocvmmr \in Blanks /\ node' = Split(curr, node[curr].cnt - arg.n, FALSE, TRUE)
    BY <1>6, Zenon DEF UnmapEnd, AllocWorks
  <2>2. /\ arg.vst = node[curr].base + (node[curr].cnt - arg.n)
        /\ node[curr].cnt - arg.n \in Nat
        /\ 0 < node[curr].cnt - arg.n /\ node[curr].cnt - arg.n < node[curr].cnt
    BY <1>1, <1>2, <2>1
  <2> QED
    BY <1>1, <1>3, <2>1, <2>2, ZenonT(30)
<1> QED
  BY <1>4, <1>5, <1>6, ZenonT(30)

LEMMA JoinIsStruct ==
    ASSUME Struct, Control, MergeTwo
    PROVE  /\ curr \in Live /\ node[curr].next \in Live /\ node[curr].next # NULL
           /\ node[curr].free /\ node[node[curr].next].free
           /\ node' = Joined(curr) /\ head' = head
BY NextIsOther, Zenon DEF MergeTwo, Control

\* Every step keeps the heap tiled.
LEMMA StructStep ==
    ASSUME AllocWorks, Struct, Control, [Next]_vars
    PROVE  Struct'
<1>1. CASE UNCHANGED <<node, head>>
  BY <1>1, SMTT(30) DEF Struct, NodeType, ListTilesHeap, Fills, Live, Blanks, EndOf, HeapPages
<1>2. CASE FfreerTakes
  BY <1>2, TakeFacts, SplitKeeps, FlagKeeps, ZenonT(30)
<1>3. CASE UnmapWhole \/ UnmapStart \/ UnmapEnd
  BY <1>3, GiveFacts, SplitKeeps, FlagKeeps, ZenonT(30)
<1>4. CASE MergeTwo
  BY <1>4, JoinIsStruct, JoinKeeps, Zenon
<1> QED
  BY <1>1, <1>2, <1>3, <1>4, ZenonT(30) DEF Next, Call, Walk, vars, vmm_map_pages, vmm_unmap_pages,
     FfreerSkip, FfreerFails, FfreerNoNode, MapAll, MapContFails, MapRunsOut, UnmapSkip,
     UnmapNoNode, StartMerge, MergeSkip, MergeDone

\* The nodes of a region list that only grows at a split stay in use.
LEMMA LiveStays ==
    ASSUME Struct, NEW i \in Live, NEW n \in Nat, 0 < n, n < node[i].cnt,
           allocvmmr \in Blanks, NEW f \in BOOLEAN, NEW g \in BOOLEAN,
           node' = Split(i, n, f, g)
    PROVE  Live \subseteq Live'
BY SplitFacts DEF CutInto

LEMMA ControlStep ==
    ASSUME AllocWorks, Struct, Struct', Control, Account, [Next]_vars
    PROVE  Control'
<1>0. Idle \in [vst : Nat, n : Nat, user : BOOLEAN, cont : BOOLEAN]
  BY Zenon DEF Idle
<1>1. CASE UNCHANGED vars
  BY <1>1, Zenon DEF vars, Control, Live, Blanks
<1>2. ASSUME NEW n \in 1 .. MaxReq, NEW user \in BOOLEAN, NEW cont \in BOOLEAN,
             vmm_map_pages(n, user, cont)
      PROVE  Control'
  <2>1. Live' = Live /\ head \in Live
    BY <1>2, Zenon DEF vmm_map_pages, Live, Blanks, Struct, ListTilesHeap
  <2> QED
    BY <1>2, <2>1, LiveIsNode, VmmAssumption DEF vmm_map_pages, Control
<1>3. ASSUME NEW r \in held, NEW n \in 1 .. r.n, NEW vst \in {r.base, r.base + r.n - n},
             vmm_unmap_pages(r, vst, n)
      PROVE  Control'
  <2>1. Live' = Live /\ head \in Live
    BY <1>3, Zenon DEF vmm_unmap_pages, Live, Blanks, Struct, ListTilesHeap
  <2>2. r.base \in Nat /\ r.n \in Nat
    BY Consts DEF Account, HeapPages
  <2>3. n \in Nat /\ n > 0 /\ vst \in Nat
    BY <2>2
  <2>4. arg' = [vst |-> vst, n |-> n, user |-> FALSE, cont |-> FALSE]
    BY <1>3, ZenonT(30) DEF vmm_unmap_pages, Idle
  <2>5. arg' \in [vst : Nat, n : Nat, user : BOOLEAN, cont : BOOLEAN] /\ arg'.n > 0
    BY <2>3, <2>4, Zenon
  <2> QED
    BY <1>3, <2>1, <2>5, LiveIsNode, Zenon DEF vmm_unmap_pages, Control
<1>4. CASE FfreerSkip
  <2>1. Live' = Live
    BY <1>4, Zenon DEF FfreerSkip, Live, Blanks
  <2>2. curr \in Live /\ node[curr].next \in Live \cup {NULL}
    BY <1>4, NextIsOther, Zenon DEF FfreerSkip, Control
  <2> QED
    BY <1>4, <2>1, <2>2, LiveIsNode, Zenon DEF FfreerSkip, Control
<1>5. CASE FfreerTakes
  <2>1. Live \subseteq Live'
    BY <1>5, TakeFacts, LiveStays, FlagFacts, ZenonT(30)
  <2> QED
    BY <1>5, <2>1, TakeFacts, LiveIsNode, ZenonT(30) DEF FfreerTakes, Control
<1>6. CASE pc' = "idle" /\ curr' = NULL /\ arg' = Idle
  BY <1>0, <1>6, Zenon DEF Control
<1>7. CASE pc' = "merge" /\ curr' = head' /\ arg' = arg
  <2>1. head' \in Live' /\ head' \in Nodes
    BY Zenon DEF Struct, ListTilesHeap
  <2> QED
    BY <1>7, <2>1, Zenon DEF Control
<1>8. CASE UnmapSkip
  <2>1. Live' = Live
    BY <1>8, SMTT(30) DEF UnmapSkip, Live, Blanks
  <2>2. curr \in Live /\ head \in Live /\ (node[curr].next # NULL => node[curr].next \in Live)
    BY <1>8, NextIsOther, SMTT(30) DEF UnmapSkip, Control, Struct, ListTilesHeap
  <2> QED
    BY <1>8, <2>1, <2>2, LiveIsNode, Zenon DEF UnmapSkip, Control
<1>9. CASE MergeTwo
  <2>1. curr \in Live'
    BY <1>9, JoinIsStruct, JoinFacts, Zenon
  <2> QED
    BY <1>9, <2>1, Zenon DEF MergeTwo, Control
<1>10. CASE MergeSkip
  <2>1. Live' = Live
    BY <1>10, Zenon DEF MergeSkip, Live, Blanks
  <2>2. curr \in Live /\ node[curr].next \in Live
    BY <1>10, NextIsOther, Zenon DEF MergeSkip, Control
  <2> QED
    BY <1>10, <2>1, <2>2, LiveIsNode, Zenon DEF MergeSkip, Control
<1> QED
  BY <1>1, <1>2, <1>3, <1>4, <1>5, <1>6, <1>7, <1>8, <1>9, <1>10, ZenonT(30)
     DEF Next, Call, Walk, FfreerFails, FfreerNoNode, MapAll, MapContFails, MapRunsOut,
         MergeDone, Return, UnmapWhole, UnmapStart, UnmapEnd, UnmapNoNode, StartMerge

-----------------------------------------------------------------------------
(* The walks.                                                              *)

LEMMA RegionTypes ==
    ASSUME Struct, NEW i \in Live
    PROVE  /\ node[i].base \in Nat /\ node[i].cnt \in Nat /\ EndOf(i) \in Nat
           /\ EndOf(i) = node[i].base + node[i].cnt /\ node[i].cnt > 0
           /\ HEAP_START <= node[i].base /\ EndOf(i) <= HEAP_END
           /\ node[i].free \in BOOLEAN
BY FieldTypes, LiveIsNode, SMTT(30) DEF Struct, ListTilesHeap, Fills

LEMMA SameNodes ==
    ASSUME node' = node
    PROVE  /\ Live' = Live
           /\ \A i : EndOf(i)' = EndOf(i)
           /\ \A x : Used(x)' <=> Used(x)
           /\ \A b, e : InUsed(b, e)' <=> InUsed(b, e)
<1>1. Live' = Live
  BY Zenon DEF Live, Blanks
<1>2. \A i : EndOf(i)' = EndOf(i)
  BY Zenon DEF EndOf
<1>3. \A x, i : InRegion(x, i)' <=> InRegion(x, i)
  BY <1>2, Zenon DEF InRegion
<1> QED
  BY <1>1, <1>2, <1>3, Zenon DEF Used, InUsed

\* The walk of vmm_unmap_pages does not pass the region it looks for.
LEMMA SkipGoesOn ==
    ASSUME Struct, Control, Target, UnmapSkip
    PROVE  Target' /\ pc' = "unmap"
<1>1. PICK i \in Live : Covers(i) /\ node[curr].base <= node[i].base
  BY Zenon DEF Target, UnmapSkip
<1>2. curr \in Live /\ curr # i /\ pc = "unmap" /\ node' = node /\ arg' = arg
  BY <1>1, Zenon DEF UnmapSkip, Control
<1>3. node[curr].base < node[i].base
  BY <1>1, <1>2, SameBase, RegionTypes
<1>4. /\ node[curr].next # NULL /\ node[node[curr].next].base = EndOf(curr)
      /\ EndOf(curr) <= node[i].base
  BY <1>2, <1>3, NextIsBehind, Zenon
<1>5. pc' = "unmap" /\ curr' = node[curr].next
  BY <1>2, <1>4, Zenon DEF UnmapSkip
<1>6. Covers(i)' /\ i \in Live' /\ node'[curr'].base <= node'[i].base
  BY <1>1, <1>2, <1>4, <1>5, SameNodes, Zenon DEF Covers, FreeEnd
<1> QED
  BY <1>5, <1>6, Zenon DEF Target

\* No two free regions in a row start below page m.
CoalescedBelow(m) ==
    \A j \in Live :
        node[j].free /\ node[j].next # NULL /\ node[j].base < m
        => ~node[node[j].next].free

LEMMA TakeCoalesced ==
    ASSUME Struct, NEW i \in Live, NEW n \in Nat, n > 0, node[i].free,
           \/ n < node[i].cnt /\ allocvmmr \in Blanks /\ node' = Split(i, n, FALSE, TRUE)
           \/ n = node[i].cnt /\ node' = SetFree(i, FALSE),
           NEW m \in Nat, m >= HEAP_END, CoalescedBelow(m)
    PROVE  CoalescedBelow(m)'
<1>1. \A j \in Live : node[j].base < m
  BY RegionTypes, Consts
<1>2. \A j \in Live : /\ node[j].free /\ node[j].next # NULL => ~node[node[j].next].free
                      /\ node[j].next # NULL => node[j].next \in Live /\ node[j].next # j
  BY <1>1, NextIsOther, Zenon DEF CoalescedBelow
<1>3. CASE n < node[i].cnt /\ allocvmmr \in Blanks /\ node' = Split(i, n, FALSE, TRUE)
  <2>1. PICK k \in Nodes \ Live : CutInto(i, n, FALSE, TRUE, k)
    BY <1>3, SplitFacts, ZenonT(30)
  <2>2. \A j \in Live' : node'[j].free /\ node'[j].next # NULL
                         => ~node'[node'[j].next].free
    BY <1>2, <2>1 DEF CutInto
  <2> QED
    BY <2>2, Zenon DEF CoalescedBelow
<1>4. CASE n = node[i].cnt /\ node' = SetFree(i, FALSE)
  <2>1. /\ Live' = Live
        /\ \A j \in Live : node'[j].next = node[j].next
        /\ \A j \in Live \ {i} : node'[j].free = node[j].free
        /\ node'[i].free = FALSE
    BY <1>4, FlagFacts, ZenonT(30)
  <2>2. \A j \in Live' : node'[j].free /\ node'[j].next # NULL
                         => ~node'[node'[j].next].free
    BY <1>2, <2>1, Zenon
  <2> QED
    BY <2>2, Zenon DEF CoalescedBelow
<1> QED
  BY <1>3, <1>4, ZenonT(30)

LEMMA JoinCoalesced ==
    ASSUME Struct, NEW i \in Live, node[i].next # NULL,
           node[i].free, node[node[i].next].free, node' = Joined(i),
           CoalescedBelow(node[i].base)
    PROVE  CoalescedBelow(node[i].base)'
<1>0. PICK k \in Live : k = node[i].next /\ k # NULL
  BY NextIsOther, Zenon
<1>1. /\ k # i
      /\ Live' = Live \ {k}
      /\ \A j \in Live \ {i, k} : node'[j] = node[j]
      /\ node'[i].base = node[i].base
  BY <1>0, JoinFacts
<1>2. \A j \in Live : node[j].next # NULL => node[j].next \in Live
  BY NextIsOther, Zenon
<1>3. ASSUME NEW j \in Live', node'[j].free, node'[j].next # NULL,
             node'[j].base < node'[i].base
      PROVE  ~node'[node'[j].next].free
  <2>1. j \in Live \ {i, k} /\ node'[j] = node[j]
    BY <1>1, <1>3, RegionTypes, SMTT(30)
  <2>2. node[j].next \in Live /\ ~node[node[j].next].free
    BY <1>1, <1>2, <1>3, <2>1, Zenon DEF CoalescedBelow
  <2>3. node[j].next # i /\ node[j].next # k
    BY <1>0, <2>2, SMTT(30)
  <2> QED
    BY <1>1, <2>1, <2>2, <2>3, SMTT(30)
<1> QED
  BY <1>3, Zenon DEF CoalescedBelow

LEMMA CoalescedStep ==
    ASSUME AllocWorks, Struct, Struct', Control, Target, Coalesced, [Next]_vars
    PROVE  Coalesced'
<1>1. CASE node' = node /\ pc # "merge" /\ pc' # "merge"
  BY <1>1, SameNodes, Zenon DEF Coalesced
<1>2. CASE UNCHANGED vars
  BY <1>2, SameNodes, Zenon DEF Coalesced, vars
<1>3. CASE FfreerTakes
  <2>1. /\ curr \in Live /\ arg.n \in Nat /\ arg.n > 0 /\ node[curr].free
        /\ \/ /\ arg.n < node[curr].cnt /\ allocvmmr \in Blanks
              /\ node' = Split(curr, arg.n, FALSE, TRUE)
           \/ arg.n = node[curr].cnt /\ node' = SetFree(curr, FALSE)
    BY <1>3, TakeFacts, ZenonT(30)
  <2>2. CoalescedBelow(HEAP_END)
    BY <1>3, Zenon DEF FfreerTakes, Coalesced, CoalescedBelow
  <2>3. HEAP_END \in Nat /\ HEAP_END >= HEAP_END
    BY Consts
  <2>4. CoalescedBelow(HEAP_END)'
    BY <2>1, <2>2, <2>3, TakeCoalesced, ZenonT(30)
  <2>5. \A j \in Live' : node'[j].base < HEAP_END
    <3>1. \A j \in Live' : /\ node'[j].base \in Nat /\ node'[j].cnt \in Nat
                           /\ node'[j].cnt > 0 /\ EndOf(j)' <= HEAP_END
      BY Zenon DEF Struct, NodeType, ListTilesHeap, Fills, Live
    <3> QED
      BY <3>1, Consts DEF EndOf
  <2> QED
    BY <2>4, <2>5, Zenon DEF Coalesced, CoalescedBelow
<1>4. CASE pc' = "merge" /\ curr' = head'
  <2>1. \A j \in Live' : ~(node'[j].base < node'[head'].base)
    <3>1. \A j \in Live' : node'[j].base \in Nat /\ HEAP_START <= node'[j].base
      BY Zenon DEF Struct, NodeType, Fills, Live
    <3>2. node'[head'].base = HEAP_START
      BY Zenon DEF Struct, ListTilesHeap
    <3> QED
      BY <3>1, <3>2, Consts
  <2> QED
    BY <1>4, <2>1, Zenon DEF Coalesced
<1>5. CASE MergeTwo
  <2>1. /\ curr \in Live /\ node[curr].next \in Live /\ node[curr].next # NULL
        /\ node[curr].free /\ node[node[curr].next].free
        /\ node' = Joined(curr)
    BY <1>5, JoinIsStruct, Zenon
  <2>2. pc = "merge" /\ pc' = "merge" /\ curr' = curr
    BY <1>5, Zenon DEF MergeTwo
  <2>3. CoalescedBelow(node[curr].base)
    BY <2>2, Zenon DEF Coalesced, CoalescedBelow
  <2>4. CoalescedBelow(node[curr].base)'
    <3> PICK i \in Live : i = curr
      BY <2>1, Zenon
    <3>1. CoalescedBelow(node[i].base)'
      BY <2>1, <2>3, JoinCoalesced, SMTT(30)
    <3> QED
      BY <2>2, <3>1, Zenon DEF CoalescedBelow
  <2> QED
    BY <2>2, <2>4, Zenon DEF Coalesced, CoalescedBelow
<1>6. CASE MergeSkip
  <2>1. /\ pc = "merge" /\ pc' = "merge" /\ node' = node /\ curr' = node[curr].next
        /\ node[curr].next # NULL /\ curr \in Live
        /\ ~(node[curr].free /\ node[node[curr].next].free)
    BY <1>6, Zenon DEF MergeSkip, Control
  <2>2. node[node[curr].next].base = EndOf(curr)
    BY <2>1, NextIsOther, Zenon
  <2>3. ASSUME NEW j \in Live, node[j].base < EndOf(curr), j # curr
        PROVE  node[j].base < node[curr].base
    <3>1. ~(node[curr].base < node[j].base)
      BY <2>1, <2>3, NextIsBehind, RegionTypes
    <3>2. node[curr].base # node[j].base
      BY <2>1, <2>3, SameBase, Zenon
    <3> QED
      BY <2>1, <3>1, <3>2, RegionTypes, SMTT(30)
  <2>4. \A j \in Live : node[j].free /\ node[j].next # NULL /\ node[j].base < EndOf(curr)
                        => ~node[node[j].next].free
    BY <2>1, <2>3, SMTT(30) DEF Coalesced
  <2> QED
    BY <2>1, <2>2, <2>4, SameNodes, Zenon DEF Coalesced
<1>7. CASE MergeDone
  <2>1. /\ pc = "merge" /\ pc' = "idle" /\ node' = node /\ node[curr].next = NULL
        /\ curr \in Live
    BY <1>7, Zenon DEF MergeDone, Return, Control
  <2>2. ASSUME NEW j \in Live, node[j].next # NULL
        PROVE  node[j].base < node[curr].base
    <3>1. ~(node[curr].base < node[j].base)
      BY <2>1, NextIsBehind, Zenon
    <3>2. node[curr].base # node[j].base
      BY <2>1, <2>2, SameBase, Zenon
    <3> QED
      BY <2>1, <3>1, <3>2, RegionTypes
  <2> QED
    BY <2>1, <2>2, SameNodes, Zenon DEF Coalesced
<1>8. CASE UnmapSkip
  <2>1. pc' = "unmap" /\ pc = "unmap" /\ node' = node
    BY <1>8, SkipGoesOn, SMTT(30) DEF UnmapSkip
  <2> QED
    BY <1>1, <2>1, Zenon
<1> QED
  BY <1>1, <1>2, <1>3, <1>4, <1>5, <1>6, <1>7, <1>8, ZenonT(30)
     DEF Next, Call, Walk, vmm_map_pages, vmm_unmap_pages, FfreerSkip, FfreerFails,
         FfreerNoNode, MapAll, MapContFails, MapRunsOut, UnmapWhole, UnmapStart, UnmapEnd,
         UnmapNoNode, StartMerge, Return

LEMMA PassedStep ==
    ASSUME Struct, Control, Passed, [Next]_vars
    PROVE  Passed'
<1>1. CASE UNCHANGED vars
  BY <1>1, SameNodes, Zenon DEF Passed, vars, Fits, InUserRange
<1>2. CASE pc' # "ffreer"
  BY <1>2, SMTT(30) DEF Passed
<1>3. ASSUME NEW n \in 1 .. MaxReq, NEW user \in BOOLEAN, NEW cont \in BOOLEAN,
             vmm_map_pages(n, user, cont)
      PROVE  Passed'
  <2>1. node' = node /\ curr' = head
    BY <1>3, Zenon DEF vmm_map_pages
  <2>2. \A i \in Live : ~(node[i].base < node[head].base)
    BY HeadIsFirst, RegionTypes
  <2>3. head # NULL
    BY Consts, Zenon DEF Struct
  <2> QED
    BY <2>1, <2>2, <2>3, SameNodes, Zenon DEF Passed
<1>4. CASE FfreerSkip
  <2>1. /\ pc = "ffreer" /\ node' = node /\ arg' = arg /\ curr' = node[curr].next
        /\ curr \in Live /\ curr # NULL /\ ~Fits(curr)
    BY <1>4, SMTT(30) DEF FfreerSkip, Control
  <2>2. \A i : Fits(i)' <=> Fits(i)
    BY <2>1, Zenon DEF Fits, InUserRange, EndOf
  <2>3. ASSUME NEW i \in Live,
               \/ node[curr].next = NULL
               \/ node[i].base < node[node[curr].next].base
        PROVE  ~Fits(i)
    <3>1. CASE i = curr
      BY <2>1, <3>1, Zenon
    <3>2. CASE i # curr
      <4>1. node[i].base # node[curr].base
        BY <2>1, <3>2, SameBase, SMTT(30)
      <4>2. ~(node[curr].base < node[i].base)
        BY <2>1, <2>3, NextIsBehind, RegionTypes
      <4>3. node[i].base < node[curr].base
        BY <2>1, <4>1, <4>2, RegionTypes
      <4> QED
        BY <2>1, <4>3, Zenon DEF Passed
    <3> QED
      BY <3>1, <3>2, Zenon
  <2> QED
    BY <2>1, <2>2, <2>3, SameNodes, Zenon DEF Passed
<1> QED
  BY <1>1, <1>2, <1>3, <1>4, ZenonT(30)
     DEF Next, Call, Walk, vmm_unmap_pages, FfreerFails, FfreerNoNode, FfreerTakes,
         MapAll, MapContFails, MapRunsOut, UnmapSkip, UnmapWhole, UnmapStart, UnmapEnd,
         UnmapNoNode, StartMerge, MergeTwo, MergeSkip, MergeDone, Return

-----------------------------------------------------------------------------
(* Which pages are in use.                                                 *)

\* Whether a page is in use is what its region is marked as.
LEMMA UsedAt ==
    ASSUME Struct, NEW i \in Live, NEW x \in Int, InRegion(x, i)
    PROVE  Used(x) <=> ~node[i].free
BY OneRegion, Zenon DEF Used

LEMMA PageInHeap ==
    ASSUME Struct, NEW i \in Live, NEW x \in Int, InRegion(x, i)
    PROVE  x \in HeapPages
BY RegionTypes, Consts DEF InRegion, HeapPages

LEMMA SplitUses ==
    ASSUME Struct, NEW i \in Live, NEW n \in Nat, 0 < n, n < node[i].cnt,
           allocvmmr \in Blanks, NEW f \in BOOLEAN, NEW g \in BOOLEAN,
           node' = Split(i, n, f, g), NEW x \in Int
    PROVE  Used(x)' <=> IF InRegion(x, i)
                        THEN IF x < node[i].base + n THEN ~f ELSE ~g
                        ELSE Used(x)
<1> PICK k \in Nodes \ Live : CutInto(i, n, f, g, k)
  BY SplitFacts, Zenon
<1> USE DEF CutInto
<1>0. node[i].base \in Nat /\ EndOf(i) \in Nat /\ EndOf(i) = node[i].base + node[i].cnt
      /\ node[i].cnt \in Nat
  BY RegionTypes, Zenon
<1> DEFINE In(j) == node'[j].base <= x /\ x < EndOf(j)'
<1>1. \A j \in Live \ {i} : In(j) <=> InRegion(x, j)
  BY Zenon DEF InRegion
<1>2. InRegion(x, i) => \A j \in Live \ {i} : ~In(j)
  BY <1>1, OneRegion, Zenon
<1>3. Used(x)' <=> \E j \in Live' : ~node'[j].free /\ In(j)
  BY Zenon DEF Used, InRegion
<1>4. CASE InRegion(x, i) /\ x < node[i].base + n
  <2>1. In(i) /\ ~In(k)
    BY <1>0, <1>4 DEF InRegion
  <2> HIDE DEF In
  <2> QED
    BY <1>4, <1>2, <1>3, <2>1, Zenon
<1>5. CASE InRegion(x, i) /\ ~(x < node[i].base + n)
  <2>1. In(k) /\ ~In(i)
    BY <1>0, <1>5 DEF InRegion
  <2> HIDE DEF In
  <2> QED
    BY <1>5, <1>2, <1>3, <2>1, Zenon
<1>6. CASE ~InRegion(x, i)
  <2>1. ~InRegion(x, i)' /\ ~InRegion(x, k)'
    BY <1>0, <1>6 DEF InRegion
  <2>2. \A j \in Live \ {i} : InRegion(x, j)' <=> InRegion(x, j)
    BY Zenon DEF InRegion
  <2> QED
    BY <1>6, <2>1, <2>2, Zenon DEF Used
<1> QED
  BY <1>4, <1>5, <1>6, Zenon

\* A run of pages in use stays in one region if the cut does not go through it
\* and its side of the cut stays in use.
LEMMA SplitHolds ==
    ASSUME Struct, NEW i \in Live, NEW n \in Nat, 0 < n, n < node[i].cnt,
           allocvmmr \in Blanks, NEW f \in BOOLEAN, NEW g \in BOOLEAN,
           node' = Split(i, n, f, g),
           NEW b \in Nat, NEW e \in Nat, InUsed(b, e),
           \/ node[i].free
           \/ b < e /\ ~f /\ (e <= node[i].base + n \/ EndOf(i) <= b)
           \/ b < e /\ ~g /\ (node[i].base + n <= b \/ e <= node[i].base)
    PROVE  InUsed(b, e)'
<1> PICK k \in Nodes \ Live : CutInto(i, n, f, g, k)
  BY SplitFacts, Zenon
<1> USE DEF CutInto
<1>0. node[i].base \in Nat /\ EndOf(i) \in Nat /\ EndOf(i) = node[i].base + node[i].cnt
      /\ node[i].cnt \in Nat
  BY RegionTypes, Zenon
<1>1. PICK j \in Live : ~node[j].free /\ node[j].base <= b /\ e <= EndOf(j)
  BY Zenon DEF InUsed
<1>2. CASE j # i
  BY <1>1, <1>2, Zenon DEF InUsed
<1>3. CASE j = i
  <2>1. CASE ~f /\ e <= node[i].base + n
    BY <1>0, <1>1, <1>3, <2>1, Zenon DEF InUsed
  <2>2. CASE ~g /\ node[i].base + n <= b
    BY <1>0, <1>1, <1>3, <2>2, Zenon DEF InUsed
  <2> QED
    BY <1>0, <1>1, <1>3, <2>1, <2>2
<1> QED
  BY <1>2, <1>3, Zenon

LEMMA JoinUses ==
    ASSUME Struct, NEW i \in Live, node[i].next # NULL,
           node[i].free, node[node[i].next].free, node' = Joined(i)
    PROVE  /\ \A x \in Int : Used(x)' <=> Used(x)
           /\ \A b, e \in Nat : InUsed(b, e) => InUsed(b, e)'
<1>0. PICK k \in Live : k = node[i].next /\ k # NULL
  BY NextIsOther, Zenon
<1>1. /\ k # i
      /\ Live' = Live \ {k}
      /\ \A j \in Live \ {i, k} : node'[j] = node[j] /\ EndOf(j)' = EndOf(j)
      /\ node'[i].free = node[i].free
  BY <1>0, JoinFacts, ZenonT(30)
<1>2. node[i].free /\ node[k].free /\ node'[i].free
  BY <1>0, <1>1, Zenon
<1>3. \A x \in Int : Used(x)' <=> Used(x)
  <2>1. \A x \in Int, j \in Live \ {i, k} : InRegion(x, j)' <=> InRegion(x, j)
    BY <1>1, Zenon DEF InRegion
  <2> QED
    BY <1>1, <1>2, <2>1, Zenon DEF Used
<1>4. \A b, e \in Nat : InUsed(b, e) => InUsed(b, e)'
  BY <1>1, <1>2, Zenon DEF InUsed
<1> QED
  BY <1>3, <1>4, Zenon

LEMMA FlagUses ==
    ASSUME Struct, NEW i \in Live, NEW f \in BOOLEAN, node' = SetFree(i, f)
    PROVE  /\ \A x \in Int : Used(x)' <=> IF InRegion(x, i) THEN ~f ELSE Used(x)
           /\ \A b, e \in Nat :
                 /\ InUsed(b, e)
                 /\ node[i].free \/ (b < e /\ (e <= node[i].base \/ EndOf(i) <= b))
                 => InUsed(b, e)'
<1>1. /\ Live' = Live
      /\ \A j \in Live : node'[j].base = node[j].base /\ EndOf(j)' = EndOf(j)
      /\ \A j \in Live \ {i} : node'[j].free = node[j].free
      /\ node'[i].free = f
  BY FlagFacts, Zenon
<1>2. \A x \in Int, j \in Live : InRegion(x, j)' <=> InRegion(x, j)
  BY <1>1, Zenon DEF InRegion
<1>3. ASSUME NEW x \in Int
      PROVE  Used(x)' <=> IF InRegion(x, i) THEN ~f ELSE Used(x)
  <2>1. CASE InRegion(x, i)
    <3>1. \A j \in Live : InRegion(x, j) => j = i
      BY <2>1, OneRegion, Zenon
    <3> QED
      BY <1>1, <1>2, <2>1, <3>1, Zenon DEF Used
  <2>2. CASE ~InRegion(x, i)
    BY <1>1, <1>2, <2>2, Zenon DEF Used
  <2> QED
    BY <2>1, <2>2, Zenon
<1>4. ASSUME NEW b \in Nat, NEW e \in Nat, InUsed(b, e),
             node[i].free \/ (b < e /\ (e <= node[i].base \/ EndOf(i) <= b))
      PROVE  InUsed(b, e)'
  <2>1. PICK j \in Live : ~node[j].free /\ node[j].base <= b /\ e <= EndOf(j)
    BY <1>4, Zenon DEF InUsed
  <2>2. j # i
    BY <1>4, <2>1, RegionTypes
  <2> QED
    BY <1>1, <2>1, <2>2, Zenon DEF InUsed
<1> QED
  BY <1>3, <1>4, Zenon

\* A free region, or the first pages of it, put into use.
LEMMA TakeUses ==
    ASSUME Struct, NEW i \in Live, NEW n \in Nat, n > 0, node[i].free,
           \/ n < node[i].cnt /\ allocvmmr \in Blanks /\ node' = Split(i, n, FALSE, TRUE)
           \/ n = node[i].cnt /\ node' = SetFree(i, FALSE)
    PROVE  /\ \A x \in Int : node[i].base <= x /\ x < node[i].base + n => ~Used(x)
           /\ \A x \in Int :
                Used(x)' <=> Used(x) \/ (node[i].base <= x /\ x < node[i].base + n)
           /\ \A b, e \in Nat : InUsed(b, e) => InUsed(b, e)'
           /\ i \in Live' /\ ~node'[i].free
           /\ node'[i].base = node[i].base /\ EndOf(i)' = node[i].base + n
<1>1. /\ node[i].base \in Nat /\ node[i].cnt \in Nat
      /\ EndOf(i) \in Nat /\ EndOf(i) = node[i].base + node[i].cnt
  BY RegionTypes, Zenon
<1>2. \A x \in Int : InRegion(x, i) => ~Used(x)
  BY UsedAt, Zenon
<1>3. CASE n < node[i].cnt /\ allocvmmr \in Blanks /\ node' = Split(i, n, FALSE, TRUE)
  <2>1. \A x \in Int : node[i].base <= x /\ x < node[i].base + n => InRegion(x, i)
    BY <1>1, <1>3 DEF InRegion
  <2>2. ASSUME NEW x \in Int
        PROVE  Used(x)' <=> Used(x) \/ (node[i].base <= x /\ x < node[i].base + n)
    <3>1. Used(x)' <=> IF InRegion(x, i)
                       THEN IF x < node[i].base + n THEN ~FALSE ELSE ~TRUE
                       ELSE Used(x)
      BY <1>3, SplitUses, ZenonT(30)
    <3>2. InRegion(x, i) => node[i].base <= x
      BY Zenon DEF InRegion
    <3> QED
      BY <1>2, <2>1, <3>1, <3>2, Zenon
  <2>3. \A b, e \in Nat : InUsed(b, e) => InUsed(b, e)'
    BY <1>3, SplitHolds, ZenonT(30)
  <2>4. PICK k \in Nodes \ Live : CutInto(i, n, FALSE, TRUE, k)
    BY <1>3, SplitFacts, ZenonT(30)
  <2>5. i \in Live' /\ ~node'[i].free /\ node'[i].base = node[i].base
        /\ EndOf(i)' = node[i].base + n
    BY <2>4, Zenon DEF CutInto
  <2> QED
    BY <1>2, <2>1, <2>2, <2>3, <2>5, Zenon
<1>4. CASE n = node[i].cnt /\ node' = SetFree(i, FALSE)
  <2>1. \A x \in Int : node[i].base <= x /\ x < node[i].base + n <=> InRegion(x, i)
    BY <1>1, <1>4, Zenon DEF InRegion
  <2>2. /\ \A x \in Int : Used(x)' <=> IF InRegion(x, i) THEN ~FALSE ELSE Used(x)
        /\ \A b, e \in Nat :
              /\ InUsed(b, e)
              /\ node[i].free \/ (b < e /\ (e <= node[i].base \/ EndOf(i) <= b))
              => InUsed(b, e)'
    BY <1>4, FlagUses, ZenonT(30)
  <2>3. \A b, e \in Nat : InUsed(b, e) => InUsed(b, e)'
    BY <2>2, Zenon
  <2>4. i \in Live' /\ node'[i].free = FALSE /\ node'[i].base = node[i].base
        /\ EndOf(i)' = node[i].base + n
    <3>1. /\ i \in Live' /\ node'[i].free = FALSE /\ node'[i].base = node[i].base
          /\ EndOf(i)' = EndOf(i)
      BY <1>4, FlagFacts, ZenonT(30)
    <3>2. EndOf(i) = node[i].base + n
      BY <1>1, <1>4, Zenon
    <3> QED
      BY <3>1, <3>2, Zenon
  <2> QED
    BY <1>2, <2>1, <2>2, <2>3, <2>4, Zenon
<1> QED
  BY <1>3, <1>4, ZenonT(30)

\* vmm_ffreer puts the pages it found into use, and no other.
LEMMA TakeEffect ==
    ASSUME AllocWorks, Struct, Control, FfreerTakes
    PROVE  /\ \A x \in Int : x \in Pending' => ~Used(x)
           /\ \A x \in Int : Used(x)' <=> Used(x) \/ x \in Pending'
           /\ \A b, e \in Nat : InUsed(b, e) => InUsed(b, e)'
           /\ (\E i \in Live : Covers(i))'
<1>1. /\ curr \in Live /\ arg.n \in Nat /\ node[curr].free
      /\ arg'.vst = node[curr].base /\ arg'.n = arg.n /\ curr' = curr
  BY TakeFacts, Zenon
<1>2. node[curr].base \in Nat
  BY <1>1, RegionTypes, Zenon
<1>3. /\ \A x \in Int : node[curr].base <= x /\ x < node[curr].base + arg.n => ~Used(x)
      /\ \A x \in Int :
           Used(x)' <=> Used(x) \/ (node[curr].base <= x /\ x < node[curr].base + arg.n)
      /\ \A b, e \in Nat : InUsed(b, e) => InUsed(b, e)'
      /\ curr \in Live' /\ ~node'[curr].free
      /\ node'[curr].base = node[curr].base
      /\ node'[curr].base + node'[curr].cnt = node[curr].base + arg.n
  <2> PICK i \in Live : i = curr
    BY <1>1, Zenon
  <2> PICK n \in Nat : n = arg.n
    BY <1>1, Zenon
  <2>1. /\ n > 0 /\ node[i].free
        /\ \/ n < node[i].cnt /\ allocvmmr \in Blanks /\ node' = Split(i, n, FALSE, TRUE)
           \/ n = node[i].cnt /\ node' = SetFree(i, FALSE)
    BY TakeFacts, ZenonT(30)
  <2> HIDE DEF Struct
  <2>2. EndOf(i)' = node[i].base + n
    BY <2>1, TakeUses, ZenonT(30)
  <2>3. node'[i].base + node'[i].cnt = node[i].base + n
    BY <2>2, Zenon DEF EndOf
  <2> QED
    BY <2>1, <2>3, TakeUses, ZenonT(30)
<1>4. pc' = "map"
  BY Zenon DEF FfreerTakes
<1>5. \A x \in Int : x \in Pending' <=> node[curr].base <= x /\ x < node[curr].base + arg.n
  <2>1. Pending' = arg'.vst .. arg'.vst + arg'.n - 1
    BY <1>4, Zenon DEF Pending, Pages, ArgRange
  <2> QED
    BY <1>1, <1>2, <2>1, SMTT(30)
<1>6. Covers(curr)'
  BY <1>1, <1>2, <1>3, SMTT(30) DEF Covers, FreeEnd, EndOf
<1> QED
  BY <1>1, <1>3, <1>5, <1>6, Zenon

\* vmm_unmap_pages takes the pages it is given out of use, and no other.
LEMMA GiveEffect ==
    ASSUME AllocWorks, Struct, Control, UnmapWhole \/ UnmapStart \/ UnmapEnd
    PROVE  /\ \A x \in Int : Used(x)' <=> Used(x) /\ x \notin Pending
           /\ \A b, e \in Nat : /\ InUsed(b, e)
                                /\ b < e /\ (e <= arg.vst \/ FreeEnd <= b)
                                => InUsed(b, e)'
           /\ pc' = "merge"
<1> PICK i \in Live : i = curr
  BY GiveFacts, ZenonT(30)
<1> PICK n \in Nat, v \in Nat : n = arg.n /\ v = arg.vst
  BY GiveFacts, ZenonT(30)
<1>1. /\ n > 0 /\ ~node[i].free
      /\ \/ v = node[i].base /\ n = node[i].cnt /\ node' = SetFree(i, TRUE)
         \/ /\ v = node[i].base /\ n < node[i].cnt /\ allocvmmr \in Blanks
            /\ node' = Split(i, n, TRUE, FALSE)
         \/ /\ v = node[i].base + (node[i].cnt - n)
            /\ node[i].cnt - n \in Nat
            /\ 0 < node[i].cnt - n /\ node[i].cnt - n < node[i].cnt
            /\ allocvmmr \in Blanks
            /\ node' = Split(i, node[i].cnt - n, FALSE, TRUE)
      /\ pc = "unmap" /\ pc' = "merge"
  BY GiveFacts, ZenonT(30)
<1>2. /\ node[i].base \in Nat /\ node[i].cnt \in Nat
      /\ EndOf(i) \in Nat /\ EndOf(i) = node[i].base + node[i].cnt
  BY RegionTypes, Zenon
<1>3. FreeEnd = v + n /\ \A x \in Int : x \in Pending <=> v <= x /\ x < v + n
  BY <1>1, ArgType, Zenon DEF Pending
<1>4. \A x \in Int : InRegion(x, i) => Used(x)
  BY <1>1, UsedAt, Zenon
<1>5. CASE v = node[i].base /\ n = node[i].cnt /\ node' = SetFree(i, TRUE)
  <2>1. ASSUME NEW x \in Int
        PROVE  Used(x)' <=> Used(x) /\ x \notin Pending
    <3>1. Used(x)' <=> IF InRegion(x, i) THEN ~TRUE ELSE Used(x)
      BY <1>5, FlagUses, ZenonT(30)
    <3>2. InRegion(x, i) <=> x \in Pending
      BY <1>2, <1>3, <1>5, Zenon DEF InRegion
    <3> QED
      BY <3>1, <3>2, Zenon
  <2>2. ASSUME NEW b \in Nat, NEW e \in Nat,
               InUsed(b, e), b < e /\ (e <= arg.vst \/ FreeEnd <= b)
        PROVE  InUsed(b, e)'
    <3>1. e <= node[i].base \/ EndOf(i) <= b
      BY <1>2, <1>3, <1>5, <2>2, Zenon
    <3> QED
      BY <1>5, <2>2, <3>1, FlagUses, ZenonT(30)
  <2> QED
    BY <1>1, <2>1, <2>2, Zenon
<1>6. CASE /\ v = node[i].base /\ n < node[i].cnt /\ allocvmmr \in Blanks
           /\ node' = Split(i, n, TRUE, FALSE)
  <2>1. ASSUME NEW x \in Int
        PROVE  Used(x)' <=> Used(x) /\ x \notin Pending
    <3>1. Used(x)' <=> IF InRegion(x, i)
                       THEN IF x < node[i].base + n THEN ~TRUE ELSE ~FALSE
                       ELSE Used(x)
      BY <1>1, <1>6, SplitUses, ZenonT(30)
    <3>2. x \in Pending <=> InRegion(x, i) /\ x < node[i].base + n
      BY <1>2, <1>3, <1>6 DEF InRegion
    <3> QED
      BY <1>4, <3>1, <3>2, Zenon
  <2>2. ASSUME NEW b \in Nat, NEW e \in Nat,
               InUsed(b, e), b < e /\ (e <= arg.vst \/ FreeEnd <= b)
        PROVE  InUsed(b, e)'
    <3>1. node[i].base + n <= b \/ e <= node[i].base
      BY <1>2, <1>3, <1>6, <2>2, Zenon
    <3> QED
      BY <1>1, <1>6, <2>2, <3>1, SplitHolds, ZenonT(30)
  <2> QED
    BY <1>1, <2>1, <2>2, Zenon
<1>7. CASE /\ v = node[i].base + (node[i].cnt - n)
           /\ node[i].cnt - n \in Nat
           /\ 0 < node[i].cnt - n /\ node[i].cnt - n < node[i].cnt
           /\ allocvmmr \in Blanks
           /\ node' = Split(i, node[i].cnt - n, FALSE, TRUE)
  <2> PICK m \in Nat : m = node[i].cnt - n
    BY <1>7, Zenon
  <2>0. /\ v = node[i].base + m /\ 0 < m /\ m < node[i].cnt /\ allocvmmr \in Blanks
        /\ node' = Split(i, m, FALSE, TRUE) /\ v + n = EndOf(i)
    BY <1>2, <1>7
  <2>1. ASSUME NEW x \in Int
        PROVE  Used(x)' <=> Used(x) /\ x \notin Pending
    <3>1. Used(x)' <=> IF InRegion(x, i)
                       THEN IF x < node[i].base + m THEN ~FALSE ELSE ~TRUE
                       ELSE Used(x)
      BY <2>0, SplitUses, ZenonT(30)
    <3>2. x \in Pending <=> InRegion(x, i) /\ ~(x < node[i].base + m)
      BY <1>2, <1>3, <2>0 DEF InRegion
    <3> QED
      BY <1>4, <3>1, <3>2, Zenon
  <2>2. ASSUME NEW b \in Nat, NEW e \in Nat,
               InUsed(b, e), b < e /\ (e <= arg.vst \/ FreeEnd <= b)
        PROVE  InUsed(b, e)'
    <3>1. e <= node[i].base + m \/ EndOf(i) <= b
      BY <1>2, <1>3, <2>0, <2>2, Zenon
    <3> QED
      BY <2>0, <2>2, <3>1, SplitHolds, ZenonT(30)
  <2> QED
    BY <1>1, <2>1, <2>2, Zenon
<1> QED
  BY <1>1, <1>5, <1>6, <1>7, ZenonT(30)

-----------------------------------------------------------------------------
(* Runs of pages.                                                          *)

\* Runs without a page in common are one behind the other.
LEMMA RunsApart ==
    ASSUME NEW a \in Nat, NEW m \in Nat, NEW b \in Nat, NEW n \in Nat, m > 0, n > 0,
           \A x \in Int : ~(a <= x /\ x < a + m /\ b <= x /\ x < b + n)
    PROVE  a + m <= b \/ b + n <= a
<1>1. ~(a <= a /\ a < a + m /\ b <= a /\ a < b + n)
  OBVIOUS
<1>2. ~(a <= b /\ b < a + m /\ b <= b /\ b < b + n)
  OBVIOUS
<1> QED
  BY <1>1, <1>2

LEMMA RangeTypes ==
    ASSUME Account, NEW r \in held
    PROVE  /\ r.base \in Nat /\ r.n \in Nat /\ r.n > 0 /\ r.base + r.n \in Nat
           /\ \A x : x \in Pages(r) <=> x \in Int /\ r.base <= x /\ x < r.base + r.n
<1>1. r.base \in Nat /\ r.n \in Nat /\ r.n > 0
  BY Consts DEF Account, HeapPages
<1> QED
  BY <1>1 DEF Pages

LEMMA HeldIff == \A x : x \in HeldPages <=> \E r \in held : x \in Pages(r)
BY Zenon DEF HeldPages

\* The pages of the call lie in the heap.
LEMMA TargetInHeap ==
    ASSUME Struct, Control, Target, pc \in {"map", "unmap"}
    PROVE  /\ InUsed(arg.vst, arg.vst + arg.n)
           /\ HEAP_START <= arg.vst /\ arg.vst + arg.n <= HEAP_END
           /\ arg.vst \in HeapPages /\ Pages(ArgRange) \subseteq HeapPages
           /\ Pending = Pages(ArgRange)
<1>1. PICK i \in Live : Covers(i)
  BY Zenon DEF Target
<1>2. /\ arg.vst \in Nat /\ arg.n \in Nat /\ arg.n > 0 /\ FreeEnd = arg.vst + arg.n
      /\ \A x : x \in Pages(ArgRange) <=> x \in Int /\ arg.vst <= x /\ x < FreeEnd
  BY ArgType, Zenon DEF Control
<1>3. ~node[i].free /\ node[i].base <= arg.vst /\ arg.vst + arg.n <= EndOf(i)
  BY <1>1, <1>2, RegionTypes, Zenon DEF Covers
<1>4. HEAP_START <= arg.vst /\ arg.vst + arg.n <= HEAP_END
  BY <1>2, <1>3, RegionTypes, Consts
<1>5. arg.vst \in HeapPages /\ Pages(ArgRange) \subseteq HeapPages
  BY <1>2, <1>4, Consts DEF HeapPages
<1> QED
  BY <1>3, <1>4, <1>5, Zenon DEF InUsed, Pending

-----------------------------------------------------------------------------
(* Who has the pages.                                                      *)

Owners == Account /\ HeldApart /\ Mapped

\* A step that changes neither which pages are in use nor who has them.
LEMMA OwnersSame ==
    ASSUME Owners, UNCHANGED <<held, lost, mapped, nfree>>, Pending' = Pending,
           \A x \in Int : Used(x)' <=> Used(x),
           \A b, e \in Nat : InUsed(b, e) => InUsed(b, e)'
    PROVE  Owners'
<1>1. HeldPages' = HeldPages
  BY Zenon DEF HeldPages
<1>2. \A x \in HeapPages : x \in Int
  BY Consts DEF HeapPages
<1>3. Account'
  BY <1>1, <1>2, Zenon DEF Owners, Account
<1>4. HeldApart'
  BY RangeTypes, Zenon DEF Owners, HeldApart
<1>5. Mapped'
  BY <1>1, Zenon DEF Owners, Mapped
<1> QED
  BY <1>3, <1>4, <1>5, Zenon DEF Owners

\* Pages that a call has put into use and not handed out.
LEMMA OwnersTake ==
    ASSUME AllocWorks, Struct, Control, Owners, FfreerTakes
    PROVE  Owners'
<1>1. UNCHANGED <<held, lost, mapped, nfree>> /\ pc = "ffreer"
  BY Zenon DEF FfreerTakes
<1>2. HeldPages' = HeldPages /\ Pending = {}
  BY <1>1, Zenon DEF HeldPages, Pending
<1>3. \A x \in HeapPages : x \in Int
  BY Consts DEF HeapPages
<1>4. Account'
  <2>1. /\ \A x \in Int : x \in Pending' => ~Used(x)
        /\ \A x \in Int : Used(x)' <=> Used(x) \/ x \in Pending'
    BY TakeEffect, Zenon
  <2> QED
    BY <1>1, <1>2, <1>3, <2>1, Zenon DEF Owners, Account
<1>5. HeldApart'
  <2>1. \A b, e \in Nat : InUsed(b, e) => InUsed(b, e)'
    BY TakeEffect, Zenon
  <2> QED
    BY <1>1, <2>1, RangeTypes, Zenon DEF Owners, HeldApart
<1>6. Mapped'
  BY <1>1, <1>2, Zenon DEF Owners, Mapped
<1> QED
  BY <1>4, <1>5, <1>6, Zenon DEF Owners

\* Pages that are taken out of use.
LEMMA OwnersGive ==
    ASSUME AllocWorks, Struct, Control, Target, Owners, UnmapWhole \/ UnmapStart \/ UnmapEnd
    PROVE  Owners'
<1>1. UNCHANGED <<held, lost, mapped, nfree>> /\ pc = "unmap" /\ pc' = "merge"
  BY ZenonT(30) DEF UnmapWhole, UnmapStart, UnmapEnd, StartMerge
<1>2. HeldPages' = HeldPages /\ Pending' = {}
  BY <1>1, Zenon DEF HeldPages, Pending
<1>3. \A x \in HeapPages : x \in Int
  BY Consts DEF HeapPages
<1>4. Account'
  <2>1. \A x \in Int : Used(x)' <=> Used(x) /\ x \notin Pending
    BY GiveEffect, Zenon
  <2> QED
    BY <1>1, <1>2, <1>3, <2>1, Zenon DEF Owners, Account
<1>5. ASSUME NEW r \in held
      PROVE  InUsed(r.base, r.base + r.n)'
  <2>1. /\ r.base \in Nat /\ r.n \in Nat /\ r.n > 0 /\ r.base + r.n \in Nat
        /\ \A x : x \in Pages(r) <=> x \in Int /\ r.base <= x /\ x < r.base + r.n
    BY RangeTypes, Zenon DEF Owners
  <2>2. /\ arg.vst \in Nat /\ arg.n \in Nat /\ arg.n > 0 /\ FreeEnd = arg.vst + arg.n
        /\ \A x : x \in Pages(ArgRange) <=> x \in Int /\ arg.vst <= x /\ x < FreeEnd
    BY <1>1, ArgType, Zenon DEF Control
  <2>3. \A x \in Int : ~(r.base <= x /\ x < r.base + r.n /\ arg.vst <= x /\ x < arg.vst + arg.n)
    <3> SUFFICES ASSUME NEW x \in Int, r.base <= x, x < r.base + r.n,
                        arg.vst <= x, x < arg.vst + arg.n
                 PROVE  FALSE
      BY Zenon
    <3>1. x \in HeldPages
      BY <2>1, HeldIff, Zenon
    <3>2. x \in Pending /\ x \in HeapPages
      BY <1>1, <2>2, TargetInHeap, Zenon
    <3> QED
      BY <3>1, <3>2, Zenon DEF Owners, Account
  <2>4. r.base + r.n <= arg.vst \/ arg.vst + arg.n <= r.base
    BY <2>1, <2>2, <2>3, RunsApart, Zenon
  <2>5. InUsed(r.base, r.base + r.n) /\ r.base < r.base + r.n
    BY <2>1 DEF Owners, HeldApart
  <2>6. \A b, e \in Nat : /\ InUsed(b, e)
                          /\ b < e /\ (e <= arg.vst \/ FreeEnd <= b)
                          => InUsed(b, e)'
    BY GiveEffect, Zenon
  <2> QED
    BY <2>1, <2>2, <2>4, <2>5, <2>6, Zenon
<1>6. HeldApart'
  BY <1>1, <1>5, Zenon DEF Owners, HeldApart
<1>7. Mapped'
  BY <1>1, <1>2, Zenon DEF Owners, Mapped
<1> QED
  BY <1>4, <1>6, <1>7, Zenon DEF Owners

\* The call's pages are handed to the caller, each with a frame.
LEMMA OwnersMapAll ==
    ASSUME Struct, Control, Target, Owners, MapAll
    PROVE  Owners'
<1>1. /\ pc = "map" /\ pc' = "idle" /\ nfree >= arg.n
      /\ mapped' = mapped \cup Pages(ArgRange) /\ nfree' = nfree - arg.n
      /\ held' = held \cup {ArgRange} /\ lost' = lost /\ node' = node
  BY Zenon DEF MapAll, Return
<1>2. /\ arg.vst \in Nat /\ arg.n \in Nat /\ arg.n > 0 /\ FreeEnd = arg.vst + arg.n
      /\ ArgRange.base = arg.vst /\ ArgRange.n = arg.n
      /\ \A x : x \in Pages(ArgRange) <=> x \in Int /\ arg.vst <= x /\ x < arg.vst + arg.n
  BY <1>1, ArgType, Zenon DEF Control
<1>3. /\ InUsed(arg.vst, arg.vst + arg.n) /\ arg.vst \in HeapPages
      /\ Pages(ArgRange) \subseteq HeapPages /\ Pending = Pages(ArgRange)
  BY <1>1, TargetInHeap, Zenon
<1>4. Pending' = {}
  BY <1>1, Zenon DEF Pending
<1>5. \A x : x \in HeldPages' <=> x \in HeldPages \/ x \in Pages(ArgRange)
  BY <1>1, Zenon DEF HeldPages
<1>6. \A x \in HeapPages : Used(x)' <=> Used(x)
  BY <1>1, SameNodes, Zenon
<1>7. ArgRange \in [base : HeapPages, n : Nat \ {0}]
  BY <1>2, <1>3 DEF ArgRange
<1>8. Account'
  BY <1>1, <1>3, <1>4, <1>5, <1>6, <1>7, Zenon DEF Owners, Account
<1>9. HeldApart'
  <2>1. ASSUME NEW r \in held
        PROVE  r.base + r.n <= arg.vst \/ arg.vst + arg.n <= r.base
    <3>1. /\ r.base \in Nat /\ r.n \in Nat /\ r.n > 0
          /\ \A x : x \in Pages(r) <=> x \in Int /\ r.base <= x /\ x < r.base + r.n
      BY RangeTypes, Zenon DEF Owners
    <3>2. \A x \in Pages(ArgRange) : x \notin HeldPages
      BY <1>3, Zenon DEF Owners, Account
    <3>3. \A x \in Int : ~(r.base <= x /\ x < r.base + r.n /\ arg.vst <= x /\ x < arg.vst + arg.n)
      BY <1>2, <3>1, <3>2, HeldIff, Zenon
    <3> QED
      BY <1>2, <3>1, <3>3, RunsApart, Zenon
  <2>2. \A r \in held' : InUsed(r.base, r.base + r.n)'
    BY <1>1, <1>2, <1>3, SameNodes, Zenon DEF Owners, HeldApart
  <2>3. \A r, q \in held' : r # q => r.base + r.n <= q.base \/ q.base + q.n <= r.base
    BY <1>1, <1>2, <2>1, Zenon DEF Owners, HeldApart
  <2> QED
    BY <2>2, <2>3, Zenon DEF HeldApart
<1>10. Mapped'
  BY <1>1, <1>2, <1>3, <1>5 DEF Owners, Mapped
<1> QED
  BY <1>8, <1>9, <1>10, Zenon DEF Owners

\* The call fails and its pages are lost, with a frame or without.
LEMMA OwnersLose ==
    ASSUME Struct, Control, Target, Owners, pc \in {"map", "unmap"},
           pc' \notin {"map", "unmap"},
           node' = node, held' = held, lost' = lost \cup Pages(ArgRange),
           nfree' \in Nat, mapped \subseteq mapped',
           mapped' \subseteq mapped \cup Pages(ArgRange)
    PROVE  Owners'
<1>1. /\ Pages(ArgRange) \subseteq HeapPages /\ Pending = Pages(ArgRange)
  BY TargetInHeap, Zenon
<1>2. HeldPages' = HeldPages /\ Pending' = {}
  BY Zenon DEF HeldPages, Pending
<1>3. Account'
  BY <1>1, <1>2, SameNodes, Zenon DEF Owners, Account
<1>4. HeldApart'
  BY SameNodes, Zenon DEF Owners, HeldApart
<1>5. Mapped'
  BY <1>1, <1>2, Zenon DEF Owners, Mapped
<1> QED
  BY <1>3, <1>4, <1>5, Zenon DEF Owners

LEMMA OwnersRunsOut ==
    ASSUME Struct, Control, Target, Owners, MapRunsOut
    PROVE  Owners'
<1>1. /\ pc = "map" /\ pc' = "idle" /\ nfree < arg.n /\ nfree' = 0
      /\ mapped' = mapped \cup Pages([ArgRange EXCEPT !.n = nfree])
      /\ held' = held /\ lost' = lost \cup Pages(ArgRange) /\ node' = node
  BY Zenon DEF MapRunsOut, Return
<1>2. /\ arg.vst \in Nat /\ arg.n \in Nat /\ nfree \in Nat
      /\ \A x : x \in Pages(ArgRange) <=> x \in Int /\ arg.vst <= x /\ x < arg.vst + arg.n
  BY ArgType, Zenon DEF Owners, Mapped
<1> DEFINE P == arg.vst .. arg.vst + nfree - 1
<1>3. mapped' = mapped \cup P
  BY <1>1, Zenon DEF Pages, ArgRange
<1>4. P \subseteq Pages(ArgRange)
  BY <1>1, <1>2, SMTT(30)
<1> QED
  BY <1>1, <1>3, <1>4, OwnersLose, Zenon

-----------------------------------------------------------------------------
(* A range given back.                                                     *)

\* What is left of a range that loses n pages at one end.
LEMMA RestIs ==
    ASSUME NEW r, r.base \in Nat, r.n \in Nat, NEW n \in 1 .. r.n,
           NEW vst \in {r.base, r.base + r.n - n}
    PROVE  \/ n = r.n /\ Rest(r, vst, n) = {}
           \/ /\ n < r.n /\ vst = r.base
              /\ Rest(r, vst, n) = {[base |-> r.base + n, n |-> r.n - n]}
           \/ /\ n < r.n /\ vst = r.base + (r.n - n)
              /\ Rest(r, vst, n) = {[base |-> r.base, n |-> r.n - n]}
<1> DEFINE p == [base |-> r.base, n |-> vst - r.base]
           q == [base |-> vst + n, n |-> r.base + r.n - (vst + n)]
<1>1. /\ p.n = vst - r.base /\ q.n = r.base + r.n - (vst + n)
      /\ Rest(r, vst, n) = {x \in {p, q} : x.n > 0}
  BY Zenon DEF Rest
<1>2. n \in Nat /\ n > 0 /\ n <= r.n /\ vst \in Nat
  OBVIOUS
<1>3. CASE n = r.n
  <2>1. vst = r.base
    BY <1>2, <1>3
  <2>2. ~(p.n > 0) /\ ~(q.n > 0)
    BY <1>1, <1>2, <1>3, <2>1, SMTT(30)
  <2> HIDE DEF p, q
  <2> QED
    BY <1>1, <1>3, <2>2, Zenon
<1>4. CASE n < r.n /\ vst = r.base
  <2>1. ~(p.n > 0) /\ q.n > 0 /\ q.n = r.n - n /\ vst + n = r.base + n
    BY <1>1, <1>2, <1>4, SMTT(30)
  <2>2. q = [base |-> r.base + n, n |-> r.n - n]
    BY <1>1, <2>1, Zenon
  <2> HIDE DEF p, q
  <2>3. Rest(r, vst, n) = {q}
    BY <1>1, <2>1, Zenon
  <2> QED
    BY <1>4, <2>2, <2>3, Zenon
<1>5. CASE n < r.n /\ vst = r.base + r.n - n
  <2>1. p.n > 0 /\ ~(q.n > 0) /\ p.n = r.n - n
    BY <1>1, <1>2, <1>5, SMTT(30)
  <2>2. p = [base |-> r.base, n |-> r.n - n] /\ vst = r.base + (r.n - n)
    BY <1>1, <1>2, <1>5, <2>1, Zenon
  <2> HIDE DEF p, q
  <2>3. Rest(r, vst, n) = {p}
    BY <1>1, <2>1, SMTT(30)
  <2> QED
    BY <1>5, <2>2, <2>3, SMTT(30)
<1> QED
  BY <1>2, <1>3, <1>4, <1>5, SMTT(30)

\* What is left is one range at most: the pages of r that are not given back.
RestIsRest(r, vst, n) ==
    /\ Rest(r, vst, n) \subseteq [base : HeapPages, n : Nat \ {0}]
    /\ \A q \in Rest(r, vst, n) : r.base <= q.base /\ q.base + q.n <= r.base + r.n
    /\ \A q, p \in Rest(r, vst, n) : q = p
    /\ \A x \in Int :
         (r.base <= x /\ x < r.base + r.n) /\ ~(vst <= x /\ x < vst + n)
         <=> \E q \in Rest(r, vst, n) : q.base <= x /\ x < q.base + q.n
    /\ vst \in Nat /\ n \in Nat /\ n > 0
    /\ r.base <= vst /\ vst + n <= r.base + r.n

LEMMA RestFacts ==
    ASSUME NEW r, r.base \in HeapPages, r.n \in Nat, r.base + r.n <= HEAP_END,
           NEW n \in 1 .. r.n, NEW vst \in {r.base, r.base + r.n - n}
    PROVE  RestIsRest(r, vst, n)
<1> USE DEF RestIsRest
<1>1. /\ r.base \in Nat /\ n \in Nat /\ n > 0 /\ n <= r.n
      /\ HEAP_START \in Nat /\ HEAP_END \in Nat /\ HEAP_START <= r.base
  BY Consts DEF HeapPages
<1>2. vst \in Nat /\ r.base <= vst /\ vst + n <= r.base + r.n
  BY <1>1
<1>3. CASE n = r.n /\ Rest(r, vst, n) = {}
  BY <1>1, <1>2, <1>3
<1>4. CASE /\ n < r.n /\ vst = r.base
           /\ Rest(r, vst, n) = {[base |-> r.base + n, n |-> r.n - n]}
  <2> DEFINE q == [base |-> r.base + n, n |-> r.n - n]
  <2>1. q.base = r.base + n /\ q.n = r.n - n /\ q.n > 0 /\ q.n \in Nat
    BY <1>1, <1>4
  <2>2. q.base \in HeapPages
    BY <1>1, <1>4, <2>1, SMTT(30) DEF HeapPages
  <2>3. q \in [base : HeapPages, n : Nat \ {0}]
    BY <2>1, <2>2
  <2>4. r.base <= q.base /\ q.base + q.n <= r.base + r.n
    BY <1>1, <2>1, SMTT(30)
  <2>5. \A x \in Int : (r.base <= x /\ x < r.base + r.n) /\ ~(vst <= x /\ x < vst + n)
                       <=> q.base <= x /\ x < q.base + q.n
    BY <1>1, <1>4, <2>1
  <2>6. Rest(r, vst, n) = {q}
    BY <1>4, SMTT(30)
  <2> HIDE DEF q
  <2> QED
    BY <1>1, <1>2, <2>3, <2>4, <2>5, <2>6, Zenon
<1>5. CASE /\ n < r.n /\ vst = r.base + (r.n - n)
           /\ Rest(r, vst, n) = {[base |-> r.base, n |-> r.n - n]}
  <2> DEFINE q == [base |-> r.base, n |-> r.n - n]
  <2>1. q.base = r.base /\ q.n = r.n - n /\ q.n > 0 /\ q.n \in Nat
    BY <1>1, <1>5
  <2>3. q \in [base : HeapPages, n : Nat \ {0}]
    BY <2>1
  <2>4. r.base <= q.base /\ q.base + q.n <= r.base + r.n
    BY <1>1, <2>1, SMTT(30)
  <2>5. \A x \in Int : (r.base <= x /\ x < r.base + r.n) /\ ~(vst <= x /\ x < vst + n)
                       <=> q.base <= x /\ x < q.base + q.n
    BY <1>1, <1>5, <2>1
  <2>6. Rest(r, vst, n) = {q}
    BY <1>5, Zenon
  <2> HIDE DEF q
  <2> QED
    BY <1>1, <1>2, <2>3, <2>4, <2>5, <2>6, Zenon
<1> QED
  BY <1>1, <1>3, <1>4, <1>5, RestIs, ZenonT(30)

LEMMA OwnersUnmap ==
    ASSUME Struct, Control, Owners, NEW r \in held, NEW n \in 1 .. r.n,
           NEW vst \in {r.base, r.base + r.n - n}, vmm_unmap_pages(r, vst, n)
    PROVE  Owners' /\ Target'
<1> DEFINE R == Rest(r, vst, n)
           P == vst .. vst + n - 1
<1>1. /\ pc = "idle" /\ pc' = "unmap" /\ node' = node /\ lost' = lost
      /\ curr' = head /\ head' = head
      /\ nfree' = nfree + n /\ held' = (held \ {r}) \cup R
      /\ mapped' = mapped \ P
  BY Zenon DEF vmm_unmap_pages, Pages
<1>2. arg'.vst = vst /\ arg'.n = n
  BY Zenon DEF vmm_unmap_pages, Idle
<1>3. /\ r.base \in Nat /\ r.n \in Nat /\ r.n > 0 /\ r.base \in HeapPages
      /\ \A x : x \in Pages(r) <=> x \in Int /\ r.base <= x /\ x < r.base + r.n
  BY RangeTypes, Zenon DEF Owners, Account
<1>4. PICK i \in Live : ~node[i].free /\ node[i].base <= r.base /\ r.base + r.n <= EndOf(i)
  BY Zenon DEF Owners, HeldApart, InUsed
<1>5. r.base + r.n <= HEAP_END /\ r.n \in Nat
  BY <1>3, <1>4, RegionTypes, Consts, SMTT(30)
<1>6. /\ R \subseteq [base : HeapPages, n : Nat \ {0}]
      /\ \A q \in R : r.base <= q.base /\ q.base + q.n <= r.base + r.n
      /\ \A q, p \in R : q = p
      /\ \A x \in Int : (r.base <= x /\ x < r.base + r.n) /\ ~(vst <= x /\ x < vst + n)
                        <=> \E q \in R : q.base <= x /\ x < q.base + q.n
      /\ vst \in Nat /\ n \in Nat /\ n > 0
      /\ r.base <= vst /\ vst + n <= r.base + r.n
  <2>1. RestIsRest(r, vst, n)
    BY <1>3, <1>5, RestFacts, Zenon
  <2> QED
    BY <2>1, Zenon DEF RestIsRest
<1> HIDE DEF R
<1>7. \A x : x \in P <=> x \in Int /\ vst <= x /\ x < vst + n
  BY <1>6
<1>8. Pending = {} /\ Pending' = P
  BY <1>1, <1>2, Zenon DEF Pending, Pages, ArgRange
<1> HIDE DEF P
<1>10. \A x \in P : x \in Pages(r)
  BY <1>3, <1>6, <1>7
<1>11. /\ \A q \in R : q.base \in Nat /\ q.n \in Nat /\ q.n > 0
       /\ \A q \in R : \A x : x \in Pages(q) <=> x \in Int /\ q.base <= x /\ x < q.base + q.n
  <2>1. \A q \in R : q.base \in Nat /\ q.n \in Nat /\ q.n > 0
    BY <1>6, Consts DEF HeapPages
  <2> QED
    BY <2>1 DEF Pages
<1>12. \A x : x \in Pages(r) /\ x \notin P <=> \E q \in R : x \in Pages(q)
  BY <1>3, <1>6, <1>7, <1>11, Zenon
<1>13. \A q \in held \ {r} : \A x \in Pages(q) : x \notin Pages(r)
  <2> SUFFICES ASSUME NEW q \in held, q # r, NEW x \in Pages(q), x \in Pages(r)
               PROVE  FALSE
    BY Zenon
  <2>1. q.base \in Nat /\ q.n \in Nat /\ x \in Int /\ q.base <= x /\ x < q.base + q.n
    BY RangeTypes, Zenon DEF Owners
  <2>2. q.base + q.n <= r.base \/ r.base + r.n <= q.base
    BY Zenon DEF Owners, HeldApart
  <2> QED
    BY <1>3, <2>1, <2>2
<1>14. \A x : x \in HeldPages' <=> x \in HeldPages /\ x \notin P
  <2>1. \A x : x \in HeldPages' <=> \E q \in held' : x \in Pages(q)
    BY Zenon DEF HeldPages
  <2>2. \A x : x \in HeldPages' <=> \/ \E q \in held \ {r} : x \in Pages(q)
                                    \/ \E q \in R : x \in Pages(q)
    BY <1>1, <2>1, Zenon
  <2> QED
    BY <1>10, <1>12, <1>13, <2>2, HeldIff, Zenon
<1>15. P \subseteq HeldPages
  BY <1>10, HeldIff, SMTT(30)
<1>16. Account'
  BY <1>1, <1>6, <1>8, <1>14, <1>15, SameNodes, SMTT(30) DEF Owners, Account
<1>17. HeldApart'
  <2>1. \A q \in R : InUsed(q.base, q.base + q.n)
    BY <1>3, <1>4, <1>6, <1>11, RegionTypes, SMTT(30) DEF InUsed
  <2>2. \A q \in held' : InUsed(q.base, q.base + q.n)'
    BY <1>1, <2>1, SameNodes, SMTT(30) DEF Owners, HeldApart
  <2>3. \A q \in held \ {r}, p \in R : q.base + q.n <= p.base \/ p.base + p.n <= q.base
    <3> SUFFICES ASSUME NEW q \in held \ {r}, NEW p \in R
                 PROVE  q.base + q.n <= p.base \/ p.base + p.n <= q.base
      BY Zenon
    <3>1. q.base + q.n <= r.base \/ r.base + r.n <= q.base
      BY Zenon DEF Owners, HeldApart
    <3>2. q.base \in Nat /\ q.n \in Nat
      BY RangeTypes, Zenon DEF Owners
    <3> QED
      BY <1>3, <1>6, <1>11, <3>1, <3>2
  <2>4. \A q, p \in held' : q # p => q.base + q.n <= p.base \/ p.base + p.n <= q.base
    BY <1>1, <1>6, <2>3, Zenon DEF Owners, HeldApart
  <2> QED
    BY <2>2, <2>4, SMTT(30) DEF HeldApart
<1>19. Mapped'
  BY <1>1, <1>6, <1>14, SMTT(30) DEF Owners, Mapped
<1>20. Covers(i)'
  <2>1. arg'.vst >= node[i].base /\ arg'.vst + arg'.n <= EndOf(i)
    BY <1>2, <1>3, <1>4, <1>6, RegionTypes
  <2> QED
    BY <1>1, <1>4, <2>1, SameNodes, SMTT(30) DEF Covers, FreeEnd
<1>21. node[head].base <= node[i].base
  BY HeadIsFirst, Zenon
<1>22. Target'
  <2>1. i \in Live' /\ node'[curr'].base <= node'[i].base
    BY <1>1, <1>21, SameNodes, SMTT(30)
  <2> QED
    BY <1>1, <1>20, <2>1, SMTT(30) DEF Target
<1> QED
  BY <1>16, <1>17, <1>19, <1>22, Zenon DEF Owners

-----------------------------------------------------------------------------
(* Every step.                                                             *)

LEMMA OwnersStep ==
    ASSUME AllocWorks, Struct, Control, Target, Owners, [Next]_vars
    PROVE  Owners'
<1>1. CASE /\ node' = node /\ UNCHANGED <<held, lost, mapped, nfree>>
           /\ pc \notin {"map", "unmap"} /\ pc' \notin {"map", "unmap"}
  <2>1. Pending' = Pending
    BY <1>1, Zenon DEF Pending
  <2> QED
    BY <1>1, <2>1, SameNodes, OwnersSame, Zenon
<1>2. CASE UNCHANGED vars
  <2>1. Pending' = Pending /\ node' = node /\ UNCHANGED <<held, lost, mapped, nfree>>
    BY <1>2, Zenon DEF Pending, Pages, ArgRange, vars
  <2> QED
    BY <2>1, SameNodes, OwnersSame, Zenon
<1>3. ASSUME NEW r \in held, NEW n \in 1 .. r.n, NEW vst \in {r.base, r.base + r.n - n},
             vmm_unmap_pages(r, vst, n)
      PROVE  Owners'
  BY <1>3, OwnersUnmap, Zenon
<1>4. CASE FfreerTakes
  BY <1>4, OwnersTake, Zenon
<1>5. CASE MapAll
  BY <1>5, OwnersMapAll, Zenon
<1>6. CASE MapContFails \/ UnmapNoNode
  <2>1. /\ pc \in {"map", "unmap"} /\ pc' \notin {"map", "unmap"} /\ node' = node
        /\ held' = held /\ lost' = lost \cup Pages(ArgRange) /\ nfree' = nfree
        /\ mapped' = mapped
    BY <1>6, Zenon DEF MapContFails, UnmapNoNode, Return, StartMerge
  <2>2. nfree' \in Nat
    BY <2>1, Zenon DEF Owners, Mapped
  <2> QED
    BY <2>1, <2>2, OwnersLose, Zenon
<1>7. CASE MapRunsOut
  BY <1>7, OwnersRunsOut, Zenon
<1>8. CASE UnmapSkip
  <2>1. /\ pc' = "unmap" /\ pc = "unmap" /\ node' = node /\ arg' = arg
        /\ UNCHANGED <<held, lost, mapped, nfree>>
    BY <1>8, SkipGoesOn, Zenon DEF UnmapSkip
  <2>2. Pending' = Pending
    BY <2>1, Zenon DEF Pending, Pages, ArgRange
  <2> QED
    BY <2>1, <2>2, SameNodes, OwnersSame, SMTT(30)
<1>9. CASE UnmapWhole \/ UnmapStart \/ UnmapEnd
  BY <1>9, OwnersGive, Zenon
<1>10. CASE MergeTwo
  <2>1. /\ pc = "merge" /\ pc' = "merge" /\ UNCHANGED <<held, lost, mapped, nfree>>
    BY <1>10, Zenon DEF MergeTwo
  <2>2. Pending' = Pending
    BY <2>1, Zenon DEF Pending
  <2>3. /\ \A x \in Int : Used(x)' <=> Used(x)
        /\ \A b, e \in Nat : InUsed(b, e) => InUsed(b, e)'
    BY <1>10, JoinIsStruct, JoinUses, SMTT(30)
  <2> QED
    BY <2>1, <2>2, <2>3, OwnersSame, Zenon
<1> QED
  BY <1>1, <1>2, <1>3, <1>4, <1>5, <1>6, <1>7, <1>8, <1>9, <1>10, ZenonT(60)
     DEF Next, Call, Walk, vmm_map_pages, FfreerSkip, FfreerFails, FfreerNoNode,
         MergeSkip, MergeDone, Return

LEMMA TargetStep ==
    ASSUME AllocWorks, Struct, Control, Target, Owners, [Next]_vars
    PROVE  Target'
<1>1. CASE pc' \notin {"map", "unmap"}
  BY <1>1, Zenon DEF Target
<1>2. CASE UNCHANGED vars
  <2>1. \A i : Covers(i)' <=> Covers(i)
    BY <1>2, Zenon DEF vars, Covers, FreeEnd, EndOf
  <2> QED
    BY <1>2, <2>1, SameNodes, Zenon DEF Target, vars
<1>3. ASSUME NEW r \in held, NEW n \in 1 .. r.n, NEW vst \in {r.base, r.base + r.n - n},
             vmm_unmap_pages(r, vst, n)
      PROVE  Target'
  BY <1>3, OwnersUnmap, Zenon
<1>4. CASE FfreerTakes
  <2>1. pc' = "map"
    BY <1>4, Zenon DEF FfreerTakes
  <2>2. (\E i \in Live : Covers(i))'
    BY <1>4, TakeEffect, Zenon
  <2> QED
    BY <2>1, <2>2, Zenon DEF Target
<1>5. CASE UnmapSkip
  BY <1>5, SkipGoesOn, Zenon
<1> QED
  BY <1>1, <1>2, <1>3, <1>4, <1>5, ZenonT(30)
     DEF Next, Call, Walk, vmm_map_pages, FfreerSkip, FfreerFails, FfreerNoNode,
         MapAll, MapContFails, MapRunsOut, UnmapWhole, UnmapStart, UnmapEnd,
         UnmapNoNode, StartMerge, MergeTwo, MergeSkip, MergeDone, Return

-----------------------------------------------------------------------------
(* Blank nodes and frames.                                                 *)

INSTANCE FiniteSetTheorems

\* allocvmmr finds a blank node if there is one.
LEMMA AllocIsBlank == AllocWorks
<1> SUFFICES ASSUME Blanks # {} PROVE allocvmmr \in Blanks
  BY Zenon DEF AllocWorks
<1>1. Blanks \subseteq Nat
  BY LiveIsNode, Consts, Zenon
<1> DEFINE R == OpToRel(<, Nat)
<1>2. IsWellFoundedOn(R, Nat)
  BY NatLessThanWellFounded, ZenonT(30)
<1>3. \A i, j \in Blanks : ~(<<j, i>> \in R) => i <= j
  BY <1>1 DEF OpToRel
<1> HIDE DEF R
<1>4. \E i \in Blanks : \A j \in Blanks : ~(<<j, i>> \in R)
  BY <1>1, <1>2, WFMin, Zenon
<1>5. \E i \in Blanks : \A j \in Blanks : i <= j
  BY <1>3, <1>4, ZenonT(30)
<1> QED
  BY <1>5, Zenon DEF allocvmmr

LEMMA RunCard ==
    ASSUME NEW v \in Nat, NEW n \in Nat
    PROVE  /\ IsFiniteSet(v .. v + n - 1)
           /\ Cardinality(v .. v + n - 1) = n
<1>1. v \in Int /\ v + n - 1 \in Int
  OBVIOUS
<1>2. /\ IsFiniteSet(v .. v + n - 1)
      /\ Cardinality(v .. v + n - 1) = IF v > v + n - 1 THEN 0 ELSE (v + n - 1) - v + 1
  BY <1>1, FS_Interval, Zenon
<1> QED
  BY <1>2

LEMMA MappedIsFinite ==
    ASSUME Mapped
    PROVE  IsFiniteSet(mapped) /\ Cardinality(mapped) \in Nat
<1>1. HEAP_START \in Int /\ HEAP_END - 1 \in Int
  BY Consts
<1>2. IsFiniteSet(HeapPages)
  BY <1>1, FS_Interval, SMTT(30) DEF HeapPages
<1>3. IsFiniteSet(mapped)
  BY <1>2, FS_Subset, SMTT(30) DEF Mapped
<1> QED
  BY <1>3, FS_CardinalityType, Zenon

LEMMA FramesTaken ==
    ASSUME Mapped, FramesConserved, NEW P, IsFiniteSet(P), Cardinality(P) \in Nat,
           mapped \cap P = {}, mapped' = mapped \cup P, nfree' = nfree - Cardinality(P)
    PROVE  FramesConserved'
<1>1. IsFiniteSet(mapped) /\ Cardinality(mapped) \in Nat
  BY MappedIsFinite, Zenon
<1>2. Cardinality(mapped \cup P) = Cardinality(mapped) + Cardinality(P) - Cardinality({})
  BY <1>1, FS_Union
<1>3. Cardinality({}) = 0
  BY FS_EmptySet, Zenon
<1>4. nfree \in Nat /\ nfree + Cardinality(mapped) = FRAMES
  BY Zenon DEF Mapped, FramesConserved
<1>5. (nfree - Cardinality(P)) + Cardinality(mapped \cup P) = FRAMES
  BY <1>1, <1>2, <1>3, <1>4, SMTT(30)
<1> QED
  BY <1>5, Zenon DEF FramesConserved

LEMMA FramesGiven ==
    ASSUME Mapped, FramesConserved, NEW P, Cardinality(P) \in Nat,
           P \subseteq mapped, mapped' = mapped \ P, nfree' = nfree + Cardinality(P)
    PROVE  FramesConserved'
<1>1. IsFiniteSet(mapped) /\ Cardinality(mapped) \in Nat
  BY MappedIsFinite, Zenon
<1>2. Cardinality(mapped \ P) = Cardinality(mapped) - Cardinality(mapped \cap P)
  BY <1>1, FS_Difference, ZenonT(30)
<1>3. mapped \cap P = P
  BY Zenon
<1>4. nfree \in Nat /\ nfree + Cardinality(mapped) = FRAMES
  BY Zenon DEF Mapped, FramesConserved
<1>5. (nfree + Cardinality(P)) + Cardinality(mapped \ P) = FRAMES
  BY <1>1, <1>2, <1>3, <1>4
<1> QED
  BY <1>5, Zenon DEF FramesConserved

LEMMA FramesStep ==
    ASSUME Struct, Control, Target, Owners, FramesConserved, [Next]_vars
    PROVE  FramesConserved'
<1>1. CASE UNCHANGED <<mapped, nfree>>
  BY <1>1, Zenon DEF FramesConserved
<1>2. /\ arg.vst \in Nat /\ arg.n \in Nat /\ nfree \in Nat
      /\ \A x : x \in Pages(ArgRange) <=> x \in Int /\ arg.vst <= x /\ x < FreeEnd
      /\ FreeEnd = arg.vst + arg.n
  BY ArgType, Zenon DEF Owners, Mapped
<1>3. pc = "map" => mapped \cap Pages(ArgRange) = {}
  BY TargetInHeap, Zenon DEF Owners, Account, Mapped
<1>4. CASE MapAll
  <2> DEFINE P == arg.vst .. arg.vst + arg.n - 1
  <2>1. Pages(ArgRange) = P
    BY Zenon DEF Pages, ArgRange
  <2>2. IsFiniteSet(P) /\ Cardinality(P) = arg.n
    BY <1>2, RunCard, ZenonT(30)
  <2> HIDE DEF P
  <2>3. mapped \cap P = {} /\ mapped' = mapped \cup P /\ nfree' = nfree - Cardinality(P)
    BY <1>3, <1>4, <2>1, <2>2, Zenon DEF MapAll
  <2> QED
    BY <1>2, <2>2, <2>3, FramesTaken, SMTT(30) DEF Owners
<1>5. CASE MapRunsOut
  <2> DEFINE P == arg.vst .. arg.vst + nfree - 1
  <2>1. Pages([ArgRange EXCEPT !.n = nfree]) = P
    BY Zenon DEF Pages, ArgRange
  <2>2. IsFiniteSet(P) /\ Cardinality(P) = nfree
    BY <1>2, RunCard, ZenonT(30)
  <2>3. pc = "map" /\ nfree < arg.n
    BY <1>5, Zenon DEF MapRunsOut
  <2>4. P \subseteq Pages(ArgRange)
    BY <1>2, <2>3
  <2> HIDE DEF P
  <2>5. mapped' = mapped \cup P /\ nfree' = 0
    BY <1>5, <2>1, Zenon DEF MapRunsOut
  <2>6. mapped \cap P = {}
    BY <1>3, <2>3, <2>4, SMTT(30)
  <2>7. nfree' = nfree - Cardinality(P)
    BY <1>2, <2>2, <2>5, SMTT(30)
  <2> QED
    BY <1>2, <2>2, <2>5, <2>6, <2>7, FramesTaken, Zenon DEF Owners
<1>6. ASSUME NEW r \in held, NEW n \in 1 .. r.n, NEW vst \in {r.base, r.base + r.n - n},
             vmm_unmap_pages(r, vst, n)
      PROVE  FramesConserved'
  <2> DEFINE P == vst .. vst + n - 1
  <2>1. /\ r.base \in Nat /\ r.n \in Nat
        /\ \A x : x \in Pages(r) <=> x \in Int /\ r.base <= x /\ x < r.base + r.n
    BY RangeTypes, Zenon DEF Owners
  <2>2. n \in Nat /\ vst \in Nat /\ r.base <= vst /\ vst + n <= r.base + r.n
    BY <2>1
  <2>3. P \subseteq Pages(r)
    BY <2>1, <2>2
  <2>4. IsFiniteSet(P) /\ Cardinality(P) = n
    BY <2>2, RunCard, ZenonT(30)
  <2>5. mapped' = mapped \ P /\ nfree' = nfree + n
    BY <1>6, Zenon DEF vmm_unmap_pages, Pages
  <2> HIDE DEF P
  <2>6. P \subseteq mapped
    BY <2>3, HeldIff, Zenon DEF Owners, Mapped
  <2> QED
    BY <2>2, <2>4, <2>5, <2>6, FramesGiven, SMTT(30) DEF Owners
<1> QED
  BY <1>1, <1>4, <1>5, <1>6, ZenonT(30)
     DEF Next, Call, Walk, vars, vmm_map_pages, FfreerSkip, FfreerFails, FfreerNoNode,
         FfreerTakes, MapContFails, UnmapSkip, UnmapWhole, UnmapStart, UnmapEnd,
         UnmapNoNode, StartMerge, MergeTwo, MergeSkip, MergeDone

-----------------------------------------------------------------------------
(* The invariant.                                                          *)

LEMMA InitInv == Init => IInv
<1> SUFFICES ASSUME Init PROVE IInv
  BY Zenon
<1> DEFINE a == Region(HEAP_START, HEAP_END - HEAP_START, TRUE, NULL)
<1>1. /\ node = [i \in Nodes |-> IF i = 0 THEN a ELSE Blank]
      /\ head = 0 /\ pc = "idle" /\ curr = NULL /\ arg = Idle
      /\ mapped = {} /\ nfree = FRAMES /\ held = {} /\ lost = {}
  BY Zenon DEF Init
<1>2. /\ HEAP_START \in Nat /\ HEAP_END \in Nat /\ HEAP_START > 0 /\ HEAP_START < HEAP_END
      /\ 0 \in Nodes /\ FRAMES \in Nat
  BY Consts, VmmAssumption, Zenon
<1>3. /\ a \in [base : Nat, cnt : Nat, free : BOOLEAN, next : Nodes \cup {NULL}]
      /\ a.base = HEAP_START /\ a.cnt = HEAP_END - HEAP_START /\ a.free /\ a.next = NULL
      /\ Blank \in [base : Nat, cnt : Nat, free : BOOLEAN, next : Nodes \cup {NULL}]
      /\ IsBlank(Blank) /\ ~IsBlank(a)
  BY <1>2 DEF Region, Blank, IsBlank
<1> HIDE DEF a
<1>4. /\ node[0] = a /\ NodeType
      /\ \A i \in Nodes : i # 0 => node[i] = Blank
  BY <1>1, <1>2, <1>3, SMTT(30) DEF NodeType
<1>5. Live = {0}
  BY <1>2, <1>3, <1>4, SMTT(30) DEF Live, Blanks
<1>6. node[0].base = HEAP_START /\ node[0].cnt > 0 /\ EndOf(0) = HEAP_END
      /\ node[0].free /\ node[0].next = NULL
  BY <1>2, <1>3, <1>4, SMTT(30) DEF EndOf
<1>7. ListTilesHeap
  BY <1>1, <1>5, <1>6, SMTT(30) DEF ListTilesHeap
<1>8. Fills
  BY <1>2, <1>5, <1>6, SMTT(30) DEF Fills, HeapPages
<1>9. Struct
  BY <1>1, <1>2, <1>4, <1>7, <1>8, SMTT(30) DEF Struct
<1>10. Control /\ Target /\ Passed
  BY <1>1, Zenon DEF Control, Target, Passed, Idle
<1>11. Coalesced
  BY <1>5, <1>6, Zenon DEF Coalesced
<1>12. HeldPages = {} /\ Pending = {}
  BY <1>1, SMTT(30) DEF HeldPages, Pending
<1>13. \A x : ~Used(x)
  BY <1>5, <1>6, SMTT(30) DEF Used
<1>14. Account /\ HeldApart
  BY <1>1, <1>12, <1>13, SMTT(30) DEF Account, HeldApart
<1>15. Cardinality({}) = 0
  BY FS_EmptySet, Zenon
<1>16. FramesConserved
  BY <1>1, <1>2, <1>15, SMTT(30) DEF FramesConserved
<1>17. Mapped
  BY <1>1, <1>2, <1>12, SMTT(30) DEF Mapped
<1> QED
  BY <1>9, <1>10, <1>11, <1>14, <1>16, <1>17, Zenon DEF IInv

LEMMA NextInv == IInv /\ [Next]_vars => IInv'
<1> SUFFICES ASSUME IInv, [Next]_vars PROVE IInv'
  BY Zenon
<1>0. /\ Struct /\ Control /\ Target /\ Account /\ Owners /\ Coalesced /\ Passed
      /\ FramesConserved
      /\ AllocWorks
  BY AllocIsBlank, SMTT(30) DEF IInv, Owners
<1>1. Struct'
  BY <1>0, StructStep, SMTT(30)
<1>2. Control'
  BY <1>0, <1>1, ControlStep, SMTT(30)
<1>3. Owners' /\ Target'
  BY <1>0, OwnersStep, TargetStep, Zenon
<1>4. Coalesced' /\ Passed'
  BY <1>0, <1>1, CoalescedStep, PassedStep, SMTT(30)
<1>5. FramesConserved'
  BY <1>0, FramesStep, Zenon
<1> QED
  BY <1>1, <1>2, <1>3, <1>4, <1>5, SMTT(30) DEF IInv, Owners

LEMMA Invariant == Spec => []IInv
BY InitInv, NextInv, PTL DEF Spec

-----------------------------------------------------------------------------
(* The theorems.                                                           *)

LEMMA UsedPagesIff ==
    ASSUME Struct
    PROVE  /\ \A x : x \in UsedPages <=> x \in Int /\ Used(x)
           /\ UsedPages \subseteq HeapPages
<1>1. ASSUME NEW i \in Live
      PROVE  \A x : x \in RegionPages(i) <=> x \in Int /\ InRegion(x, i)
  BY RegionTypes DEF RegionPages, InRegion
<1>2. \A x : x \in UsedPages <=> \E i \in Live : ~node[i].free /\ x \in RegionPages(i)
  BY Zenon DEF UsedPages
<1>3. \A x : x \in UsedPages <=> x \in Int /\ Used(x)
  BY <1>1, <1>2, Zenon DEF Used
<1>4. \A x \in UsedPages : x \in HeapPages
  BY <1>3, PageInHeap, Zenon DEF Used
<1> QED
  BY <1>3, <1>4, Zenon

\* Node links, requests, ranges and frame counts keep their types.
THEOREM TypesAreKept == Spec => []TypeOK
<1>1. IInv => TypeOK
  BY Zenon DEF IInv, Struct, NodeType, Control, Account, Mapped, TypeOK
<1> QED
  BY <1>1, Invariant, PTL

\* The region list tiles the heap in every state, in the middle of a call too:
\* no split or merge leaves a gap, an overlap, a dangling link or a node in use
\* outside the list.
THEOREM ListAlwaysTilesHeap == Spec => []ListTilesHeap
<1>1. IInv => ListTilesHeap
  BY SMTT(30) DEF IInv, Struct
<1> QED
  BY <1>1, Invariant, PTL

\* Between calls the pages of regions in use are the held and the lost ones.
THEOREM UsedIsAlwaysHeld == Spec => []UsedIsHeld
<1>1. IInv => UsedIsHeld
  <2> SUFFICES ASSUME IInv, pc = "idle"
               PROVE  UsedPages = HeldPages \cup lost /\ HeldPages \cap lost = {}
    BY Zenon DEF UsedIsHeld
  <2>1. Struct /\ Account /\ Mapped
    BY Zenon DEF IInv
  <2>2. Pending = {}
    BY Zenon DEF Pending
  <2>3. \A x \in HeapPages : x \in Int
    BY Consts DEF HeapPages
  <2>4. HeldPages \subseteq HeapPages /\ lost \subseteq HeapPages
    BY <2>1, SMTT(30) DEF Account, Mapped
  <2> QED
    BY <2>1, <2>2, <2>3, <2>4, UsedPagesIff, SMTT(30) DEF Account
<1> QED
  BY <1>1, Invariant, PTL

\* Held pages are mapped, and only held or lost ones are.
THEOREM MappedIsAlwaysUsed == Spec => []MappedIsUsed
<1>1. IInv => MappedIsUsed
  BY SMTT(30) DEF IInv, Mapped, MappedIsUsed
<1> QED
  BY <1>1, Invariant, PTL

\* No frame is lost or freed twice by a mapping or an unmapping.
THEOREM FramesAreConserved == Spec => []FramesConserved
<1>1. IInv => FramesConserved
  BY SMTT(30) DEF IInv
<1> QED
  BY <1>1, Invariant, PTL

\* vmm_ffreer gives up on a kernel request only if no run of free pages is
\* long enough: the merging has left no two free regions in a row.
THEOREM FailsOnlyForLackOfRoom == Spec => []FailsOnlyWithoutHole
<1>1. IInv => FailsOnlyWithoutHole
  <2> SUFFICES ASSUME IInv, pc = "ffreer", curr = NULL, ~arg.user,
                      NEW b \in HEAP_START .. HEAP_END - arg.n,
                      Pages([base |-> b, n |-> arg.n]) \cap UsedPages = {}
               PROVE  FALSE
    BY Zenon DEF FailsOnlyWithoutHole
  <2>1. Struct /\ Control /\ Coalesced /\ Passed
    BY Zenon DEF IInv
  <2>2. arg.n \in Nat /\ arg.n > 0 /\ HEAP_START \in Nat /\ HEAP_END \in Nat
    BY <2>1, Consts, Zenon DEF Control
  <2>3. b \in Int /\ HEAP_START <= b /\ b + arg.n <= HEAP_END
    BY <2>2
  <2>4. \A x \in Int : b <= x /\ x < b + arg.n => x \in HeapPages /\ ~Used(x)
    <3>1. Pages([base |-> b, n |-> arg.n]) = b .. b + arg.n - 1
      BY Zenon DEF Pages
    <3>2. \A x \in Int : b <= x /\ x < b + arg.n
                         => x \in HeapPages /\ x \in Pages([base |-> b, n |-> arg.n])
      BY <2>2, <2>3, <3>1, SMTT(30) DEF HeapPages
    <3>3. \A x \in Int : Used(x) => x \in UsedPages
      BY <2>1, UsedPagesIff, Zenon
    <3> QED
      BY <3>2, <3>3, SMTT(30)
  <2>5. b \in HeapPages /\ ~Used(b)
    BY <2>2, <2>3, <2>4, SMTT(30)
  <2>6. PICK i \in Live : node[i].base <= b /\ b < EndOf(i)
    BY <2>1, <2>5, SMTT(30) DEF Struct, Fills
  <2>7. /\ node[i].base \in Nat /\ node[i].cnt \in Nat /\ EndOf(i) \in Nat
        /\ EndOf(i) = node[i].base + node[i].cnt /\ node[i].free \in BOOLEAN
    BY <2>1, RegionTypes, SMTT(30)
  <2>8. node[i].free
    BY <2>3, <2>5, <2>6, <2>7, SMTT(30) DEF Used, InRegion
  <2>9. node[i].cnt < arg.n
    BY <2>1, <2>2, <2>7, <2>8, SMTT(30) DEF Passed, Fits
  <2>10. b <= EndOf(i) /\ EndOf(i) < b + arg.n
    BY <2>2, <2>3, <2>6, <2>7, <2>9, SMTT(30)
  <2>11. ~Used(EndOf(i)) /\ EndOf(i) # HEAP_END
    BY <2>2, <2>3, <2>4, <2>7, <2>10, SMTT(30)
  <2>12. node[i].next # NULL
    BY <2>1, <2>11, SMTT(30) DEF Struct, ListTilesHeap
  <2>13. PICK k \in Live : k = node[i].next /\ node[k].base = EndOf(i) /\ ~node[k].free
    BY <2>1, <2>8, <2>12, NextIsOther, SMTT(30) DEF Coalesced
  <2>14. InRegion(EndOf(i), k)
    BY <2>1, <2>13, RegionTypes, SMTT(30) DEF InRegion
  <2> QED
    BY <2>11, <2>13, <2>14, SMTT(30) DEF Used
<1> QED
  BY <1>1, Invariant, PTL

\* Regions in use, ranges held, mappings and free frames agree, also after
\* calls that fail half way (vmm_map_pages, vmm_unmap_pages).
THEOREM PagesAreAccounted == Spec => []PagesAccounted
<1>1. UsedIsHeld /\ MappedIsUsed /\ FramesConserved => PagesAccounted
  BY Zenon DEF PagesAccounted
<1> QED
  BY <1>1, UsedIsAlwaysHeld, MappedIsAlwaysUsed, FramesAreConserved, PTL

\* The callers of vmm_map_pages and vmm_unmap_pages see disjoint ranges of the
\* heap: the region list implements PageRanges.
THEOREM ImplementsRanges == Spec => RangesSpec
<1>1. Init => Ranges!Init
  BY SMTT(30) DEF Init, Ranges!Init
<1>2. IInv /\ [Next]_vars => [Ranges!Alloc \/ Ranges!FreeWhole \/ Ranges!FreePart]_held
  <2> SUFFICES ASSUME IInv, [Next]_vars
               PROVE  Ranges!Alloc \/ Ranges!FreeWhole \/ Ranges!FreePart \/ held' = held
    BY Zenon
  <2>0. Struct /\ Control /\ Target /\ Owners
    BY Zenon DEF IInv, Owners
  <2>1. CASE MapAll
    <3>1. pc = "map" /\ held' = held \cup {ArgRange}
      BY <2>1, Zenon DEF MapAll
    <3>2. /\ arg.vst \in HeapPages /\ arg.vst + arg.n <= HEAP_END
          /\ Pages(ArgRange) \subseteq HeapPages /\ Pending = Pages(ArgRange)
      BY <2>0, <3>1, TargetInHeap, SMTT(30)
    <3>3. arg.vst \in Nat /\ arg.n \in Nat /\ arg.n > 0 /\ HEAP_END \in Nat
      BY <2>0, <3>1, ArgType, Consts, SMTT(30) DEF Control
    <3>4. arg.n \in 1 .. HEAP_END - arg.vst
      BY <3>2, <3>3
    <3>5. \A h \in held : Pages(h) \cap Pages(ArgRange) = {}
      BY <2>0, <3>2, HeldIff, SMTT(30) DEF Owners, Account
    <3>6. Ranges!Alloc
      BY <3>1, <3>2, <3>4, <3>5, SMTT(30) DEF Ranges!Alloc, Ranges!HeapPages, Ranges!Pages,
         HeapPages, Pages, ArgRange
    <3> QED
      BY <3>6, Zenon
  <2>2. ASSUME NEW r \in held, NEW n \in 1 .. r.n, NEW vst \in {r.base, r.base + r.n - n},
               vmm_unmap_pages(r, vst, n)
        PROVE  Ranges!FreeWhole \/ Ranges!FreePart
    <3>1. held' = (held \ {r}) \cup Rest(r, vst, n)
      BY <2>2, Zenon DEF vmm_unmap_pages
    <3>2. r.base \in Nat /\ r.n \in Nat /\ n \in Nat
      BY <2>0, RangeTypes DEF Owners
    <3>3. CASE n = r.n /\ Rest(r, vst, n) = {}
      BY <3>1, <3>3, SMTT(30) DEF Ranges!FreeWhole
    <3>4. CASE n < r.n /\ Rest(r, vst, n) = {[base |-> r.base + n, n |-> r.n - n]}
      <4>1. n \in 1 .. r.n - 1
        BY <3>2, <3>4, SMTT(30)
      <4> QED
        BY <3>1, <3>4, <4>1, SMTT(30) DEF Ranges!FreePart
    <3>5. CASE n < r.n /\ Rest(r, vst, n) = {[base |-> r.base, n |-> r.n - n]}
      <4>1. n \in 1 .. r.n - 1
        BY <3>2, <3>5
      <4> QED
        BY <3>1, <3>5, <4>1, SMTT(30) DEF Ranges!FreePart
    <3> QED
      BY <3>2, <3>3, <3>4, <3>5, RestIs, ZenonT(30)
  <2> QED
    BY <2>1, <2>2, ZenonT(30)
       DEF Next, Call, Walk, vars, vmm_map_pages, FfreerSkip, FfreerFails, FfreerNoNode,
           FfreerTakes, MapContFails, MapRunsOut, UnmapSkip, UnmapWhole, UnmapStart,
           UnmapEnd, UnmapNoNode, StartMerge, MergeTwo, MergeSkip, MergeDone
<1> QED
  BY <1>1, <1>2, Invariant, PTL DEF Spec, RangesSpec, Ranges!Spec
=============================================================================
