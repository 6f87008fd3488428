--------------------------------- MODULE Vmm ---------------------------------
(***************************************************************************)
(* The kernel's heap address range (src/src/kern/mem/vmm.c): the list of   *)
(* regions that vmm_ffreer and vmm_unmap_pages keep in a fixed pool of     *)
(* nodes, and the frames behind the pages.                                 *)
(*                                                                         *)
(* Addresses count pages.  A call walks the list one node per step, so     *)
(* that the walk itself is part of the model.  Which frame a page has does *)
(* not matter here (Pmm is the model of the frames): a page is mapped or   *)
(* it is not, and nfree counts the frames that are left.  The frames of    *)
(* the page tables are not counted.                                        *)
(***************************************************************************)
EXTENDS Integers, FiniteSets

CONSTANTS
    MAX_VNODES,            \* nodes of the pool: 1024
    HEAP_START, HEAP_END,  \* the heap's first page and the one behind it
    UMAP_BASE, UMAP_END,   \* vmm_umapr of the running process
    FRAMES,                \* frames the system starts with
    MaxReq                 \* bound on the pages of one request

\* vmm.h: the range of a process ends below the heap.
ASSUME VmmAssumption ==
    /\ MAX_VNODES \in Nat \ {0}
    /\ HEAP_START \in Nat \ {0}
    /\ HEAP_END \in Nat /\ HEAP_START < HEAP_END
    /\ UMAP_BASE \in Nat /\ UMAP_END \in Nat /\ UMAP_END <= HEAP_START
    /\ FRAMES \in Nat
    /\ MaxReq \in Nat \ {0}

Nodes == 0 .. MAX_VNODES - 1

NULL == -1

VARIABLES
    node,     \* vmmr_nodes
    head,     \* vmmr_head
    pc,       \* where the call under way is: "idle" if there is none
    curr,     \* the node it looks at
    arg,      \* its arguments
    mapped,   \* pages of the heap that are mapped
    nfree,    \* frames pmm_falloc has left
    held,     \* ranges that callers were given and have not given back
    lost      \* pages of calls that failed half way: nobody holds them

vars == <<node, head, pc, curr, arg, mapped, nfree, held, lost>>

HeapPages == HEAP_START .. HEAP_END - 1

Pages(r) == r.base .. r.base + r.n - 1

HeldPages == UNION {Pages(r) : r \in held}

EndOf(i) == node[i].base + node[i].cnt

Region(base, cnt, free, next) ==
    [base |-> base, cnt |-> cnt, free |-> free, next |-> next]

Blank == Region(0, 0, FALSE, NULL)

IsBlank(nd) == nd.base = 0 /\ nd.cnt = 0 /\ ~nd.free

Blanks == {i \in Nodes : IsBlank(node[i])}

Live == Nodes \ Blanks

\* The first blank node; called only when there is one.
allocvmmr == CHOOSE i \in Blanks : \A j \in Blanks : i <= j

Idle == [vst |-> 0, n |-> 0, user |-> FALSE, cont |-> FALSE]

Return ==
    /\ pc' = "idle"
    /\ curr' = NULL
    /\ arg' = Idle

-----------------------------------------------------------------------------
(* vmm_map_pages with MAP_ANYVIRT, from liballoc and the sound driver, and *)
(* with MAP_USRMAP from a process.                                         *)

vmm_map_pages(n, user, cont) ==
    /\ pc = "idle"
    /\ pc' = "ffreer"
    /\ curr' = head
    /\ arg' = [vst |-> 0, n |-> n, user |-> user, cont |-> cont]
    /\ UNCHANGED <<node, head, mapped, nfree, held, lost>>

\* vmm_rangeinusrmap at the part of the node that a process may use.
InUserRange(i, n) ==
    LET start == IF node[i].base < UMAP_BASE THEN UMAP_BASE ELSE node[i].base
    IN  /\ start + n <= UMAP_END
        /\ start + n <= EndOf(i)

\* Mutant: a region in use is taken for a free one.
Fits_Used(i) ==
    /\ node[i].cnt >= arg.n
    /\ arg.user => InUserRange(i, arg.n)

Fits(i) ==
    /\ node[i].free
    /\ node[i].cnt >= arg.n
    /\ arg.user => InUserRange(i, arg.n)

FfreerSkip ==
    /\ pc = "ffreer"
    /\ curr # NULL
    /\ ~Fits(curr)
    /\ curr' = node[curr].next
    /\ UNCHANGED <<node, head, pc, arg, mapped, nfree, held, lost>>

\* The list is at its end: no range, and vmm_map_pages returns NULL.
FfreerFails ==
    /\ pc = "ffreer"
    /\ curr = NULL
    /\ Return
    /\ UNCHANGED <<node, head, mapped, nfree, held, lost>>

\* The region fits but there is no node for the rest of it.
FfreerNoNode ==
    /\ pc = "ffreer"
    /\ curr # NULL
    /\ Fits(curr)
    /\ node[curr].cnt > arg.n
    /\ Blanks = {}
    /\ Return
    /\ UNCHANGED <<node, head, mapped, nfree, held, lost>>

\* Mutant: the rest of the region starts a page late.
Split_Gap(i, n, free, behind) ==
    [node EXCEPT
        ![allocvmmr] = Region(node[i].base + n + 1, node[i].cnt - n, behind,
                              node[i].next),
        ![i] = Region(node[i].base, n, free, allocvmmr)]

\* Region i cut after n pages, which are free or not; a node behind it takes
\* the rest of its pages.
Split(i, n, free, behind) ==
    [node EXCEPT
        ![allocvmmr] = Region(node[i].base + n, node[i].cnt - n, behind,
                              node[i].next),
        ![i] = Region(node[i].base, n, free, allocvmmr)]

SetFree(i, free) ==
    [node EXCEPT ![i] = Region(node[i].base, node[i].cnt, free, node[i].next)]

FfreerTakes ==
    /\ pc = "ffreer"
    /\ curr # NULL
    /\ Fits(curr)
    /\ \/ node[curr].cnt > arg.n /\ Blanks # {} /\ node' = Split(curr, arg.n, FALSE, TRUE)
       \/ node[curr].cnt = arg.n /\ node' = SetFree(curr, FALSE)
    /\ pc' = "map"
    /\ arg' = [arg EXCEPT !.vst = node[curr].base]
    /\ UNCHANGED <<head, curr, mapped, nfree, held, lost>>

ArgRange == [base |-> arg.vst, n |-> arg.n]

\* Every page gets its frame.
MapAll ==
    /\ pc = "map"
    /\ nfree >= arg.n
    /\ mapped' = mapped \cup Pages(ArgRange)
    /\ nfree' = nfree - arg.n
    /\ held' = held \cup {ArgRange}
    /\ Return
    /\ UNCHANGED <<node, head, lost>>

\* MAP_CONT: no run of frames is long enough, nothing is mapped.  The region
\* stays taken.
MapContFails ==
    /\ pc = "map"
    /\ arg.cont
    /\ lost' = lost \cup Pages(ArgRange)
    /\ Return
    /\ UNCHANGED <<node, head, mapped, nfree, held>>

\* Without MAP_CONT the frames run out half way: the pages mapped so far stay
\* mapped, the region stays taken, the caller gets NULL.
MapRunsOut ==
    /\ pc = "map"
    /\ ~arg.cont
    /\ nfree < arg.n
    /\ mapped' = mapped \cup Pages([ArgRange EXCEPT !.n = nfree])
    /\ nfree' = 0
    /\ lost' = lost \cup Pages(ArgRange)
    /\ Return
    /\ UNCHANGED <<node, head, held>>

-----------------------------------------------------------------------------
(* vmm_unmap_pages.                                                        *)

\* What the caller still holds of r.
Rest(r, vst, n) ==
    {q \in {[base |-> r.base, n |-> vst - r.base],
            [base |-> vst + n, n |-> r.base + r.n - (vst + n)]} : q.n > 0}

\* The pages start or end a region in use.
AtAnEnd(vst, n) ==
    \E i \in Live : ~node[i].free /\ (vst = node[i].base \/ vst + n = EndOf(i))

\* The pages are unmapped and their frames freed before the list is looked at.
\* A caller gives back a range it holds, or a part at one end of it.  Nobody in
\* the kernel cuts a region in the middle, and the code's case for it is not
\* modelled.
vmm_unmap_pages(r, vst, n) ==
    /\ pc = "idle"
    /\ mapped' = mapped \ Pages([base |-> vst, n |-> n])
    /\ nfree' = nfree + n
    /\ held' = (held \ {r}) \cup Rest(r, vst, n)
    /\ pc' = "unmap"
    /\ curr' = head
    /\ arg' = [Idle EXCEPT !.vst = vst, !.n = n]
    /\ UNCHANGED <<node, head, lost>>

FreeEnd == arg.vst + arg.n

Covers(i) ==
    /\ ~node[i].free
    /\ arg.vst >= node[i].base
    /\ FreeEnd <= EndOf(i)

\* At the end of the list the merging starts.
UnmapSkip ==
    /\ pc = "unmap"
    /\ curr # NULL
    /\ ~Covers(curr)
    /\ IF node[curr].next = NULL
       THEN curr' = head /\ pc' = "merge"
       ELSE curr' = node[curr].next /\ pc' = pc
    /\ UNCHANGED <<node, head, arg, mapped, nfree, held, lost>>

\* The region is found, the loop is left and the list is merged from its head.
StartMerge ==
    /\ pc' = "merge"
    /\ curr' = head
    /\ UNCHANGED <<head, arg, mapped, nfree, held>>

\* The whole region.
UnmapWhole ==
    /\ pc = "unmap"
    /\ curr # NULL
    /\ Covers(curr)
    /\ arg.vst = node[curr].base /\ FreeEnd = EndOf(curr)
    /\ node' = SetFree(curr, TRUE)
    /\ StartMerge
    /\ UNCHANGED lost

\* Its start: the rest becomes a region in use behind it.
UnmapStart ==
    /\ pc = "unmap"
    /\ curr # NULL
    /\ Covers(curr)
    /\ arg.vst = node[curr].base /\ FreeEnd < EndOf(curr)
    /\ Blanks # {}
    /\ node' = Split(curr, arg.n, TRUE, FALSE)
    /\ StartMerge
    /\ UNCHANGED lost

\* Mutant: the new region is linked back to the one it was cut from.
UnmapEnd_Cycle ==
    /\ pc = "unmap"
    /\ curr # NULL
    /\ Covers(curr)
    /\ arg.vst > node[curr].base /\ FreeEnd = EndOf(curr)
    /\ Blanks # {}
    /\ node' = [node EXCEPT
                  ![allocvmmr] = Region(arg.vst, arg.n, TRUE, curr),
                  ![curr] = Region(node[curr].base, node[curr].cnt - arg.n, FALSE,
                                   allocvmmr)]
    /\ StartMerge
    /\ UNCHANGED lost

\* Its end: a free region behind what stays in use.
UnmapEnd ==
    /\ pc = "unmap"
    /\ curr # NULL
    /\ Covers(curr)
    /\ arg.vst > node[curr].base /\ FreeEnd = EndOf(curr)
    /\ Blanks # {}
    /\ node' = Split(curr, node[curr].cnt - arg.n, FALSE, TRUE)
    /\ StartMerge
    /\ UNCHANGED lost

\* A part, and there is no node for it: the pages are gone but stay taken.
UnmapNoNode ==
    /\ pc = "unmap"
    /\ curr # NULL
    /\ Covers(curr)
    /\ arg.vst # node[curr].base \/ FreeEnd # EndOf(curr)
    /\ Blanks = {}
    /\ lost' = lost \cup Pages(ArgRange)
    /\ StartMerge
    /\ UNCHANGED node

\* Region i and the one behind it in one node.
Joined(i) ==
    LET nxt == node[i].next
    IN  [node EXCEPT
            ![i] = Region(node[i].base, node[i].cnt + node[nxt].cnt, node[i].free,
                          node[nxt].next),
            ![nxt] = Blank]

\* Mutant: the region behind a free one is not asked whether it is free.
MergeTwo_Greedy ==
    /\ pc = "merge"
    /\ curr # NULL /\ node[curr].next # NULL
    /\ node[curr].free
    /\ node' = Joined(curr)
    /\ UNCHANGED <<head, pc, curr, arg, mapped, nfree, held, lost>>

\* Mutant: the walk goes on after a merge.
MergeTwo_Once ==
    /\ pc = "merge"
    /\ curr # NULL /\ node[curr].next # NULL
    /\ node[curr].free /\ node[node[curr].next].free
    /\ node' = Joined(curr)
    /\ curr' = IF node'[curr].next = NULL THEN curr ELSE node'[curr].next
    /\ UNCHANGED <<head, pc, arg, mapped, nfree, held, lost>>

\* Two free regions in a row become one; its node is looked at again.
MergeTwo ==
    /\ pc = "merge"
    /\ curr # NULL /\ node[curr].next # NULL
    /\ node[curr].free /\ node[node[curr].next].free
    /\ node' = Joined(curr)
    /\ UNCHANGED <<head, pc, curr, arg, mapped, nfree, held, lost>>

MergeSkip ==
    /\ pc = "merge"
    /\ curr # NULL /\ node[curr].next # NULL
    /\ ~(node[curr].free /\ node[node[curr].next].free)
    /\ curr' = node[curr].next
    /\ UNCHANGED <<node, head, pc, arg, mapped, nfree, held, lost>>

MergeDone ==
    /\ pc = "merge"
    /\ curr # NULL /\ node[curr].next = NULL
    /\ Return
    /\ UNCHANGED <<node, head, mapped, nfree, held, lost>>

-----------------------------------------------------------------------------

\* The end of vmm_init.
Init ==
    /\ node = [i \in Nodes |->
                 IF i = 0 THEN Region(HEAP_START, HEAP_END - HEAP_START, TRUE, NULL)
                 ELSE Blank]
    /\ head = 0
    /\ pc = "idle"
    /\ curr = NULL
    /\ arg = Idle
    /\ mapped = {}
    /\ nfree = FRAMES
    /\ held = {}
    /\ lost = {}

Call ==
    \/ \E n \in 1 .. MaxReq, user, cont \in BOOLEAN : vmm_map_pages(n, user, cont)
    \/ \E r \in held : \E n \in 1 .. r.n :
          \E vst \in {r.base, r.base + r.n - n} :
              AtAnEnd(vst, n) /\ vmm_unmap_pages(r, vst, n)

Walk ==
    \/ FfreerSkip \/ FfreerFails \/ FfreerNoNode \/ FfreerTakes
    \/ MapAll \/ MapContFails \/ MapRunsOut
    \/ UnmapSkip \/ UnmapWhole \/ UnmapStart \/ UnmapEnd \/ UnmapNoNode
    \/ MergeTwo \/ MergeSkip \/ MergeDone

Next == Call \/ Walk

Spec == Init /\ [][Next]_vars

\* A call that was begun goes on: the kernel does not give up the core in it.
FairSpec == Spec /\ WF_vars(Walk)

-----------------------------------------------------------------------------
(* Properties.                                                             *)

RegionPages(i) == node[i].base .. EndOf(i) - 1

UsedPages == UNION {RegionPages(i) : i \in {j \in Live : ~node[j].free}}

TypeOK ==
    /\ node \in [Nodes -> [base : Nat, cnt : Nat, free : BOOLEAN,
                           next : Nodes \cup {NULL}]]
    /\ head \in Nodes
    /\ pc \in {"idle", "ffreer", "map", "unmap", "merge"}
    /\ curr \in Nodes \cup {NULL}
    /\ arg \in [vst : Nat, n : Nat, user : BOOLEAN, cont : BOOLEAN]
    /\ mapped \subseteq HeapPages
    /\ nfree \in Nat
    /\ held \subseteq [base : HeapPages, n : Nat \ {0}]
    /\ lost \subseteq HeapPages

\* The list tiles the heap: it starts at HEAP_START, every region ends where
\* the next one starts, the last ends at HEAP_END, no two overlap, and no node
\* is in use outside the list.  Splits and merges move boundaries only
\* (vmm_ffreer, vmm_unmap_pages).
ListTilesHeap ==
    /\ head \in Live /\ node[head].base = HEAP_START
    /\ \A i \in Live :
          /\ node[i].cnt > 0
          /\ IF node[i].next = NULL
             THEN EndOf(i) = HEAP_END
             ELSE node[i].next \in Live /\ node[node[i].next].base = EndOf(i)
    /\ \A i, j \in Live : i # j => EndOf(i) <= node[j].base \/ EndOf(j) <= node[i].base

\* Between calls, a page lies in a region in use exactly if a caller holds it
\* or a failed call left it behind: no page is handed out twice, none comes
\* free under its holder, none is lost in a split or a merge.
UsedIsHeld ==
    pc = "idle" =>
        /\ UsedPages = HeldPages \cup lost
        /\ HeldPages \cap lost = {}

\* Every page a caller holds is mapped, and no page outside the regions in use
\* is: a range handed out anew has no mapping left over from its last holder.
MappedIsUsed ==
    pc = "idle" => HeldPages \subseteq mapped /\ mapped \subseteq HeldPages \cup lost

\* Every frame is free or behind exactly one mapped page (vmm_unmap_page frees
\* what vmm_map_pages took), whatever fails half way.
FramesConserved == nfree + Cardinality(mapped) = FRAMES

\* Pages and frames are accounted for, also after calls that fail half way:
\* regions in use, ranges held, mappings and free frames agree
\* (vmm_map_pages, vmm_unmap_pages).
PagesAccounted == UsedIsHeld /\ MappedIsUsed /\ FramesConserved

\* vmm_ffreer reaches the end of the list only if the heap has no run of free
\* pages of that length: merging leaves no hole in pieces.
FailsOnlyWithoutHole ==
    pc = "ffreer" /\ curr = NULL /\ ~arg.user =>
        \A b \in HEAP_START .. HEAP_END - arg.n :
            Pages([base |-> b, n |-> arg.n]) \cap UsedPages # {}

\* Callers see disjoint ranges of the heap.
Ranges == INSTANCE PageRanges

RangesSpec == Ranges!Spec

\* Every call returns: the walks over the list end.
CallsReturn == pc # "idle" ~> pc = "idle"
=============================================================================
