------------------------------ MODULE Liballoc -------------------------------
(***************************************************************************)
(* The kernel's malloc (src/src/kern/mem/liballoc.c).                      *)
(*                                                                         *)
(* Blocks of pages come from vmm_map_pages and go back to vmm_unmap_pages  *)
(* (liballoc_host.c); of these the model knows only what PageRanges says.  *)
(* A block of pages is cut into tags, which are linked to their neighbours *)
(* and, when free, kept in the list of their size.  The doubly linked      *)
(* lists are sequences.  Every call holds __liballoc_lk from start to end, *)
(* so one call is under way at a time.                                     *)
(***************************************************************************)
EXTENDS Integers, Sequences, FiniteSets, Functions

CONSTANTS
    HEAP_START, HEAP_END,  \* the heap's first page and the one behind it
    PAGE,                  \* l_pageSize
    l_pageCount,           \* fewest pages of one request
    TAG,                   \* sizeof(struct boundary_tag)
    MINEXP, MAXEXP, MAXCOMPLETE,
    Sizes                  \* bound: the sizes that callers ask for

ASSUME LiballocAssumption ==
    /\ HEAP_START \in Nat \ {0}
    /\ HEAP_END \in Nat /\ HEAP_START < HEAP_END
    /\ PAGE \in Nat \ {0} /\ TAG \in 1 .. PAGE - 1
    /\ l_pageCount \in Nat \ {0}
    /\ MINEXP \in Nat /\ MAXEXP \in Nat /\ MINEXP < MAXEXP
    /\ MAXCOMPLETE \in Nat
    /\ Sizes \subseteq Nat

NULL == 0

VARIABLES
    tags,             \* the boundary tags, by address
    l_freePages,      \* per exponent: the free tags of that size, newest first
    l_completePages,  \* per exponent: how many of them are whole blocks
    held,             \* ranges of pages liballoc has
    live,             \* tags whose block a caller has
    pc, tag,          \* the free under way, and its tag
    fault             \* realloc wrote to what malloc did not give it

vars == <<tags, l_freePages, l_completePages, held, live, pc, tag, fault>>

Exps == MINEXP .. MAXEXP - 1

\* 1U << n.
Bit[n \in 0 .. MAXEXP] == IF n = 0 THEN 1 ELSE 2 * Bit[n - 1]

\* Counts up from MINEXP as long as the power is not larger than the size.
getexp(size) ==
    IF size < Bit[MINEXP]
    THEN -1
    ELSE CHOOSE n \in Exps : /\ \A m \in MINEXP .. n : Bit[m] <= size
                             /\ size < Bit[n + 1] \/ n = MAXEXP - 1

AtLeast(n, low) == IF n < low THEN low ELSE n

\* The list of a tag of this real size.
Bucket(real) == AtLeast(getexp(real - TAG), MINEXP)

insert_tag(lists, t, b) == [lists EXCEPT ![b] = <<t>> \o @]

remove_tag(lists, t) ==
    LET s == lists[tags[t].index]
        i == CHOOSE k \in DOMAIN s : s[k] = t
    IN  [lists EXCEPT ![tags[t].index] =
            SubSeq(s, 1, i - 1) \o SubSeq(s, i + 1, Len(s))]

Whole(t) == tags[t].left = NULL /\ tags[t].right = NULL

-----------------------------------------------------------------------------
(* malloc.                                                                 *)

\* Free tags with room for the block and a tag behind it.
Roomy(b, size) ==
    {i \in DOMAIN l_freePages[b] :
        tags[l_freePages[b][i]].real - TAG >= size + TAG}

\* Mutant: only the list of the size asked for is searched.
Buckets_Own(size) ==
    {b \in {AtLeast(getexp(size), MINEXP)} : Roomy(b, size) # {}}

\* The lists, from the one of this size up, that have such a tag.
Buckets(size) ==
    {b \in AtLeast(getexp(size), MINEXP) .. MAXEXP - 1 : Roomy(b, size) # {}}

\* The first such tag of the first such list.
Found(size) ==
    LET b == CHOOSE x \in Buckets(size) : \A y \in Buckets(size) : x <= y
        i == CHOOSE x \in Roomy(b, size) : \A y \in Roomy(b, size) : x <= y
    IN  l_freePages[b][i]

\* The rest behind the block has room for a tag and the smallest size.
Splits(real, size) ==
    /\ real - size - 2 * TAG > 0
    /\ getexp(real - size - 2 * TAG) >= 0

\* Mutant: the tag to the right keeps its link to the old neighbour.
Cut_Stale(ts, t, size) ==
    LET new == t + TAG + size
        rest == ts[t].real - TAG - size
        right == ts[t].right
    IN  [u \in DOMAIN ts \cup {new} |->
           CASE u = new -> [real |-> rest, size |-> 0, index |-> Bucket(rest),
                            left |-> t, right |-> right]
             [] u = t -> [ts[t] EXCEPT !.real = @ - rest, !.size = size,
                                       !.right = new]
             [] OTHER -> ts[u]]

\* split_tag: the rest becomes a tag of its own between t and its neighbour.
Cut(ts, t, size) ==
    LET new == t + TAG + size
        rest == ts[t].real - TAG - size
        right == ts[t].right
    IN  [u \in DOMAIN ts \cup {new} |->
           CASE u = new -> [real |-> rest, size |-> 0, index |-> Bucket(rest),
                            left |-> t, right |-> right]
             [] u = t -> [ts[t] EXCEPT !.real = @ - rest, !.size = size,
                                       !.right = new]
             [] u = right -> [ts[u] EXCEPT !.left = new]
             [] OTHER -> ts[u]]

\* Tag t, in no list, becomes a block of this size.
Hand(ts, lists, t, size) ==
    /\ IF Splits(ts[t].real, size)
       THEN /\ tags' = Cut(ts, t, size)
            /\ l_freePages' =
                 insert_tag(lists, t + TAG + size, Bucket(ts[t].real - TAG - size))
       ELSE /\ tags' = [ts EXCEPT ![t].size = size]
            /\ l_freePages' = lists
    /\ live' = live \cup {t}

\* Mutant: the count of the size asked for goes down, not of the list searched.
MallocReuses_Count(size) ==
    /\ Buckets(size) # {}
    /\ LET t == Found(size)
           b == AtLeast(getexp(size), MINEXP)
       IN  /\ Hand([tags EXCEPT ![t].index = -1], remove_tag(l_freePages, t), t, size)
           /\ l_completePages' =
                IF Whole(t) THEN [l_completePages EXCEPT ![b] = @ - 1]
                            ELSE l_completePages
    /\ UNCHANGED <<held, fault>>

\* malloc takes a free tag.
MallocReuses(size) ==
    /\ Buckets(size) # {}
    /\ LET t == Found(size)
       IN  /\ Hand([tags EXCEPT ![t].index = -1], remove_tag(l_freePages, t), t, size)
           /\ l_completePages' =
                IF Whole(t)
                THEN [l_completePages EXCEPT ![tags[t].index] = @ - 1]
                ELSE l_completePages
    /\ UNCHANGED <<held, fault>>

\* allocate_new_tag: the pages for a block of this size.
PagesFor(size) ==
    AtLeast((size + TAG + PAGE - 1) \div PAGE, l_pageCount)

PagesOf(r) == r.base .. r.base + r.n - 1

\* Ranges that vmm_map_pages may return.
Offers(n) ==
    {r \in [base : HEAP_START .. HEAP_END - n, n : {n}] :
        \A h \in held : PagesOf(h) \cap PagesOf(r) = {}}

\* malloc makes a block of new pages its tag.
MallocGrows(size) ==
    /\ Buckets(size) = {}
    /\ \E r \in Offers(PagesFor(size)) :
          LET t == r.base * PAGE
              new == [real |-> r.n * PAGE, size |-> size, index |-> -1,
                      left |-> NULL, right |-> NULL]
          IN  /\ held' = held \cup {r}
              /\ Hand([u \in DOMAIN tags \cup {t} |-> IF u = t THEN new ELSE tags[u]],
                      l_freePages, t, size)
    /\ UNCHANGED <<l_completePages, fault>>

malloc(size) ==
    /\ pc = "idle"
    /\ MallocReuses(size) \/ MallocGrows(size)
    /\ UNCHANGED <<pc, tag>>

-----------------------------------------------------------------------------
(* free, one step per neighbour that is melted.                            *)

free(t) ==
    /\ pc = "idle"
    /\ t \in live
    /\ live' = live \ {t}
    /\ pc' = "left"
    /\ tag' = t
    /\ UNCHANGED <<tags, l_freePages, l_completePages, held, fault>>

\* t joined to the tag behind it, which is gone.
Joined(t) ==
    LET next == tags[t].right
        right == tags[next].right
    IN  [u \in DOMAIN tags \ {next} |->
           CASE u = t -> [tags[t] EXCEPT !.real = @ + tags[next].real,
                                         !.right = right, !.index = -1]
             [] u = right -> [tags[u] EXCEPT !.left = t]
             [] OTHER -> tags[u]]

\* melt_left, and the tag on the left leaves its list.
MeltLeft ==
    LET left == tags[tag].left
    IN  /\ pc = "left"
        /\ left # NULL /\ tags[left].index >= 0
        /\ tags' = Joined(left)
        /\ l_freePages' = remove_tag(l_freePages, left)
        /\ tag' = left
        /\ UNCHANGED <<l_completePages, held, live, pc, fault>>

LeftDone ==
    LET left == tags[tag].left
    IN  /\ pc = "left"
        /\ ~(left # NULL /\ tags[left].index >= 0)
        /\ pc' = "right"
        /\ UNCHANGED <<tags, l_freePages, l_completePages, held, live, tag, fault>>

\* absorb_right.
MeltRight ==
    LET right == tags[tag].right
    IN  /\ pc = "right"
        /\ right # NULL /\ tags[right].index >= 0
        /\ tags' = Joined(tag)
        /\ l_freePages' = remove_tag(l_freePages, right)
        /\ UNCHANGED <<l_completePages, held, live, pc, tag, fault>>

\* Mutant: the tag on the right may stay apart.
RightDone_Skip ==
    /\ pc = "right"
    /\ pc' = "put"
    /\ UNCHANGED <<tags, l_freePages, l_completePages, held, live, tag, fault>>

RightDone ==
    LET right == tags[tag].right
    IN  /\ pc = "right"
        /\ ~(right # NULL /\ tags[right].index >= 0)
        /\ pc' = "put"
        /\ UNCHANGED <<tags, l_freePages, l_completePages, held, live, tag, fault>>

\* A whole block, and enough of its size are kept already.
Surplus(b) == Whole(tag) /\ l_completePages[b] = MAXCOMPLETE

\* The tag goes to the list of its size.
FreeKeeps ==
    LET b == Bucket(tags[tag].real)
    IN  /\ pc = "put"
        /\ ~Surplus(b)
        /\ l_freePages' = insert_tag(l_freePages, tag, b)
        /\ l_completePages' =
             IF Whole(tag) THEN [l_completePages EXCEPT ![b] = @ + 1]
                           ELSE l_completePages
        /\ tags' = [tags EXCEPT ![tag].index = b]
        /\ pc' = "idle" /\ tag' = NULL
        /\ UNCHANGED <<held, live, fault>>

\* vmm_unmap_pages(vst, n): a range, or what is left of the one it lies in.
UnmapRange(vst, n) ==
    {r \in held : PagesOf(r) \cap (vst .. vst + n - 1) = {}} \cup
    {r \in UNION {{[base |-> h.base, n |-> vst - h.base],
                   [base |-> vst + n, n |-> h.base + h.n - (vst + n)]} :
                  h \in {g \in held : vst \in PagesOf(g)}} : r.n > 0}

\* Mutant: the block is taken for one of the smallest size.
FreeReleases_Min ==
    LET b == Bucket(tags[tag].real)
    IN  /\ pc = "put"
        /\ Surplus(b)
        /\ held' = UnmapRange(tag \div PAGE, l_pageCount)
        /\ tags' = [u \in DOMAIN tags \ {tag} |-> tags[u]]
        /\ pc' = "idle" /\ tag' = NULL
        /\ UNCHANGED <<l_freePages, l_completePages, live, fault>>

\* The block goes back, its size in pages taken from the tag.
FreeReleases ==
    LET b == Bucket(tags[tag].real)
        pages == AtLeast((tags[tag].real + PAGE - 1) \div PAGE, l_pageCount)
    IN  /\ pc = "put"
        /\ Surplus(b)
        /\ held' = UnmapRange(tag \div PAGE, pages)
        /\ tags' = [u \in DOMAIN tags \ {tag} |-> tags[u]]
        /\ pc' = "idle" /\ tag' = NULL
        /\ UNCHANGED <<l_freePages, l_completePages, live, fault>>

-----------------------------------------------------------------------------
(* realloc.  Its malloc and free are calls of their own, the new block is  *)
(* filled before the old one is freed.                                     *)

\* A new block; the old one is then freed.  With size 0 it is free alone.
realloc(t, size) ==
    /\ pc = "idle"
    /\ t \in live
    /\ size # 0
    /\ MallocReuses(size) \/ MallocGrows(size)
    /\ pc' = "copied"
    /\ tag' = t

ReallocFrees ==
    /\ pc = "copied"
    /\ live' = live \ {tag}
    /\ pc' = "left"
    /\ UNCHANGED <<tags, l_freePages, l_completePages, held, tag, fault>>

\* malloc failed: realloc copies to address 0 and the kernel stops.
ReallocFails(t, size) ==
    /\ pc = "idle"
    /\ t \in live
    /\ size # 0
    /\ Buckets(size) = {}
    /\ fault' = TRUE
    /\ pc' = "stopped"
    /\ UNCHANGED <<tags, l_freePages, l_completePages, held, live, tag>>

-----------------------------------------------------------------------------

Init ==
    /\ tags = [u \in {} |-> 0]
    /\ l_freePages = [b \in Exps |-> <<>>]
    /\ l_completePages = [b \in Exps |-> 0]
    /\ held = {}
    /\ live = {}
    /\ pc = "idle"
    /\ tag = NULL
    /\ fault = FALSE

Next ==
    \/ \E size \in Sizes : malloc(size)
    \/ \E t \in live : free(t)
    \/ \E t \in live, size \in Sizes : realloc(t, size) \/ ReallocFails(t, size)
    \/ MeltLeft \/ LeftDone \/ MeltRight \/ RightDone
    \/ FreeKeeps \/ FreeReleases
    \/ ReallocFrees

Spec == Init /\ [][Next]_vars

-----------------------------------------------------------------------------
(* Properties.                                                             *)

Listed == UNION {Range(l_freePages[b]) : b \in Exps}

TypeOK ==
    /\ tags \in [DOMAIN tags -> [real : Nat, size : Nat, index : Exps \cup {-1},
                                 left : Nat, right : Nat]]
    /\ l_freePages \in [Exps -> Seq(DOMAIN tags)]
    /\ l_completePages \in [Exps -> Int]
    /\ held \subseteq [base : HEAP_START .. HEAP_END - 1, n : Nat \ {0}]
    /\ live \subseteq DOMAIN tags
    /\ pc \in {"idle", "left", "right", "put", "copied", "stopped"}
    /\ tag \in DOMAIN tags \cup {NULL}
    /\ fault \in BOOLEAN

\* The tags tile the pages: the leftmost starts a range, every tag ends where
\* its right neighbour starts and is that one's left neighbour, the rightmost
\* ends with its range (split_tag, melt_left, absorb_right).
TagsTile ==
    /\ \A r \in held : r.base * PAGE \in DOMAIN tags
    /\ \A t \in DOMAIN tags :
          /\ IF tags[t].left = NULL
             THEN \E r \in held : t = r.base * PAGE
             ELSE tags[t].left \in DOMAIN tags /\ tags[tags[t].left].right = t
          /\ IF tags[t].right = NULL
             THEN \E r \in held : t + tags[t].real = (r.base + r.n) * PAGE
             ELSE /\ tags[t].right = t + tags[t].real
                  /\ tags[t].right \in DOMAIN tags
                  /\ tags[tags[t].right].left = t

\* The bytes a caller was given lie inside its tag, and no other tag starts or
\* runs into them.
BlocksApart ==
    \A t \in live :
        /\ TAG + tags[t].size <= tags[t].real
        /\ \A u \in DOMAIN tags \ {t} :
              u + tags[u].real <= t \/ t + TAG + tags[t].size <= u

\* The heap is whole: tags tile the pages and callers' blocks lie apart, after
\* any sequence of cuts and melts (split_tag, melt_left, absorb_right).
HeapSound == TypeOK /\ TagsTile /\ BlocksApart

\* Between calls every tag is either a caller's or in exactly one place of
\* exactly one list, the one its index names: free memory is never lost and
\* never handed out twice.
ListedOrLive ==
    /\ \A b \in Exps : \A i, j \in DOMAIN l_freePages[b] :
          /\ tags[l_freePages[b][i]].index = b
          /\ i # j => l_freePages[b][i] # l_freePages[b][j]
    /\ live \cap Listed = {}
    /\ pc = "idle" => DOMAIN tags = live \cup Listed

\* Between calls no two neighbours are free: free melts them.
NoFreeNeighbours ==
    pc = "idle" =>
        \A t \in Listed : tags[t].right # NULL => tags[t].right \notin Listed

\* Free memory is in one list, in one place, and in one piece (malloc, free).
FreeOnce == ListedOrLive /\ NoFreeNeighbours

\* l_completePages counts the whole blocks of each list and never passes
\* MAXCOMPLETE, although a search may take a tag of another list than the one
\* of the size asked for.
CompleteCounted ==
    \A b \in Exps :
        /\ l_completePages[b] = Cardinality({t \in Range(l_freePages[b]) : Whole(t)})
        /\ l_completePages[b] <= MAXCOMPLETE

\* liballoc.c: "a search restricted to the request's own bucket misses usable
\* free blocks": pages are asked for only if no free tag has the room.
NoneFits ==
    \A size \in Sizes :
        MallocGrows(size) => \A t \in Listed : tags[t].real - TAG < size + TAG

\* No step of malloc asks for pages while a free tag has the room.
GrowsOnlyWhenFull == [][NoneFits]_vars

\* liballoc gives back exactly the ranges it was given, never a part of one or
\* pages it does not have, although it works out their number anew from the
\* tag: it keeps the contract of the pages' source.
Source == INSTANCE PageRanges

PageSourceKept == Source!WholeSpec
=============================================================================
