----------------------------- MODULE PageRanges ------------------------------
(***************************************************************************)
(* What the users of the kernel heap's address range may rely on           *)
(* (src/src/kern/mem/liballoc_host.c, src/src/drivers/sound/virtio_snd.c): *)
(* a range of pages that vmm_map_pages returns lies in the heap and        *)
(* overlaps no range that somebody holds, until it is given back with      *)
(* vmm_unmap_pages, whole or from either end.                              *)
(***************************************************************************)
EXTENDS Integers

CONSTANTS HEAP_START, HEAP_END

VARIABLE held   \* the ranges callers hold, records of a base and a length

Pages(r) == r.base .. r.base + r.n - 1

HeapPages == HEAP_START .. HEAP_END - 1

Init == held = {}

Alloc ==
    \E b \in HeapPages : \E n \in 1 .. HEAP_END - b :
        LET r == [base |-> b, n |-> n]
        IN  /\ \A h \in held : Pages(h) \cap Pages(r) = {}
            /\ held' = held \cup {r}

FreeWhole == \E h \in held : held' = held \ {h}

\* What is left of a range is its end or its start.
FreePart ==
    \E h \in held : \E k \in 1 .. h.n - 1 :
        \/ held' = (held \ {h}) \cup {[base |-> h.base + k, n |-> h.n - k]}
        \/ held' = (held \ {h}) \cup {[base |-> h.base, n |-> h.n - k]}

Spec == Init /\ [][Alloc \/ FreeWhole \/ FreePart]_held

\* A user who gives back only whole ranges.
WholeSpec == Init /\ [][Alloc \/ FreeWhole]_held
=============================================================================
