------------------------------ MODULE Virtqueue ------------------------------
(***************************************************************************)
(* The split ring of a virtio device (src/src/drivers/virtio/virtqueue.c): *)
(* descriptors and their free list, the ring of requests made available to *)
(* the device and the count of those it has used.  A queue is a value; the *)
(* operators return the queue after the call.  Ring indices are u16 and    *)
(* wrap at IDX.                                                            *)
(***************************************************************************)
EXTENDS Integers

CONSTANTS
    SIZE,   \* entries of the queue
    IDX     \* indices wrap at this: 2^16

\* A split ring has a power of two of entries, so that the slot of an index
\* survives the wrap.
ASSUME VirtqueueAssumption ==
    /\ SIZE \in Nat \ {0}
    /\ IDX \in Nat \ {0} /\ IDX % SIZE = 0 /\ IDX > SIZE

Slots == 0 .. SIZE - 1

\* A descriptor: the piece of a request it points to, VRING_DESC_F_NEXT, next.
Unused == [piece |-> "none", more |-> FALSE, next |-> 0]

virtqueue_init ==
    [desc |-> [i \in Slots |->
                 [Unused EXCEPT !.next = IF i + 1 < SIZE THEN i + 1 ELSE 0]],
     free_head |-> 0,
     free_count |-> SIZE,
     avail |-> [i \in Slots |-> 0],
     avail_idx |-> 0,
     used_idx |-> 0,
     last_used_idx |-> 0]

\* Called when free_count is not 0; the descriptor taken is q.free_head.
virtqueue_alloc_desc(q) ==
    [q EXCEPT !.free_head = q.desc[q.free_head].next,
              !.free_count = @ - 1,
              !.desc[q.free_head] = Unused]

virtqueue_free_desc(q, i) ==
    [q EXCEPT !.desc[i].next = q.free_head,
              !.desc[i].more = FALSE,
              !.free_head = i,
              !.free_count = @ + 1]

\* The descriptors from head on, freed one by one while VRING_DESC_F_NEXT is
\* set.  A chain has at most SIZE of them.
virtqueue_free_chain(q, head) ==
    LET from[k \in 0 .. SIZE - 1] ==
            IF k = 0 THEN <<virtqueue_free_desc(q, head), head>>
            ELSE LET p == from[k - 1] IN
                 IF q.desc[p[2]].more
                 THEN <<virtqueue_free_desc(p[1], q.desc[p[2]].next), q.desc[p[2]].next>>
                 ELSE p
    IN  from[SIZE - 1][1]

virtqueue_submit_chain(q, head) ==
    [q EXCEPT !.avail[q.avail_idx % SIZE] = head,
              !.avail_idx = (@ + 1) % IDX]

virtqueue_has_used(q) == q.last_used_idx # q.used_idx

\* Mutant: the entry stays in front of the driver.
TakeUsed_Stay(q) == q

\* virtqueue_poll_used once there is an entry.  The disk's driver does not use
\* the id it returns, so that the model keeps no ids.
TakeUsed(q) == [q EXCEPT !.last_used_idx = (@ + 1) % IDX]

\* The device gives a request back.
PutUsed(q) == [q EXCEPT !.used_idx = (@ + 1) % IDX]
=============================================================================
