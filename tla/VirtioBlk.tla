------------------------------ MODULE VirtioBlk ------------------------------
(***************************************************************************)
(* A virtio disk: block_read and block_write                               *)
(* (src/src/drivers/storage/block/generic.c), one sector at a time through *)
(* virtio_blk_transfer (virtio_blk.c) and the queue of Virtqueue.          *)
(*                                                                         *)
(* All requests use the same page for header, status and data.  The driver *)
(* polls a bounded time, then gives up and frees the descriptors; the      *)
(* device does not learn of it.  block_read and block_write lock a copy of *)
(* the device's lock, made by block_getdevid, and nobody ever holds the    *)
(* original: the lock keeps interrupts off on its core and no other core   *)
(* out.  Steps of two cores interleave between the calls of Virtqueue.     *)
(*                                                                         *)
(* The device is modelled from how the driver uses it: it takes requests   *)
(* in order, reads the chain and the header when it takes one, moves the   *)
(* data later, and stops for good at a chain that is no request.           *)
(***************************************************************************)
EXTENDS Virtqueue, FiniteSets

CONSTANTS
    Cores,       \* cores that make file system calls
    LBAs,        \* sectors, a range of numbers
    Data,        \* what a sector may hold
    MaxCnt,      \* bound on the sectors of one call
    MaxTimeouts  \* requests the driver gives up on are counted up to here

\* A disk's sectors are numbered from 0.  After IDX requests given up on the
\* indices are back where they were, so that fewer are counted.
ASSUME VirtioBlkAssumption ==
    /\ LBAs \subseteq Nat /\ LBAs # {} /\ \A l \in LBAs : 0 .. l \subseteq LBAs
    /\ Data # {}
    /\ MaxCnt \in Nat \ {0}
    /\ MaxTimeouts \in 1 .. IDX - 1

VARIABLES
    vq,        \* the queue
    page,      \* the shared page: header, status byte and buffer
    call,      \* of each core: its block_read or block_write
    pc,        \* where its transfer is
    chain,     \* d0, d1, d2
    res,       \* virtqueue_poll_used found an entry
    ret,       \* what its last transfer returned
    got,       \* what that read
    disk,      \* the sectors
    seen,      \* requests the device has taken, as an index
    job,       \* the one it works on
    broken,    \* the device has stopped
    timeouts   \* requests the driver gave up on, up to MaxTimeouts

devvars == <<disk, seen, job, broken>>

vars == <<vq, page, call, pc, chain, res, ret, got, devvars, timeouts>>

Some == CHOOSE d \in Data : TRUE

NoCall == [type |-> "none", lba |-> 0, cnt |-> 0, val |-> Some]

NoJob == [type |-> "none", lba |-> 0]

-----------------------------------------------------------------------------
(* The driver, on core c.                                                  *)

Goto(c, l) == pc' = [pc EXCEPT ![c] = l]

\* block_read or block_write of cnt sectors; a write puts val into each.
block_rw(c, type, lba, cnt, val) ==
    /\ pc[c] = "idle"
    /\ call' = [call EXCEPT ![c] = [type |-> type, lba |-> lba, cnt |-> cnt, val |-> val]]
    /\ Goto(c, "fill")
    /\ UNCHANGED <<vq, page, chain, res, ret, got, devvars, timeouts>>

\* Mutant: the header keeps the sector of the request before.
FillPage_SameLba(c) ==
    /\ pc[c] = "fill"
    /\ page' = [type |-> call[c].type, lba |-> page.lba, status |-> "pending",
                buf |-> IF call[c].type = "out" THEN call[c].val ELSE page.buf]
    /\ Goto(c, "alloc")
    /\ UNCHANGED <<vq, call, chain, res, ret, got, devvars, timeouts>>

\* The header, the status byte and, for a write, the data.
FillPage(c) ==
    /\ pc[c] = "fill"
    /\ page' = [type |-> call[c].type, lba |-> call[c].lba, status |-> "pending",
                buf |-> IF call[c].type = "out" THEN call[c].val ELSE page.buf]
    /\ Goto(c, "alloc")
    /\ UNCHANGED <<vq, call, chain, res, ret, got, devvars, timeouts>>

\* The queue with d0, d1 and d2 made into a request.
Linked(q, d0, d1, d2, type) ==
    [q EXCEPT !.desc[d0] = [piece |-> "hdr", more |-> TRUE, next |-> d1],
              !.desc[d1] = [piece |-> type, more |-> TRUE, next |-> d2],
              !.desc[d2] = [piece |-> "status", more |-> FALSE, next |-> 0]]

\* With fewer than three, those taken go back in the order they were taken, which
\* leaves two the other way round in the list.
TakenBack(q) ==
    LET q1 == virtqueue_alloc_desc(q)
        q2 == virtqueue_alloc_desc(q1)
    IN  CASE q.free_count = 0 -> q
          [] q.free_count = 1 -> virtqueue_free_desc(q1, q.free_head)
          [] OTHER -> virtqueue_free_desc(virtqueue_free_desc(q2, q.free_head), q1.free_head)

\* Three descriptors, or none.
AllocChain(c) ==
    LET q1 == virtqueue_alloc_desc(vq)
        q2 == virtqueue_alloc_desc(q1)
        q3 == virtqueue_alloc_desc(q2)
    IN  /\ pc[c] = "alloc"
        /\ IF vq.free_count >= 3
           THEN /\ chain' = [chain EXCEPT ![c] = <<vq.free_head, q1.free_head, q2.free_head>>]
                /\ vq' = Linked(q3, vq.free_head, q1.free_head, q2.free_head, call[c].type)
                /\ Goto(c, "submit")
                /\ UNCHANGED ret
           ELSE /\ ret' = [ret EXCEPT ![c] = "EFULL"]
                /\ vq' = TakenBack(vq)
                /\ Goto(c, "ret")
                /\ UNCHANGED chain
        /\ UNCHANGED <<page, call, res, got, devvars, timeouts>>

Submit(c) ==
    /\ pc[c] = "submit"
    /\ vq' = virtqueue_submit_chain(vq, chain[c][1])
    /\ Goto(c, "poll")
    /\ UNCHANGED <<page, call, chain, res, ret, got, devvars, timeouts>>

\* The next used entry is taken for the answer; its id is not looked at.
PollTakes(c) ==
    /\ pc[c] = "poll"
    /\ virtqueue_has_used(vq)
    /\ vq' = TakeUsed(vq)
    /\ res' = [res EXCEPT ![c] = TRUE]
    /\ Goto(c, "free")
    /\ UNCHANGED <<page, call, chain, ret, got, devvars, timeouts>>

\* The spins are over.
PollTimesOut(c) ==
    /\ pc[c] = "poll"
    /\ ~virtqueue_has_used(vq)
    /\ timeouts' = IF timeouts < MaxTimeouts THEN timeouts + 1 ELSE timeouts
    /\ res' = [res EXCEPT ![c] = FALSE]
    /\ Goto(c, "free")
    /\ UNCHANGED <<vq, page, call, chain, ret, got, devvars>>

FreeChain(c) ==
    /\ pc[c] = "free"
    /\ vq' = virtqueue_free_chain(vq, chain[c][1])
    /\ Goto(c, "status")
    /\ UNCHANGED <<page, call, chain, res, ret, got, devvars, timeouts>>

\* Mutant: the status byte is not looked at.
Outcome_NoStatus(c) == IF ~res[c] THEN "ETIME" ELSE "OK"

Outcome(c) ==
    IF ~res[c] THEN "ETIME" ELSE IF page.status # "ok" THEN "EDISK" ELSE "OK"

\* The rest of virtio_blk_transfer.
Status(c) ==
    /\ pc[c] = "status"
    /\ ret' = [ret EXCEPT ![c] = Outcome(c)]
    /\ got' = IF Outcome(c) = "OK" /\ call[c].type = "in"
              THEN [got EXCEPT ![c] = page.buf] ELSE got
    /\ Goto(c, "ret")
    /\ UNCHANGED <<vq, page, call, chain, res, devvars, timeouts>>

\* The call returns and its locals are gone.
Return(c) ==
    /\ call' = [call EXCEPT ![c] = NoCall]
    /\ chain' = [chain EXCEPT ![c] = <<0, 0, 0>>]
    /\ res' = [res EXCEPT ![c] = FALSE]
    /\ ret' = [ret EXCEPT ![c] = "OK"]
    /\ got' = [got EXCEPT ![c] = Some]
    /\ Goto(c, "idle")

\* Mutant: the loop goes on after a sector that failed, and again on it.
NextSector_Retry(c) ==
    /\ pc[c] = "ret"
    /\ IF ret[c] # "OK" \/ call[c].cnt > 1
       THEN /\ call' = [call EXCEPT ![c].lba = IF ret[c] = "OK" THEN @ + 1 ELSE @,
                                    ![c].cnt = IF ret[c] = "OK" THEN @ - 1 ELSE @]
            /\ Goto(c, "fill")
            /\ UNCHANGED <<chain, res, ret, got>>
       ELSE Return(c)
    /\ UNCHANGED <<vq, page, devvars, timeouts>>

\* The next sector, unless one failed or this was the last.
NextSector(c) ==
    /\ pc[c] = "ret"
    /\ IF ret[c] = "OK" /\ call[c].cnt > 1
       THEN /\ call' = [call EXCEPT ![c].lba = @ + 1, ![c].cnt = @ - 1]
            /\ Goto(c, "fill")
            /\ UNCHANGED <<chain, res, ret, got>>
       ELSE Return(c)
    /\ UNCHANGED <<vq, page, devvars, timeouts>>

Driver(c) ==
    \/ FillPage(c) \/ AllocChain(c) \/ Submit(c) \/ PollTakes(c) \/ PollTimesOut(c)
    \/ FreeChain(c) \/ Status(c) \/ NextSector(c)

-----------------------------------------------------------------------------
(* The device.                                                             *)

\* The chain from this descriptor is a request.
IsRequest(h) ==
    /\ vq.desc[h].piece = "hdr" /\ vq.desc[h].more
    /\ LET b == vq.desc[h].next
       IN  /\ vq.desc[b].piece = page.type /\ vq.desc[b].more
           /\ vq.desc[vq.desc[b].next].piece = "status"

\* It takes the next available request and reads its header.  It stops at a
\* chain that is no request and at an index that is too far ahead.
DevTakes ==
    LET h == vq.avail[seen % SIZE]
    IN  /\ ~broken
        /\ job = NoJob
        /\ seen # vq.avail_idx
        /\ IF IsRequest(h) /\ (vq.avail_idx - seen) % IDX <= SIZE
           THEN /\ job' = [type |-> page.type, lba |-> page.lba]
                /\ seen' = (seen + 1) % IDX
                /\ UNCHANGED broken
           ELSE /\ broken' = TRUE
                /\ UNCHANGED <<job, seen>>
        /\ UNCHANGED <<vq, page, call, pc, chain, res, ret, got, disk, timeouts>>

\* It moves the data, sets the status and returns the request.
DevDone ==
    /\ job # NoJob
    /\ disk' = IF job.type = "out" THEN [disk EXCEPT ![job.lba] = page.buf] ELSE disk
    /\ page' = [page EXCEPT !.buf = IF job.type = "in" THEN disk[job.lba] ELSE @,
                            !.status = "ok"]
    /\ vq' = PutUsed(vq)
    /\ job' = NoJob
    /\ UNCHANGED <<call, pc, chain, res, ret, got, seen, broken, timeouts>>

\* It fails: only the status is written.
DevFails ==
    /\ job # NoJob
    /\ page' = [page EXCEPT !.status = "ioerr"]
    /\ vq' = PutUsed(vq)
    /\ job' = NoJob
    /\ UNCHANGED <<call, pc, chain, res, ret, got, disk, seen, broken, timeouts>>

-----------------------------------------------------------------------------

Init ==
    /\ vq = virtqueue_init
    /\ page = [type |-> "none", lba |-> 0, status |-> "pending", buf |-> Some]
    /\ call = [c \in Cores |-> NoCall]
    /\ pc = [c \in Cores |-> "idle"]
    /\ chain = [c \in Cores |-> <<0, 0, 0>>]
    /\ res = [c \in Cores |-> FALSE]
    /\ ret = [c \in Cores |-> "OK"]
    /\ got = [c \in Cores |-> Some]
    /\ disk \in [LBAs -> Data]
    /\ seen = 0
    /\ job = NoJob
    /\ broken = FALSE
    /\ timeouts = 0

Calls(c) ==
    \E lba \in LBAs : \E cnt \in {n \in 1 .. MaxCnt : lba + n - 1 \in LBAs} :
        \/ block_rw(c, "in", lba, cnt, Some)
        \/ \E val \in Data : block_rw(c, "out", lba, cnt, val)

Next ==
    \/ \E c \in Cores : Calls(c) \/ Driver(c)
    \/ DevTakes \/ DevDone \/ DevFails

Spec == Init /\ [][Next]_vars

\* A core in the driver is not interrupted and its polling is bounded; the
\* device may be as slow as it likes.
FairSpec == Spec /\ \A c \in Cores : WF_vars(Driver(c))

-----------------------------------------------------------------------------
(* Properties.                                                             *)

\* The requests made that no used entry has been taken for.
Behind == (vq.avail_idx - vq.last_used_idx) % IDX

\* The first free_count descriptors from free_head on.
FreeList ==
    LET walk[k \in 1 .. SIZE] ==
            IF k = 1 THEN vq.free_head ELSE vq.desc[walk[k - 1]].next
    IN  [k \in 1 .. vq.free_count |-> walk[k]]

Taken ==
    {chain[c][i] : c \in {x \in Cores : pc[x] \in {"submit", "poll", "free"}}, i \in 1 .. 3}

\* Type invariant.
TypeOK ==
    /\ vq.desc \in [Slots -> [piece : {"none", "hdr", "in", "out", "status"},
                              more : BOOLEAN, next : Slots]]
    /\ vq.free_head \in Slots
    /\ vq.free_count \in 0 .. SIZE
    /\ vq.avail \in [Slots -> Slots]
    /\ {vq.avail_idx, vq.used_idx, vq.last_used_idx, seen} \subseteq 0 .. IDX - 1
    /\ page \in [type : {"none", "in", "out"}, lba : LBAs,
                 status : {"pending", "ok", "ioerr"}, buf : Data]
    /\ call \in [Cores -> [type : {"none", "in", "out"}, lba : LBAs,
                           cnt : 0 .. MaxCnt, val : Data]]
    /\ disk \in [LBAs -> Data]
    /\ ret \in [Cores -> {"OK", "ETIME", "EDISK", "EFULL"}]

\* The free list has free_count descriptors, all different, and they are
\* exactly those that no request of the driver has (virtqueue_free_chain also
\* after -ETIME): none leaks and none is handed out twice.
FreeListExact ==
    /\ \A i, j \in DOMAIN FreeList : i # j => FreeList[i] # FreeList[j]
    /\ {FreeList[i] : i \in DOMAIN FreeList} = Slots \ Taken

\* Between calls the driver is behind by exactly the requests it gave up on
\* (virtqueue_poll_used moves on by one entry and only past one that is there):
\* it never takes an entry too many, and after -ETIME it never catches up.
LagIsTimeouts ==
    (\A c \in Cores : pc[c] = "idle") /\ timeouts < MaxTimeouts =>
        /\ Behind = timeouts % IDX
        /\ (vq.used_idx - vq.last_used_idx) % IDX <= Behind

\* The queue is consistent however many requests time out, and however late
\* they are completed: descriptors are conserved and the indices are apart by
\* what was given up on (virtqueue_free_chain, virtqueue_poll_used).
QueueExact == TypeOK /\ FreeListExact /\ LagIsTimeouts

\* While it has given up on none, a virtio_blk_transfer that returns 0 did what
\* was asked: a read has the sector's data, a write has reached the sector.
TransfersRight ==
    \A c \in Cores :
        pc[c] = "ret" /\ ret[c] = "OK" /\ timeouts = 0 =>
            IF call[c].type = "in" THEN got[c] = disk[call[c].lba]
                                   ELSE disk[call[c].lba] = call[c].val

\* While the driver has given up on no request, the device never meets a chain
\* that is no request: what virtqueue_submit_chain publishes stays whole until
\* it is used.
ChainsAreRequests == broken => timeouts > 0

\* The device understands every request and answers it, as long as the driver
\* waits for the answers (virtio_blk_transfer).
ServedRight == TransfersRight /\ ChainsAreRequests

\* A sector changes only to what a call under way writes into it, unless a
\* request was given up on.
ChangeAsked ==
    \A l \in LBAs :
        disk'[l] # disk[l] /\ timeouts = 0 =>
            \E c \in Cores :
                call[c].type = "out" /\ call[c].lba = l /\ disk'[l] = call[c].val

\* While the driver has given up on no request, a sector changes only to what
\* the call under way writes into it (virtio_blk_transfer).
OnlyAskedFor == [][ChangeAsked]_vars

\* block_read and block_write return, whatever the device does.
CallsReturn == \A c \in Cores : pc[c] # "idle" ~> pc[c] = "idle"
=============================================================================
