------------------------------- MODULE KQueue -------------------------------
(***************************************************************************)
(* The ring buffer of src/src/kern/queue.c, with one reader and one writer.*)
(*                                                                         *)
(* The reader runs in a system call with interrupts on; the kernel is      *)
(* built by clang -O0, so each mention of queue->cnt is a load or a store  *)
(* of its own and the reader's steps are those.  The writer of a PS/2      *)
(* keyboard or mouse queue is an interrupt handler: kqueue_enqueue is one  *)
(* step, and it may fall between any two of the reader's.  The writers of  *)
(* polled devices and of the entropy pool run in the reader's own call and *)
(* find it idle.                                                           *)
(*                                                                         *)
(* The code never looks at a byte, so a byte is its place in the stream of *)
(* those accepted: 1, 2, 3 ...  written, taken, lost and late are not in   *)
(* the code; they count what has happened.                                 *)
(***************************************************************************)
EXTENDS Integers, Sequences

CONSTANTS
    SZ,         \* queue->sz
    TAIL_MOD,   \* numbers that queue->tail can hold: 256, it is a u8
    MaxReq,     \* longest read or write
    MaxWritten  \* the bound on what is written

\* Every size the kernel asks for is a multiple of 256.
ASSUME KQueueAssumption ==
    /\ TAIL_MOD \in Nat \ {0}
    /\ SZ \in Nat \ {0} /\ TAIL_MOD <= SZ /\ SZ % TAIL_MOD = 0
    /\ MaxReq \in Nat \ {0}
    /\ MaxWritten \in Nat

VARIABLES
    buf, head, tail, cnt,    \* kqueue_t
    pc, datasz, n, data,     \* the reader: request, bytes it will take, taken
    reg,                     \* the register of the reader's "cnt -= n"
    written,                 \* bytes accepted so far
    taken,                   \* bytes copied out so far
    lost,                    \* bytes whose count a store of the reader undid
    late                     \* bytes accepted between a read's looks at cnt

reader == <<pc, datasz, n, data, reg>>
vars == <<buf, head, tail, cnt, reader, written, taken, lost, late>>

Slots == 0 .. SZ - 1
Junk == 0                    \* what malloc left in the buffer
Shorter(x, y) == IF x < y THEN x ELSE y

\* kqueue_init
Init ==
    /\ buf = [s \in Slots |-> Junk]
    /\ head = 0
    /\ tail = 0
    /\ cnt = 0
    /\ pc = "idle"
    /\ datasz = 0
    /\ n = 0
    /\ data = <<>>
    /\ reg = 0
    /\ written = 0
    /\ taken = 0
    /\ lost = 0
    /\ late = 0

\* How many of sz bytes fit.
Accepted(sz) == Shorter(sz, SZ - cnt)

\* k times head = (head + 1) % sz
Advance(k) == (head + k) % SZ

\* tail = (tail + 1) % sz, cut to the width of tail
AdvanceTail == ((tail + 1) % SZ) % TAIL_MOD

\* Mutant: what was asked is counted, not what was queued.
kqueue_enqueue_Asked(sz) ==
    LET m == Accepted(sz) IN
    /\ written + m <= MaxWritten
    /\ buf' = [s \in Slots |->
                 IF \E i \in 1 .. m : s = Advance(i - 1)
                 THEN written + CHOOSE i \in 1 .. m : s = Advance(i - 1)
                 ELSE buf[s]]
    /\ head' = Advance(m)
    /\ cnt' = cnt + sz
    /\ written' = written + m
    /\ late' = IF pc = "take" THEN late + m ELSE late
    /\ UNCHANGED <<tail, reader, taken, lost>>

kqueue_enqueue(sz) ==
    LET m == Accepted(sz) IN
    /\ written + m <= MaxWritten
    /\ buf' = [s \in Slots |->
                 IF \E i \in 1 .. m : s = Advance(i - 1)
                 THEN written + CHOOSE i \in 1 .. m : s = Advance(i - 1)
                 ELSE buf[s]]
    /\ head' = Advance(m)
    /\ cnt' = cnt + m
    /\ written' = written + m
    /\ late' = IF pc = "take" THEN late + m ELSE late
    /\ UNCHANGED <<tail, reader, taken, lost>>

\* Mutant: a read takes all there is.
DeqCompare_All(sz) ==
    /\ pc = "idle"
    /\ datasz' = sz
    /\ n' = n /\ pc' = "take"
    /\ UNCHANGED <<buf, head, tail, cnt, data, reg, written, taken, lost, late>>

\* The first look at cnt: "datasz < queue->cnt ?"
DeqCompare(sz) ==
    /\ pc = "idle"
    /\ datasz' = sz
    /\ IF sz < cnt
       THEN n' = sz /\ pc' = "copy"
       ELSE n' = n /\ pc' = "take"
    /\ UNCHANGED <<buf, head, tail, cnt, data, reg, written, taken, lost, late>>

\* The second: ": queue->cnt"
DeqTake ==
    /\ pc = "take"
    /\ n' = cnt
    /\ pc' = "copy"
    /\ UNCHANGED <<buf, head, tail, cnt, datasz, data, reg, written, taken, lost, late>>

\* Mutant: the byte is read behind the step of tail.
DeqCopy_After ==
    /\ pc = "copy"
    /\ Len(data) < n
    /\ data' = Append(data, buf[AdvanceTail])
    /\ tail' = AdvanceTail
    /\ taken' = taken + 1
    /\ UNCHANGED <<buf, head, cnt, pc, datasz, n, reg, written, lost, late>>

DeqCopy ==
    /\ pc = "copy"
    /\ Len(data) < n
    /\ data' = Append(data, buf[tail])
    /\ tail' = AdvanceTail
    /\ taken' = taken + 1
    /\ UNCHANGED <<buf, head, cnt, pc, datasz, n, reg, written, lost, late>>

\* "queue->cnt -= n" is a load ...
DeqLoad ==
    /\ pc = "copy"
    /\ Len(data) = n
    /\ reg' = cnt
    /\ pc' = "store"
    /\ UNCHANGED <<buf, head, tail, cnt, datasz, n, data, written, taken, lost, late>>

\* ... and a store, which undoes the count of a write since the load; then the
\* call returns and its locals are gone.
DeqStore ==
    /\ pc = "store"
    /\ cnt' = reg - n
    /\ lost' = lost + (cnt - reg)
    /\ pc' = "idle"
    /\ datasz' = 0 /\ n' = 0 /\ data' = <<>> /\ reg' = 0 /\ late' = 0
    /\ UNCHANGED <<buf, head, tail, written, taken>>

Next ==
    \/ \E sz \in 1 .. MaxReq : kqueue_enqueue(sz)
    \/ \E sz \in 1 .. MaxReq : DeqCompare(sz)
    \/ DeqTake \/ DeqCopy \/ DeqLoad \/ DeqStore

Spec == Init /\ [][Next]_vars

-----------------------------------------------------------------------------
(* Properties.                                                             *)

\* The count never runs ahead of the bytes there are, not even when a write
\* falls within a read and loses its count: what kqueue_queued reports, and what
\* a read in progress has still to copy, were written and not read before, so
\* no read hands out a slot that nothing was put in (kqueue_dequeue's "cnt -= n"
\* against kqueue_enqueue in an interrupt).
NeverAhead ==
    /\ cnt - Len(data) <= written - taken
    /\ n - Len(data) <= written - taken

\* As far as tail can count, bytes come out as they went in: the k-th byte read
\* is the k-th accepted, for k up to TAIL_MOD, across partial reads, full queues
\* and writes within reads.  A count that was lost lets a later write go round
\* the buffer and over bytes not yet read, which takes more than SZ bytes.
FirstInOrder ==
    lost = 0 \/ written <= SZ =>
        \A i \in 1 .. Len(data) :
            LET k == taken - Len(data) + i
            IN  k <= TAIL_MOD => data[i] = k

\* A read takes more than the caller has room for only by the bytes that came
\* between its two looks at cnt (queue.c: "datasz => requested bytes of data").
OverrunIsLate == n <= datasz + late
=============================================================================
