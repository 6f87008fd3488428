--------------------------------- MODULE Pmm ---------------------------------
(***************************************************************************)
(* The physical frame allocator (src/src/kern/mem/pmm.c) and the startup   *)
(* blob of the other cores, which init_smpcode (src/src/smp/init.c) puts   *)
(* into a page of its own.                                                 *)
(*                                                                         *)
(* The bitmap lies in the memory it describes.  It is the set of the       *)
(* frames whose bit is set.  pmm_falloc takes no lock, so the bits it      *)
(* looked at and the bits it sets are two steps of a core; with one core   *)
(* nothing comes between them.                                             *)
(***************************************************************************)
EXTENDS Integers, Sequences

CONSTANTS
    Maps,      \* memory maps the boot loader may hand over
    FRAMESZ,   \* bytes of a frame: 4096
    BYTE,      \* bits of a byte: 8
    U32,       \* the product fidx * framesz is taken modulo this: 2^32
    TRAMP,     \* address of the startup blob: 0x8000
    BLOBSZ,    \* its size in bytes
    Cores, BSP, \* the cores, and the one that boots
    MaxCnt     \* bound on the frames of one call

\* Limine hands out usable memory in whole frames and never frame 0; a map has
\* an entry that ends last.  The startup page's bit is one of the first.
ASSUME PmmAssumption ==
    /\ FRAMESZ \in Nat \ {0}
    /\ BYTE \in Nat \ {0}
    /\ U32 \in Nat \ {0}
    /\ TRAMP \in Nat /\ TRAMP % FRAMESZ = 0
    /\ (TRAMP \div FRAMESZ) \div BYTE < FRAMESZ
    /\ BLOBSZ \in 0 .. FRAMESZ
    /\ BSP \in Cores
    /\ MaxCnt \in Nat \ {0}
    /\ \A m \in Maps :
          /\ m \in Seq([base : Nat, length : Nat, type : {"usable", "other"}])
          /\ \A i \in DOMAIN m : m[i].type = "usable" =>
                /\ m[i].base % FRAMESZ = 0
                /\ m[i].base > 0
                /\ m[i].length % FRAMESZ = 0
          /\ \E i \in DOMAIN m : \A j \in DOMAIN m :
                m[j].base + m[j].length <= m[i].base + m[i].length

VARIABLES
    map,      \* mmap_req.response
    mode,     \* "boot", "up" once pmm_init is done, "panic"
    taken,    \* the bits of state.mmap that are set
    owners,   \* how many holders each frame has
    scan,     \* per core: the run pmm_try_resv found free and has not set yet
    failed,   \* frames asked for by the call that just failed, 0 if none did
    blob      \* the startup blob: "absent", "intact" or "spoilt"

vars == <<map, mode, taken, owners, scan, failed, blob>>

None == [fidx |-> 0, cnt |-> 0]

Run(f, cnt) == f .. f + cnt - 1

-----------------------------------------------------------------------------
(* What pmm_init computes from the map.                                    *)

Usable(m) == {i \in DOMAIN m : m[i].type = "usable"}

mem_high(m) ==
    CHOOSE e \in {m[i].base + m[i].length : i \in DOMAIN m} :
        \A i \in DOMAIN m : m[i].base + m[i].length <= e

nframes(m) == mem_high(m) \div FRAMESZ

mmap_sz(m) == (nframes(m) + BYTE - 1) \div BYTE

Roomy(m) == {i \in Usable(m) : m[i].length >= mmap_sz(m)}

bmapaddr(m) ==
    m[CHOOSE i \in Roomy(m) : \A j \in Roomy(m) : i <= j].base

BitmapFrames(m) ==
    Run(bmapaddr(m) \div FRAMESZ, (mmap_sz(m) + FRAMESZ - 1) \div FRAMESZ)

Tramp == TRAMP \div FRAMESZ

\* The whole frames of usable memory.
UsableFrames(m) ==
    {f \in 0 .. nframes(m) - 1 :
        \E i \in Usable(m) :
            /\ (m[i].base + FRAMESZ - 1) \div FRAMESZ <= f
            /\ f < (m[i].base + m[i].length) \div FRAMESZ}

Bits(m) == 0 .. mmap_sz(m) * BYTE - 1

\* Bits whose byte lies under the startup blob.
UnderBlob(m) ==
    {f \in Bits(m) : /\ TRAMP <= bmapaddr(m) + f \div BYTE
                     /\ bmapaddr(m) + f \div BYTE < TRAMP + BLOBSZ}

-----------------------------------------------------------------------------
(* The bitmap.                                                             *)

\* Mutant: the last bit of the run is not looked at.
CanReserve_Short(t, f, cnt) ==
    /\ f + cnt <= nframes(map)
    /\ Run(f, cnt - 1) \cap t = {}

CanReserve(t, f, cnt) ==
    /\ f + cnt <= nframes(map)
    /\ Run(f, cnt) \cap t = {}

\* pmm_try_resv on one core: all of the run, or none of it.
pmm_try_resv(t, f, cnt) ==
    IF CanReserve(t, f, cnt) THEN t \cup Run(f, cnt) ELSE t

\* The blob once these bits are written and these frames handed to somebody.
BlobAfter(bits, frames) ==
    IF blob = "intact" /\ (bits \cap UnderBlob(map) # {} \/ Tramp \in frames)
    THEN "spoilt"
    ELSE blob

\* Mutant: the startup page stays free.
pmm_init_NoTramp ==
    /\ mode = "boot"
    /\ IF Roomy(map) = {}
       THEN mode' = "panic" /\ UNCHANGED taken
       ELSE LET bits == Bits(map) \ UsableFrames(map)
                bmapsidx == bmapaddr(map) \div FRAMESZ
                bmapfcnt == (mmap_sz(map) + FRAMESZ - 1) \div FRAMESZ
            IN  /\ mode' = "up"
                /\ taken' = pmm_try_resv(bits, bmapsidx, bmapfcnt)
    /\ UNCHANGED <<map, owners, scan, failed, blob>>

pmm_init ==
    /\ mode = "boot"
    /\ IF Roomy(map) = {}
       THEN mode' = "panic" /\ UNCHANGED taken
       ELSE LET bits == Bits(map) \ UsableFrames(map)
                bmapsidx == bmapaddr(map) \div FRAMESZ
                bmapfcnt == (mmap_sz(map) + FRAMESZ - 1) \div FRAMESZ
            IN  /\ mode' = "up"
                /\ taken' = pmm_try_resv(pmm_try_resv(bits, bmapsidx, bmapfcnt),
                                         Tramp, 1)
    /\ UNCHANGED <<map, owners, scan, failed, blob>>

\* The byte of this bit has a bit clear: pmm_falloc skips bytes of 0xFF.
ByteHasRoom(f) ==
    \E b \in Bits(map) : b \div BYTE = f \div BYTE /\ b \notin taken

\* Mutant: a run must end before the last frame.
Candidates_Short(cnt) ==
    {f \in Bits(map) : /\ ByteHasRoom(f)
                       /\ f + cnt < nframes(map)
                       /\ CanReserve(taken, f, cnt)}

\* Where pmm_try_resv would succeed for pmm_falloc.
Candidates(cnt) ==
    {f \in Bits(map) : ByteHasRoom(f) /\ CanReserve(taken, f, cnt)}

\* The core is not in pmm_falloc; the others start after the blob is in place.
Ready(c) ==
    /\ mode = "up"
    /\ scan[c] = None
    /\ c = BSP \/ blob # "absent"

\* pmm_falloc finds no run and returns NULL.
FallocFails(c, cnt) ==
    /\ Ready(c)
    /\ Candidates(cnt) = {}
    /\ failed' = cnt
    /\ UNCHANGED <<map, mode, taken, owners, scan, blob>>

\* pmm_falloc: the lowest run of cnt clear bits ...
FallocFinds(c, cnt) ==
    /\ Ready(c)
    /\ \E f \in Candidates(cnt) :
          /\ \A g \in Candidates(cnt) : f <= g
          /\ scan' = [scan EXCEPT ![c] = [fidx |-> f, cnt |-> cnt]]
    /\ failed' = 0
    /\ UNCHANGED <<map, mode, taken, owners, blob>>

\* The frame of the address that pmm_falloc returns.
Returned(f) == ((f * FRAMESZ) % U32) \div FRAMESZ

\* Who was handed the address holds the frames there; NULL is a failure.
Handed(f, cnt) == IF Returned(f) = 0 THEN {} ELSE Run(Returned(f), cnt)

\* ... is set, and its address handed to the caller.
FallocMarks(c) ==
    LET f == scan[c].fidx
        cnt == scan[c].cnt
    IN  /\ scan[c] # None
        /\ taken' = taken \cup Run(f, cnt)
        /\ owners' = [g \in DOMAIN owners |->
                        owners[g] + IF g \in Handed(f, cnt) THEN 1 ELSE 0]
        /\ blob' = BlobAfter(Run(f, cnt), Handed(f, cnt))
        /\ scan' = [scan EXCEPT ![c] = None]
        /\ failed' = 0
        /\ UNCHANGED <<map, mode>>

\* A holder gives frames back: a run it was handed, or a part of it
\* (vmm_unmap_page and vmm_dasp free frame by frame).
pmm_ffree(c, f, cnt) ==
    /\ Ready(c)
    /\ \A g \in Run(f, cnt) : g \in DOMAIN owners /\ owners[g] > 0
    /\ taken' = taken \ Run(f, cnt)
    /\ owners' = [g \in DOMAIN owners |->
                    owners[g] - IF g \in Run(f, cnt) THEN 1 ELSE 0]
    /\ blob' = BlobAfter(Run(f, cnt), {})
    /\ failed' = 0
    /\ UNCHANGED <<map, mode, scan>>

-----------------------------------------------------------------------------
(* The startup blob.                                                       *)

\* init_smpcode copies the blob, over whatever bits lie there.
init_smpcode ==
    /\ mode = "up"
    /\ blob = "absent"
    /\ blob' = IF Tramp \in DOMAIN owners /\ owners[Tramp] > 0
               THEN "spoilt" ELSE "intact"
    /\ \E bits \in SUBSET UnderBlob(map) :
          taken' = (taken \ UnderBlob(map)) \cup bits
    /\ failed' = 0
    /\ UNCHANGED <<map, mode, owners, scan>>

-----------------------------------------------------------------------------

Init ==
    /\ map \in Maps
    /\ mode = "boot"
    /\ taken = {}
    /\ owners = [f \in 0 .. nframes(map) - 1 |-> 0]
    /\ scan = [c \in Cores |-> None]
    /\ failed = 0
    /\ blob = "absent"

Next ==
    \/ pmm_init
    \/ init_smpcode
    \/ \E c \in Cores, cnt \in 1 .. MaxCnt :
          \/ FallocFails(c, cnt)
          \/ FallocFinds(c, cnt)
          \/ \E f \in DOMAIN owners : pmm_ffree(c, f, cnt)
    \/ \E c \in Cores : FallocMarks(c)

Spec == Init /\ [][Next]_vars

-----------------------------------------------------------------------------
(* Properties.                                                             *)

TypeOK ==
    /\ map \in Maps
    /\ mode \in {"boot", "up", "panic"}
    /\ taken \subseteq Bits(map)
    /\ owners \in [0 .. nframes(map) - 1 -> Nat]
    /\ scan \in [Cores -> [fidx : Bits(map) \cup {0}, cnt : 0 .. MaxCnt]]
    /\ failed \in 0 .. MaxCnt
    /\ blob \in {"absent", "intact", "spoilt"}

\* Frames the allocator has to give.
Pool == UsableFrames(map) \ (BitmapFrames(map) \cup {Tramp})

\* A frame has at most one holder, and who holds a frame holds usable memory
\* that is not the bitmap's, through every sequence of allocations and frees,
\* partial ones included (pmm_falloc, pmm_ffree).
FramesExclusive ==
    \A f \in DOMAIN owners :
        owners[f] > 0 =>
            owners[f] = 1 /\ f \in UsableFrames(map) \ BitmapFrames(map)

\* Whenever no allocation is under way, the clear bits are exactly the frames
\* of the pool that nobody holds: no frame leaks and none is free while held
\* (pmm_try_resv, pmm_ffree).
NothingLost ==
    mode = "up" /\ (\A c \in Cores : scan[c] = None) =>
        (Bits(map) \ taken) \ {Tramp} = {f \in Pool : owners[f] = 0}

\* The blob was not copied over bits of the bitmap.
BitmapKept == blob = "absent" \/ UnderBlob(map) = {}

\* As long as the bitmap is kept, every frame of the pool is either marked and
\* held once or clear and held by nobody, through every sequence of allocations
\* and partial frees (pmm_try_resv, pmm_ffree).
FramesAccounted == BitmapKept => FramesExclusive /\ NothingLost

\* As long as the bitmap is kept, pmm_falloc returns NULL only if no run of that
\* length is free, although it skips full bytes and stops at the end of a bitmap
\* that is padded to bytes.
FailsOnlyWhenFull ==
    BitmapKept /\ failed > 0 =>
        ~ \E f \in Pool : \A g \in Run(f, failed) : g \in Pool /\ owners[g] = 0

\* pmm.c: "every allocator after this point scans the bitmap from the bottom up
\* and would hand this frame out otherwise": nobody is ever handed the startup
\* page, not even once the blob lies over a part of the bitmap and its bits read
\* as code; only a bitmap that begins in the page itself is exempt.  And the copy
\* init.c says "stays put" does, except from the bitmap's own bits.
StartupPageKept ==
    mode = "up" /\ bmapaddr(map) # TRAMP =>
        /\ Tramp \in DOMAIN owners => owners[Tramp] = 0
        /\ blob = "spoilt" => UnderBlob(map) # {}
=============================================================================
