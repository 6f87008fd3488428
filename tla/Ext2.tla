-------------------------------- MODULE Ext2 --------------------------------
(***************************************************************************)
(* Blocks and inodes of the ext2 driver (src/src/drivers/storage/fs/ext2.c).*)
(*                                                                         *)
(* A block is PPB cells, and a cell is a number: file data, or the number  *)
(* of a block where the block is read as an indirect block; 0 is no block. *)
(* Blocks that were never written hold junk.                               *)
(*                                                                         *)
(* An operation makes several block writes.  It is computed as a run: the  *)
(* disk and the counts in memory as the operation sees them, and the disks *)
(* left by each write in turn (log), one of which a crash would leave.     *)
(* The copies of superblock and descriptors, which are never read, are one *)
(* with the original, and no write fails.                                  *)
(***************************************************************************)
EXTENDS Integers, Sequences, FiniteSetsExt

CONSTANTS
    NGROUPS,  \* block groups
    BPG,      \* s_blocks_per_group
    IPG,      \* s_inodes_per_group
    NDIR,     \* direct pointers of an inode: 12
    PPB,      \* pointers, and cells of data, in a block
    MaxWrite, \* bound on the cells of a write
    MaxSize,  \* bound on the cells of a file
    MaxGap    \* bound on how far past the end a write may start

ASSUME Ext2Assumption ==
    /\ {NGROUPS, BPG, IPG, NDIR, PPB} \subseteq Nat \ {0}
    /\ {MaxWrite, MaxSize, MaxGap} \subseteq Nat

VARIABLES
    disk,   \* bitmaps, counts, inodes and blocks
    fs,     \* the counts in memory: fs->bgs and fs->sb
    short   \* the last operation was a write that returned less than nb

vars == <<disk, fs, short>>

Groups == 0 .. NGROUPS - 1
Blocks == 1 .. NGROUPS * BPG
Inodes == 1 .. NGROUPS * IPG
Cells == 0 .. PPB - 1

GroupOf(b) == (b - 1) \div BPG
InoGroup(i) == (i - 1) \div IPG

Zeros == [c \in Cells |-> 0]
Junk == [c \in Cells |-> 1]

NoInode == [i_block |-> [s \in 0 .. NDIR + 2 |-> 0], i_size |-> 0, i_blocks |-> 0]

-----------------------------------------------------------------------------
(* Runs.                                                                   *)

\* disk, counts in memory, the inode in memory, the writes so far, the block
\* the last step arrived at, and whether it succeeded.
Start(n) == [d |-> disk, fs |-> fs, n |-> n, log |-> <<>>, at |-> 0, ok |-> TRUE]

Put(r, d) == [r EXCEPT !.d = d, !.log = Append(@, d)]

\* flush_bgs and flush_sbs.
flush_bgs(r) == Put(r, [r.d EXCEPT !.bgs = r.fs.bgs])
flush_sbs(r) == Put(r, [r.d EXCEPT !.sb = r.fs.sb])

flush_inode(r, i) == Put(r, [r.d EXCEPT !.ino[i] = r.n])

wrblk(r, b, cells) == Put(r, [r.d EXCEPT !.blk[b] = cells])

FreeIn(d, g) == {b \in Blocks \ d.bmap : GroupOf(b) = g}

\* Mutant: only the group of the inode is searched.
GroupFor_Own(r, g) == {n \in {0} : r.fs.bgs[g].blocks # 0 /\ FreeIn(r.d, g) # {}}

\* How far from group g the groups with a free block are.
GroupFor(r, g) ==
    {n \in Groups : LET h == (g + n) % NGROUPS
                    IN  r.fs.bgs[h].blocks # 0 /\ FreeIn(r.d, h) # {}}

allocblk(r, g) ==
    IF GroupFor(r, g) = {}
    THEN [r EXCEPT !.ok = FALSE]
    ELSE LET h == (g + Min(GroupFor(r, g))) % NGROUPS
             b == Min(FreeIn(r.d, h))
             r1 == Put(r, [r.d EXCEPT !.bmap = @ \cup {b}])
             r2 == [r1 EXCEPT !.fs.bgs[h].blocks = @ - 1, !.fs.sb.blocks = @ - 1]
         IN  [flush_sbs(flush_bgs(r2)) EXCEPT !.at = b]

\* Mutant: the counts are not given back.
freeblk_Uncounted(r, b) ==
    LET r1 == wrblk(r, b, Zeros)
        r2 == Put(r1, [r1.d EXCEPT !.bmap = @ \ {b}])
    IN  flush_sbs(flush_bgs(r2))

freeblk(r, b) ==
    LET g == GroupOf(b)
        r1 == wrblk(r, b, Zeros)
        r2 == Put(r1, [r1.d EXCEPT !.bmap = @ \ {b}])
        r3 == [r2 EXCEPT !.fs.bgs[g].blocks = @ + 1, !.fs.sb.blocks = @ + 1]
    IN  flush_sbs(flush_bgs(r3))

-----------------------------------------------------------------------------
(* The tree of pointers of an inode.                                       *)

\* The first index under the single, double and triple indirect pointer, and
\* the first that a file cannot have.
First == <<NDIR, NDIR + PPB, NDIR + PPB + PPB ^ 2, NDIR + PPB + PPB ^ 2 + PPB ^ 3>>

Indices == 0 .. First[4] - 1

\* Where an index is: its level of indirection, a pointer of the inode, and a
\* cell in each indirect block.
Level == [idx \in Indices |-> Cardinality({k \in 1 .. 3 : First[k] <= idx})]

Root == [idx \in Indices |-> IF idx < NDIR THEN idx ELSE NDIR + Level[idx] - 1]

Cell ==
    [idx \in Indices |->
        LET k == Level[idx]
        IN  [l \in 1 .. k |-> ((idx - First[k]) \div PPB ^ (k - l)) % PPB]]

\* The blocks on the way to idx: the one the inode points to first, that of the
\* data last, 0 from where there is none.
Way(d, n, idx) ==
    LET w[l \in 0 .. Level[idx]] ==
            IF l = 0 THEN n.i_block[Root[idx]]
            ELSE LET b == w[l - 1] IN IF b = 0 THEN 0 ELSE d.blk[b][Cell[idx][l]]
    IN  w

ino_getblkid(d, n, idx) == Way(d, n, idx)[Level[idx]]

Holes(r) == {idx \in Indices : ino_getblkid(r.d, r.n, idx) = 0}

zero_newblk(r) == wrblk(r, r.at, Zeros)

\* The inode's block count goes up by the block, and the inode is written.
Charge(r, i) == flush_inode([r EXCEPT !.n.i_blocks = @ + 1], i)

\* The l-th block on the way to idx, allocated if it is missing.
Step(r, i, idx, l) ==
    LET k == Level[idx]
        p == Way(r.d, r.n, idx)[l]
        a == allocblk(r, InoGroup(i))
        linked == IF l = 0
                  THEN [a EXCEPT !.n.i_block[Root[idx]] = a.at]
                  ELSE wrblk(a, r.at, [a.d.blk[r.at] EXCEPT ![Cell[idx][l]] = a.at])
    IN  IF ~r.ok THEN r
        ELSE IF p # 0 THEN [r EXCEPT !.at = p]
        ELSE IF ~a.ok THEN a
        ELSE IF l = k THEN Charge(linked, i) ELSE zero_newblk(Charge(linked, i))

\* A block for the first index that has none, whichever the caller wanted.
ino_allocblk(r, i) ==
    LET holes == Holes(r)
        idx == Min(holes)
        upto[l \in 0 .. 3] == Step(IF l = 0 THEN r ELSE upto[l - 1], i, idx, l)
    IN  IF holes = {} THEN [r EXCEPT !.ok = FALSE] ELSE upto[Level[idx]]

Discharge(r) ==
    [r EXCEPT !.n.i_blocks = IF @ >= 1 THEN @ - 1 ELSE 0]

\* Mutant: the indirect blocks left empty are unlinked and not freed.
ino_freeblk_Lost(r, i, idx) ==
    LET k == Level[idx]
        w == Way(r.d, r.n, idx)
        f == Discharge(freeblk(r, w[k]))
    IN  IF w[k] = 0 THEN r
        ELSE flush_inode([f EXCEPT !.n.i_block[Root[idx]] = 0], i)

\* The block of idx is freed, then each indirect block that is left empty.
ino_freeblk(r, i, idx) ==
    LET k == Level[idx]
        w == Way(r.d, r.n, idx)
        \* w[l] without the pointer to w[l + 1]
        Rest(l) == [r.d.blk[w[l]] EXCEPT ![Cell[idx][l + 1]] = 0]
        \* w[l] is freed when this and all below it are left empty
        freed == {l \in 0 .. k : \A m \in l .. k - 1 : Rest(m) = Zeros}
        top == Min(freed)
        \* w[k], ..., w[l] are freed
        down[j \in 0 .. k] ==
            Discharge(freeblk(IF j = 0 THEN r ELSE down[j - 1], w[k - j]))
        f == down[k - top]
        cut == IF top = 0 THEN [f EXCEPT !.n.i_block[Root[idx]] = 0]
                          ELSE wrblk(f, w[top - 1], Rest(top - 1))
    IN  IF w[k] = 0 THEN r ELSE flush_inode(cut, i)

-----------------------------------------------------------------------------
(* Operations.                                                             *)

\* What is written to a cell of a file tells the file and the cell: the driver
\* copies data and never looks at it.
Datum(i, p) == i * MaxSize + p + 1

\* Mutant: the last cell is left out.
Patched_Last(cells, i, k, off, nb) ==
    [c \in Cells |->
        LET p == k * PPB + c
        IN  IF off <= p /\ p < off + nb - 1 THEN Datum(i, p) ELSE cells[c]]

\* The content of block k of file i once cells off .. off + nb - 1 are written.
Patched(cells, i, k, off, nb) ==
    [c \in Cells |->
        LET p == k * PPB + c
        IN  IF off <= p /\ p < off + nb THEN Datum(i, p) ELSE cells[c]]

\* One turn of the loop of ext2fs_write.
WriteBlock(r, i, k, off, nb) ==
    LET b == ino_getblkid(r.d, r.n, k)
        a == IF b = 0 THEN ino_allocblk(r, i) ELSE [r EXCEPT !.at = b]
    IN  IF ~a.ok THEN a
        ELSE wrblk(a, a.at, Patched(IF b = 0 THEN Zeros ELSE a.d.blk[a.at], i, k, off, nb))

MaxOf(a, b) == IF a > b THEN a ELSE b
MinOf(a, b) == IF a < b THEN a ELSE b

\* ext2fs_write of nb cells at off.  It stops at the first block it cannot
\* get; the cells before that block count as written.
WriteRun(i, off, nb) ==
    LET k0 == off \div PPB
        k1 == (off + nb - 1) \div PPB
        \* the run and the end of what is written, after block k
        upto[k \in k0 - 1 .. k1] ==
            IF k < k0 THEN <<Start(disk.ino[i]), off>>
            ELSE LET p == upto[k - 1]
                     q == WriteBlock(p[1], i, k, off, nb)
                 IN  IF ~p[1].ok THEN p
                     ELSE <<q, IF q.ok THEN MinOf((k + 1) * PPB, off + nb) ELSE p[2]>>
        r == upto[k1][1]
    IN  flush_inode([r EXCEPT !.n.i_size = MaxOf(@, upto[k1][2])], i)

\* ext2fs_trunc.
TruncRun(i) ==
    LET nblks == (disk.ino[i].i_size + PPB - 1) \div PPB
        upto[k \in 0 .. nblks] ==
            IF k = 0 THEN Start(disk.ino[i]) ELSE ino_freeblk(upto[k - 1], i, k - 1)
    IN  flush_inode([upto[nblks] EXCEPT !.n.i_size = 0], i)

\* Inodes mkino_base may take: groups whose count is not 0.
Candidates == {i \in Inodes \ disk.imap : fs.bgs[InoGroup(i)].inodes # 0}

\* mkino_base of an empty inode.
MkinoRun ==
    LET i == Min(Candidates)
        g == InoGroup(i)
        r1 == Put(Start(NoInode), [disk EXCEPT !.imap = @ \cup {i}])
        r2 == [r1 EXCEPT !.fs.bgs[g].inodes = @ - 1, !.fs.sb.inodes = @ - 1]
    IN  flush_inode(flush_sbs(flush_bgs(r2)), i)

Done(r) == disk' = r.d /\ fs' = r.fs /\ short' = ~r.ok

ext2fs_mkino == Candidates # {} /\ Done(MkinoRun)

\* Writes within the bounds of the model.
Writes ==
    {<<i, off, nb>> \in disk.imap \X (0 .. MaxSize) \X (1 .. MaxWrite) :
        off <= disk.ino[i].i_size + MaxGap /\ off + nb <= MaxSize}

ext2fs_write(i, off, nb) == Done(WriteRun(i, off, nb))

ext2fs_trunc(i) == Done(TruncRun(i))

\* ext2fs_umount, then ext2fs_mount: the counts are read from the disk.
ext2fs_mount ==
    /\ fs' = [bgs |-> disk.bgs, sb |-> disk.sb]
    /\ UNCHANGED <<disk, short>>

\* The machine stops between two writes of an operation, and mounts again.
Crash ==
    \E r \in {WriteRun(w[1], w[2], w[3]) : w \in Writes}
             \cup {TruncRun(i) : i \in disk.imap} :
        \E j \in 1 .. Len(r.log) - 1 :
            /\ disk' = r.log[j]
            /\ fs' = [bgs |-> disk'.bgs, sb |-> disk'.sb]
            /\ short' = FALSE

\* mkfs: nothing but the file system's own blocks is in use, and those are not
\* counted here.
Init ==
    LET bgs == [g \in Groups |-> [blocks |-> BPG, inodes |-> IPG]]
        sb == [blocks |-> NGROUPS * BPG, inodes |-> NGROUPS * IPG]
    IN  /\ disk = [bmap |-> {}, imap |-> {}, bgs |-> bgs, sb |-> sb,
                   ino |-> [i \in Inodes |-> NoInode],
                   blk |-> [b \in Blocks |-> Junk]]
        /\ fs = [bgs |-> bgs, sb |-> sb]
        /\ short = FALSE

Next ==
    \/ ext2fs_mkino
    \/ \E w \in Writes : ext2fs_write(w[1], w[2], w[3])
    \/ \E i \in disk.imap : ext2fs_trunc(i)
    \/ ext2fs_mount

Spec == Init /\ [][Next]_vars

CrashSpec == Init /\ [][Next \/ Crash]_vars

-----------------------------------------------------------------------------
(* Properties.                                                             *)

\* The pointers a file may have, each by the first index below it and its level.
Pointers ==
    {x \in Indices \X (0 .. 3) :
        x[2] <= Level[x[1]] /\ \A m \in x[2] + 1 .. Level[x[1]] : Cell[x[1]][m] = 0}

\* Those of inode i that are set, with the block each points to.
Owned(i) ==
    {o \in {<<x, Way(disk, disk.ino[i], x[1])[x[2]]>> : x \in Pointers} : o[2] # 0}

BlocksOf(i) == {o[2] : o \in Owned(i)}

\* Type invariant.
TypeOK ==
    /\ disk.bmap \subseteq Blocks
    /\ disk.imap \subseteq Inodes
    /\ disk.ino \in [Inodes -> [i_block : [0 .. NDIR + 2 -> Blocks \cup {0}],
                                i_size : 0 .. MaxSize, i_blocks : Nat]]
    /\ disk.blk \in [Blocks -> [Cells -> Nat]]
    /\ fs.bgs \in [Groups -> [blocks : 0 .. BPG, inodes : 0 .. IPG]]

\* No block is pointed to twice, by one inode or by two (ino_allocblk,
\* zero_newblk): no file's data is another's data or pointers.
NoneShared ==
    LET own == UNION {{i} \X Owned(i) : i \in disk.imap}
    IN  \A o, p \in own : o[2][2] = p[2][2] => o = p

\* The bitmap marks exactly the blocks some inode points to (allocblk, freeblk,
\* ino_freeblk): none is lost, none is free and in use.
BitmapExact ==
    disk.bmap = UNION {BlocksOf(i) : i \in disk.imap}

\* The counts in memory and on disk are the clear bits of the bitmaps, so that
\* allocblk and mkino_base pass over no group that has a free block or inode.
FreeCountsExact ==
    /\ fs.bgs = disk.bgs /\ fs.sb = disk.sb
    /\ \A g \in Groups :
          /\ fs.bgs[g].blocks = Cardinality(FreeIn(disk, g))
          /\ fs.bgs[g].inodes = Cardinality({i \in Inodes \ disk.imap : InoGroup(i) = g})
    /\ fs.sb.blocks = Cardinality(Blocks \ disk.bmap)
    /\ fs.sb.inodes = Cardinality(Inodes \ disk.imap)

\* i_blocks counts the blocks of the file, indirect ones included.
IBlocksExact ==
    \A i \in disk.imap : disk.ino[i].i_blocks = Cardinality(Owned(i))

\* Every count kept of blocks and inodes is right, through writes that fail for
\* want of space and through mounts (allocblk, freeblk, ino_freeblk).
CountsExact == FreeCountsExact /\ IBlocksExact

\* What ext2fs_read returns for the whole file.
ext2fs_read(i) ==
    [p \in 1 .. disk.ino[i].i_size |->
        LET b == ino_getblkid(disk, disk.ino[i], (p - 1) \div PPB)
        IN  IF b = 0 THEN 0 ELSE disk.blk[b][(p - 1) % PPB]]

Flat == INSTANCE FlatFiles
            WITH file <- [i \in Inodes |-> IF i \in disk.imap THEN {ext2fs_read(i)} ELSE {}]

\* Files read back as they were written (ext2fs_read, ext2fs_write,
\* ext2fs_trunc): to their readers they are flat.
FilesAreFlat == Flat!Spec

\* Behind its end a file's blocks hold zeros (zero_newblk, ext2fs_write): no
\* old contents come up when the file grows.
NoOldContents ==
    \A i \in disk.imap : \A idx \in Indices :
        LET b == ino_getblkid(disk, disk.ino[i], idx)
        IN  b # 0 =>
                \A c \in Cells : idx * PPB + c >= disk.ino[i].i_size => disk.blk[b][c] = 0

\* Every block is free and marked so, or belongs to one place of one file, and
\* holds nothing of another (ino_allocblk, ino_freeblk, ext2fs_write).
BlocksExact == TypeOK /\ NoneShared /\ BitmapExact /\ NoOldContents

\* A write that stops early leaves no free block: ext2fs_write fails for want
\* of space only where there is none.
ShortOnlyWhenFull == short => disk.bmap = Blocks
=============================================================================
