# A TLA+ verification of RandomOS

RandomOS is an x86_64 kernel in C. This directory models the parts of it whose
correctness depends on the order of events or on data structures that many calls
leave behind: the scheduler and the process table, the byte queue between
interrupt handlers and readers, frames, address ranges and the heap, the requests
that cores send each other, the virtio disk, the blocks and inodes of ext2, and
the descriptor tables. Each module is a translation of the source; `PROJECT.json`
maps every definition to its lines.

Paths below are relative to the directory that holds the repository as `src/`.

## The system

| Part | Source | Modules |
|---|---|---|
| Process table, round-robin scheduler | `src/src/scheduler/` | `Sched` |
| newproc, execve, exit, kill, wait, sleep, setpwd | `src/src/usr/syscalls/` | `Sched` |
| System call entry and exit, preemption tick, user faults | `syscall_s.asm`, `preempt_timer_int.asm`, `int_hdlr.c` | `Sched` |
| Program loader: its page tables, its descriptor | `src/src/usr/loader.c` | `Sched`, `Fds` |
| Kernel byte queue | `src/src/kern/queue.c` | `KQueue` |
| Physical frame allocator, startup blob | `pmm.c`, `src/src/smp/init.c` | `Pmm` |
| Virtual memory manager: regions of the kernel heap | `vmm.c` | `Vmm`, `PageRanges` |
| malloc, free, realloc | `liballoc.c` | `Liballoc`, `PageRanges` |
| Requests between cores, AP startup and main loop, boot | `src/src/smp/`, `kmain.c` | `SmpReq` |
| Block layer, virtio disk, virtqueues | `storage/block/`, `src/src/drivers/virtio/` | `VirtioBlk`, `Virtqueue` |
| ext2: blocks, inodes, read, write, truncate, mount | `storage/fs/ext2.c` | `Ext2`, `FlatFiles` |
| Descriptor tables, open, read, write, lseek, close | `storage/fd/fd.c`, `storage/fs/vfs.c` | `Fds` |

The parts interact as follows. A tick or a system call enters the kernel on the
boot core (BSP); a handler changes the process table and leaves through the
preemption check, which may switch to another process. Page tables and the pages
of the heap come from the frame allocator; the heap's address range is managed by
the VMM, and malloc cuts it up. Interrupt handlers feed byte queues that system
calls drain. File calls go through a process's descriptor table, the VFS and ext2
to the block layer and one sector at a time to the disk. The other cores (APs)
are started from a blob in a page that the frame allocator reserves, report to
the BSP through one request buffer, and take the BSP's requests in a handler that
never returns to the code it interrupted.

## Modules

**`Sched`** is a machine with one core. `used`, `is_dead` and `is_blocked` are
the sets of pids whose flag is set in `proctbl`; the other fields of a slot are
functions of the pid. `mode` says where the core is: in user code, on the way
out of a system call (`sysret`), in `scheduler_switch`, halted in its idle loop,
or stopped by a panic. A system call is never preempted, since a tick in kernel
mode only sets `preempt_pending`, so a handler's body is one action and the way
out another. Register contexts are abstracted to where they resume. `live` is
the set of allocated page tables, `asp` the one in CR3, and `status` the word
that SYS_WAIT writes to. `why` is history: the reason a process blocked, of
which the code keeps no record. Calls that fail without changing the table are
`SysOther`. The permission check of SYS_KILL is such a refusal. Framebuffers and
credentials are left out; descriptors are in `Fds`.

**`KQueue`** is the ring buffer with one reader and one writer. The kernel is
built with -O0, so each mention of `queue->cnt` in `kqueue_dequeue` is a memory
access of its own and a step of its own. The writer is an interrupt handler (PS/2
keyboard and mouse) and may run between any two of them. `TAIL_MOD` is the number
of values the `u8 tail` can hold; the size of every queue of the kernel is a
multiple of it. A byte is its place in the stream of those accepted, so the
properties can say which byte a read got. `written`, `taken`, `lost` and `late` are history: what was
accepted and read so far, how many bytes lost their count, and how many
arrived between the reader's two looks at `cnt`.

**`Pmm`** is the bitmap allocator. A bitmap is the set of its set bits; it lies
in the memory it describes and may lie under the startup blob. What
`pmm_falloc` finds and what it sets are two steps, because it takes no lock;
with one core nothing comes between. Addresses are taken modulo `U32` where the
code multiplies two `u32`. `owners` counts the holders of each frame; a holder
may give back parts of a run. `BitmapKept` says that the blob was not copied over
the bitmap.

**`SmpReq`** has one BSP and `NAPs` other cores. `pc[a]` is where AP `a` is,
`state[a]` and `status[a]` are `apstates[].state` and the BSP's copy of it,
`ipi` and `bipi` are the pending bits of the request vectors. The locks of
`apstates[]` and `apreqvec[]` are each taken by one core only and are not
modelled. An AP may come up at any time after it was started, also after kmain
has sent it a request: that interrupt is lost, and `dropped` remembers it. A
request interrupts an AP wherever its interrupt flag is set (`IF_ON`), which
includes the wait in `send_bsp_request`; the handler does not return there, so the
lock of the request buffer may be left behind (`Orphaned`). `ApiCall` is the
interface of `apreq.c`, up to `MaxApi` calls after boot. In the repository
`ap_run` and `ap_continue` are called by `kmain` only and `ap_pause` and `ap_stop`
by nobody.

**`Vmm`** is the list of regions of the kernel's heap range. `node` is the fixed
pool `vmmr_nodes`, in which a node is free when it is blank; `head` is
`vmmr_head`. A call walks the list one node per step (`pc`, `curr`, `arg`), so
that splitting, giving up in the middle, merging neighbours and running out of
nodes or frames are steps of the walk. `held` is what callers have, `mapped` the
pages with a frame, `nfree` the frames left. **`PageRanges`** is what callers may
rely on: disjoint ranges, given back whole or from either end.

**`Liballoc`** is malloc over `PageRanges`. `tags` are the boundary tags by
address, `l_freePages` the free lists by size class, `l_completePages` the cached
whole blocks. `free` melts with its left and right neighbour one step at a time.
A `realloc` whose `malloc` fails writes through NULL: `fault`, which ends the
behaviour.

**`Virtqueue`** is the split ring as a value with the operations of
`virtqueue.c`; indices wrap at `IDX`. **`VirtioBlk`** adds the block layer, the
driver and the device. Each core has a call and a program counter; all calls
share one page for header, status and data. The device is external: it takes
requests in order and may take as long as it likes, so the driver may give up
(`timeouts` counts how often) while the device still works on the request.

**`Ext2`** is the file system's block and inode allocation. A block is a few
cells that hold file data or, in an indirect block, block numbers; block numbers
go through direct, single, double and triple indirection. An operation is
computed as a run: the disk and the counts in memory after each of its writes.
`CrashSpec` lets the machine stop between two of them. **`FlatFiles`** is what
a file promises: a sequence of cells.

**`Fds`** is the table of descriptors of each process. A table is a heap block
that lives from `malloc` to `free`, and entries that `realloc` added are not
initialised, so each may read as in use. Calls are atomic on one core. An access
outside a live table ends the behaviour (`crashed`). The file system's operations
may fail: `lseek` then counts from the size its descriptor has cached, and `open`
with O_TRUNC closes the descriptor again.

`MCSched`, `MCPmm`, `MCVmm`, `MCLiballoc` and `MCFds` instantiate these for TLC
(the others need no module for that), and the `...Proofs` modules hold the
theorems. Definitions with a suffix such as `Wakes_AnyOnly` are mutants: plausible
bugs that the property named in `PROJECT.json` must detect. They are used in no
specification.

## Runs that pass

| Run | Checks |
|---|---|
| `SchedSafety` | 3 slots, 3 page tables, all calls: `CurrentRuns` (user code runs only as a live process on its own page table), `TableSound` (types; no slot both dead and in use; a working directory for each process), `AspSound` (page tables allocated, unshared, not walked after being freed), `NoLostWakeup`, `OrphansHaveInit`, `WorkConserving` |
| `SchedLive` | 3 slots that spawn, wait and sleep, a clock of 2 ms: `NoStarvation`, every runnable process runs, and `SleepEnds`, no sleep lasts for ever |
| `KQueueRing` | 6 slots, a tail that counts to 3, reads and writes up to 4, writes within reads: `NeverAhead` (neither `cnt` nor what a read has left to copy exceeds the bytes there are, also after a count was lost), `FirstInOrder` (the k-th byte read is the k-th accepted, for k up to `TAIL_MOD`), `OverrunIsLate` (a read takes more than was asked for only by what came between its two looks at `cnt`) |
| `PmmSafety` | 4 maps of 10 to 16 frames, runs up to 3: `FramesAccounted` (no frame has two holders, none is lost) and `FailsOnlyWhenFull`, both until the startup blob is copied over bits of the bitmap, and `StartupPageKept` (nobody is handed the startup page; only the bitmap's own bits may change the blob) |
| `SmpBoot` | 2 APs, 2 tries, 3 later requests of any kind, interrupts wherever the flag allows: `AnswerIsOwn` (what a core finds in the request buffer answers its own request), `RunIsTaken` (the core `ap_run` chose in `kmain` takes the function), `LaunchFrame` (a launch abandons the idle loop or the wait of the first report, nothing else), `BootCompletes` and `RequestsAnswered` (unless a request was lost or the lock orphaned) |
| `VmmHeap` | 5 pages, 4 nodes, 4 frames, requests up to 3 pages: `ListTilesHeap` (the regions tile the heap, no node leaks), `PagesAccounted` (used regions are held ranges, mappings lie in them, frames are conserved), `FailsOnlyWithoutHole`, `RangesSpec` (implements `PageRanges`), `CallsReturn` (no walk goes on for ever) |
| `LiballocHeap` | 6 pages of 4 units, requests of 2, 4 and 8: `HeapSound` (types; tags tile their pages; blocks of callers do not overlap), `FreeOnce` (a block is free and listed once or belongs to a caller, and free neighbours are melted), `CompleteCounted`, `GrowsOnlyWhenFull`, `PageSourceKept` (pages are given back as they were taken) |
| `VirtioBlkDisk` | one core, 2 sectors, calls of up to 2, 3 timeouts: `QueueExact` (types; the free list has each descriptor not in a chain once; the driver lags behind the device by the requests it gave up on), `ServedRight` (until a request is given up on, a transfer that succeeds moved the right data, and the device meets only requests), `OnlyAskedFor` (until then a sector changes only to what the call under way writes there), `CallsReturn` |
| `Ext2Blocks` | 2 groups of 4 blocks, 2 inodes, writes of up to 2 cells: `BlocksExact` (types; no block in two places; the bitmap is the blocks reachable; no file shows what its blocks held before), `CountsExact`, `ShortOnlyWhenFull`, `FilesAreFlat` (implements `FlatFiles`) |
| `FdsTables` | 2 processes, 3 tables, 1 file: `TablesOwn` (no two processes share a table, none has a freed one), `OthersUntouched`, `DescriptorsKept` |

## Runs that find a disagreement

Each checks one sentence of a comment against the code, and TLC finds a behaviour
in which it is false. The quotes are in `PROJECT.json`.

| Run | What happens |
|---|---|
| `SchedSleepCut` | the death of a child ends its parent's sleep |
| `Ext2Holes` | a write past a hole fills the hole instead: the data comes back at another position |

### What the passing runs assume

Each of these assumptions is a constant, or the specification, of a passing run's
configuration. The code does not ensure it, and TLC finds the property violated
when it is changed.

| Run | Change | Violated | Code |
|---|---|---|---|
| `SchedSafety` | `InterpMayFail = TRUE` | `AspSound` | `load_program` frees the page table when the interpreter is missing and returns it with status 0 |
| `PmmSafety` | `U32 = 16` | `FramesAccounted` | frame addresses are a product of two `u32` and wrap at 4 GiB |
| `PmmSafety` | `Cores = {bsp, ap}` | `FramesAccounted` | `pmm_try_resv` tests and sets bits without a lock |
| `VirtioBlkDisk` | `Cores = {c1, c2}`, `SIZE = 6`, `IDX = 12` | `OnlyAskedFor` | `block_getdevid` copies the device with its lock, so calls of two cores share the page and a sector gets what the other call writes |
| `Ext2Blocks` | `SPECIFICATION CrashSpec` | `BlocksExact`, `FilesAreFlat` | an operation makes several block writes; there is no journal and no check at mount |

### Seen in the model, without a run

- SYS_WAIT(-1) marks its caller blocked and returns to it; `BlockedDoesNotRun`
  of `Sched` says otherwise and fails with two slots and `Calls = {"waitany"}`.
- After the last exit the core idles; the panic behind `scheduler_switch` in
  `end.c` is not reached (`PanicsWhenAllExit` fails under `FairSpec`).
- The deadline of a sleep that a child's death cut short stays in `wake_ms` and
  may end a later SYS_WAIT while its child lives (`wait.c:38`).
- A process preempted after SYS_WAIT(-1) has returned to it gets the `rax` of
  its user code overwritten when a child dies: `ctx` becomes `"clobbered"`.
- SYS_WAIT(-1) stores `proctbl[-1].code` instead of the child's code
  (`wait.c:52`, `SysWaitAnyDead`).
- After SYS_SETPWD `cwd` and `pwd[current_pid]` differ until another process has
  been switched to and back (`fs.c:126`).
- `ap_continue` leaves `smp_info[].status` at WAITING, so a later `ap_run` may
  pick a core that runs processes; the core refuses, and `ap_run` returns success (`apreq.c:42`,
  `HdlrRunRefused`). `RunIsTaken` is therefore about the run that `kmain` makes.
- A request that reaches an AP in its wait for the BSP leaves the lock of the
  request buffer held for ever, and a request to an AP whose APIC is still off is
  lost: boot may hang in both cases. Without either exception TLC refutes
  `BootCompletes`.
- "only safe to launch out of the idle loop" (`smp_main.c:145`) holds but for one
  window: an AP whose first report was answered and that has not looked at the
  answer yet is WAITING and is launched out of `send_bsp_request`. Without that
  case TLC refutes `LaunchFrame`.
- A byte written between `cnt`'s load and store in `kqueue_dequeue` is not
  counted, and a read may copy more than its caller has room for, by as much as
  `OverrunIsLate` says (`queue.c:52`, `queue.c:59`).
- In a queue of more than 256 bytes `tail` starts over at 0 while `head` goes on:
  from the 257th byte on reads return old bytes (`kqueue.h:8`).
- On a machine whose bitmap reaches the startup page (from 1 GiB on, if the
  memory below it is usable and no earlier entry has room) the reservation of that
  page fails unnoticed and the blob is copied over the bitmap (`pmm.c:112`,
  `init.c:47`). The third map of `PmmSafety` is such a machine.
- `load_program` does not look at what `vmm_casp` returned and the kernel stops
  (`loader.c:230`, `LoadNoAsp`).
- After a timeout the virtio disk never gets back in step: each later request
  takes the completion of an earlier one for its own (`QueueExact` states the
  lag, and `ServedRight` is about the time before the first timeout).
- `realloc` does not look at what `malloc` returned (`liballoc.c:545`).
- A failed write past the end of an ext2 file has already set its `i_size`.
- Where new descriptor entries are not initialised, `getnewfd` passes over those
  that read as in use (`fd.c:32`): a table grows earlier than it must, and the
  descriptors in use are kept all the same.

## Bounds

- `MAX_PROCESSES` is 2 or 3 instead of 255. Three slots allow a parent, a child
  and a stranger, and a pid that is given out again; the theorems hold for any
  number. In `SchedSafety` the only sleep is the yield `Durations = {0}`:
  deadlines are left to `SchedLive` and to the theorems. `SchedLive` has no
  exit, because page tables cannot be symmetric in a liveness check. Page tables are
  symmetric, as nothing but equality and membership in `live` is asked of them;
  so are the blocks that hold descriptor tables.
- `MaxMs` bounds the clock; a sleep whose deadline lies behind it is not started.
- A queue of six bytes whose tail counts to three stands for one of 512 bytes with
  a `u8 tail`; 14 bytes go twice round the buffer and four times through the
  tail's range. The theorems hold for every size.
- Frames of 2 bytes and bytes of 4 bits give bitmaps of several bytes and of
  more than one frame. The maps have a hole, a first entry that is too small
  for the bitmap, one that holds the startup page, a bitmap that reaches into it,
  and one without room.
- `Tries` is 2 instead of 100, and `MaxApi` bounds the later requests by 3. Three
  APs with one later request pass as well (111,105 states).
- `VmmHeap` has fewer frames than pages and fewer nodes than the list could need,
  so that both run out; a heap of 10 pages and 6 frames passes without
  `CallsReturn` too (3.6 million states). The theorems hold for any size.
- `LiballocHeap` has three size classes and a cache of one whole block per class
  (`MAXCOMPLETE`); a block of pages holds up to three tags, so that a free block
  has neighbours on both sides.
- `VirtioBlkDisk` has a queue of exactly one chain; `IDX = 6` lets indices wrap
  within a few requests. Timeouts go on beyond `MaxTimeouts`, but are no longer
  counted, and `QueueExact` then says nothing of the lag: it comes round to zero
  after `IDX` of them.
- `Ext2Blocks` has one direct pointer and two pointers per block, so a file of
  four blocks has single and double indirection and the disk is full before it
  reaches the triple one. `MaxGap = 0`: writes start inside the file or at its end;
  `Ext2Holes` starts them behind it.
- `FdsTables` grows tables by 2 instead of 10 and starts with one standard
  descriptor instead of four.
- Deadlock checking is off for `Pmm` (a machine without room for the bitmap
  panics), `SmpReq` (once the bounded number of requests is made, cores only
  spin or halt), `Liballoc` (after a fault) and `Fds` (after an undefined
  access). In `Sched` a panic is an explicit stuttering action.

## Fairness

`Sched`: the HPET keeps ticking (it is started again on every way out of
`scheduler_switch` and in the halt loop), the clock advances, handlers return,
and `scheduler_switch` ends its scan: weak fairness of `Tick`, `Clock`,
`SyscallExit` and `Switch`. Programs owe nothing: no fairness for calls.
`SmpReq`: cores do not stop, pending interrupts are taken once enabled, and a
core that spins on a lock that stays free takes it: weak fairness of each AP's
code, handler and lock acquisition, of the BSP's handler and of kmain.
`Vmm`: a call that walks the list goes on walking. `VirtioBlk`: a core that is in
a call goes on; its polling is bounded, so nothing is assumed of the device.

## Theorems

All proofs are checked by TLAPS, for every value of the constants that satisfies
the named assumptions.

- `SchedProofs`: the inductive invariant `IInv` joins the type invariant,
  `PwdKept`, `NoZombie`, `OrphansHaveInit` and `NoLostWakeup` with two facts that
  no property states: `HeldAsp` (what the core has loaded in each mode) and
  `WaitTargets` (what a process of each blocking reason waits for). Neither
  `NoLostWakeup` nor `OrphansHaveInit` is inductive without `NoZombie`: a slot
  that is dead and in use would be skipped by `reparent_children`. From `IInv`
  follow `CurrentAlwaysRuns`, `WakeupsAreNotLost`, `OrphansGoToInit`,
  `TableIsSound` and `NeverIdleWithWork`. `PageTablesSound` has an invariant of
  its own and assumes that interpreters can be loaded, without which it is false.
- `KQueueProofs`: for every size of queue, tail and request, with writes between
  any two accesses of a read, `CountIsNeverAhead`, `FirstBytesInOrder` and
  `OverrunsAreLate`. The invariant says where `head` and `tail` are in terms of
  the bytes written and taken, what the reader has in its register, and, as long
  as the writer cannot have gone round, which byte each slot holds. The only
  assumption is that the buffer is a multiple of what the tail counts, as the
  sizes the kernel uses are.
- `PmmProofs`: on one core and with every address below `U32`,
  `FramesAreAccounted` and `FailureMeansFull` hold for every memory map. The
  invariant ties each bit to the holders of its frame and says that a run found
  free is still free when it is set. Both assumptions are needed (table above).
  `StartupPageIsKept` needs the second only: it holds on any number of cores and
  for a bitmap under the blob, because the page's own bit is in the first
  frame of the bitmap, and that is under the blob only if the bitmap begins there.
- `SmpReqProofs`: for any number of cores, tries and later requests, with
  requests that interrupt an AP anywhere, `AnswersAreOwn`, `RunsAreTaken` and
  `LaunchesDropNoFrame`. The invariant `RInv` adds whose request is in the buffer
  (`BufferIsHolders`), that a core whose first report is not answered gets no
  function (`FreshUnknown`), which states go with which places in the code
  (`StateFollows`), and that no core has had a request before kmain's first
  (`BootQuiet`).
- `VmmProofs`: for every heap, pool of nodes,
  number of frames and sequence of calls, `ListAlwaysTilesHeap`,
  `PagesAreAccounted`, `FailsOnlyForLackOfRoom` and `ImplementsRanges`. The
  properties are not inductive: a list that tiles the heap may still have two
  nodes that point to the same one. `IInv` therefore says which node follows
  which (`Struct`), what the walk under way has at hand (`Control`, `Target`),
  that used regions are held ranges apart from the one being cut (`Account`,
  `HeldApart`, `Mapped`), and, for `FailsOnlyForLackOfRoom`, that free
  neighbours are merged except where the merge under way has yet to come
  (`Coalesced`) and that every node the search has passed was too small
  (`Passed`). The module goes from the lemmas on cutting and joining nodes and the
  list's part of `IInv` to the part on who has which pages, the frames, and the
  theorems.
- `LiballocProofs`: for every size of heap, page and tag, every number of lists
  and cached blocks, all request sizes and any sequence of calls,
  `HeapStaysSound`, `FreeMemoryOnce`, `WholesAreCounted`, `GrowsIfNoneFits` and
  `RangesGoBackWhole`, the last being that malloc uses its pages as `PageRanges`
  allows. None of the properties is inductive alone: `free` melts a tag with its
  neighbours through `left` and `right`, which is harmless only if those point
  to the tags that start and end where this one does, and a tag's `index` must
  name the list it is in at that moment, or `remove_tag` would take it out of
  another. The invariant `HeapInv` is their conjunction, with the tag of the
  `free` under way as the only one that is neither listed nor a caller's
  (`Owned`), and with the neighbours that it has already dealt with
  (`NeighboursDone`). Sizes and addresses are natural numbers: a request so
  large that `size + sizeof(struct boundary_tag)` wraps is outside the model.
- `VirtioBlkProofs`: with one core, for every queue size, width of the indices,
  disk and call, `QueueIsExact`, `RequestsAreServed` and `SectorsChangeAsAsked`.
  The invariant `DiskInv` says what the core's call has done so far (`CallInv`),
  that walking the free list meets every descriptor outside the chain under way
  once (`ListInv`), how far device and driver are apart on each index (`LagInv`),
  and, until the first timeout, what the shared page holds at each step of the
  transfer (`FirstInv`). That there is one core is needed: with two, TLC refutes
  `OnlyAskedFor` (table above). `MaxTimeouts < IDX` bounds the counter of the
  model, not the driver.
- `FdsProofs`: for any number of processes and however `malloc` places tables,
  `TablesAreOwn` and `OthersAreUntouched`, that is, no step of a process changes
  the descriptors of another that lives on. The invariant is `TablesOwn` with the
  types of the table pointers (`IInv`). `DescriptorsAreKept` needs to know the
  entries too (`FInv`): an entry that was handed out is marked in use, so no
  search finds it again, and entries that nobody wrote may read as in use but name
  no file.

`LiballocProofs` and `VmmProofs` take in the library's facts on finite sets by an
INSTANCE behind the lemmas that do without them: the time of every proof
obligation grows with what is stated before it. `Laws` in `LiballocProofs` is
what its lemmas need of the library; `LawsHold` proves it.

Only model-checked: the liveness properties (`NoStarvation`, `SleepEnds`,
`BootCompletes`, `RequestsAnswered`, `CallsReturn`), which need fairness and
ENABLED; the properties of `Ext2`, among them that it implements `FlatFiles`,
whose operators follow indirect blocks to a depth that depends on the data; and
the two disagreements.

## Not modelled

The definitions cover 3804 lines of 33 files, about 21% of the kernel's own
17700 lines under `src/src`. Most lines of the repository are elsewhere: the
vendored compiler, C library, lwIP and uACPI, the user programs, none of which
is this kernel. What is left of the kernel, and why:

- **Device register protocols** (ATA, AHCI, UHCI, e1000, virtio sound,
  display, serial, RTC, APIC, PCI, ACPI tables): sequences of port and memory
  accesses to hardware of which the code shows no more than the accesses. A model
  would have to invent the device.
- **Network rings**: `virtio_net.c` uses the ring of `Virtqueue`; the packets go
  to lwIP, which is vendored.
- **Library code, terminal, fonts, formatting, scan codes, ELF layout, auxv**:
  data without order.
- **Directories, links and unlink**: `unlink` and `rmdir` in `vfs.c` keep the
  inode that `vfs_resolve` returned as an error code and go on with inode 0, so
  nothing is ever removed and `ext2fs_rmino` is reached from the error path of
  `symlink` only; `rename` takes the old directory from the new name;
  `ext2fs_rmlink` clears `rec_len` of a block's first entry and later lookups in
  that block cannot get past it. A model of directories would show these again
  and again and nothing behind them.
- **ramfs, initramfs, mounts, path resolution, permissions, credentials**:
  sequential, without persistence; unit tests reach them.
- **I/O errors in ext2**: no write fails in `Ext2`. The code returns at once, with
  the writes before the failed one done, which is what `Crash` leaves behind.
  The last group of a disk is taken to be as long as the others. `has_sparse`
  tests every feature but the sparse one; the copies it would place are never
  read.
- **Cutting a region in the middle** (`vmm.c` 428-446): no caller in the kernel
  gives back the middle of a range. The code takes two nodes without claiming
  the first in between, so both would be the same node.
- **User ranges in the VMM**: `mmap(NULL)` searches the kernel's list for a range
  below the heap and never finds one (`InUserRange`); mapping at a given address
  changes page tables only.
- **Page tables**: which frame a page has, the levels and their reclamation.
- **Several cores in file calls**: the VMM's list, the VFS, ext2 and the
  descriptor tables have no lock, so `Vmm`, `Ext2` and `Fds` are about one core.
  Whether processes run on the other cores at all depends on `nextproc_core` and
  the dispatch loop of `smp_main.c`, which are not modelled: an AP that finds no
  process halts until some interrupt reaches it.
- **A writer of a byte queue on another core**: `klog_read` drains the log's queue
  without the lock that `kvprint` holds. `KQueue` has one core, on which a write
  within a read is an interrupt and runs to its end.
- **Interrupt handlers of virtio input**, whose ring is polled with the device's
  own interrupt enabled, and the kernel log, keyboard, mouse and entropy pool
  above their byte queues.
- **Framebuffers, sockets and devices behind a descriptor**: `close` frees a
  framebuffer that a child inherited and still uses; entries of these kinds are
  one kind, `Io`, in `Fds`.
- **Failure of `copy_fds`**: `new_process` ignores it, and the child starts with
  no table and the length of its slot's former one. `Fds` has the step; what the
  child does with it then ends the behaviour.
