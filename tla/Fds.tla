-------------------------------- MODULE Fds ---------------------------------
(***************************************************************************)
(* The descriptor tables of processes (src/src/drivers/storage/fd/fd.c),   *)
(* the calls on open files (src/src/drivers/storage/fs/vfs.c), and what    *)
(* creating, replacing and ending a process does to the tables.            *)
(*                                                                         *)
(* A table is a block of the kernel heap that lives from malloc to free;   *)
(* heap holds the live ones.  Entries of a block that malloc or realloc    *)
(* added are not initialised: each one may read as in use.  An access      *)
(* outside the block, or through a NULL pointer, is undefined and ends the *)
(* behaviour (crashed).  System calls are not preempted, so on one core    *)
(* each is one step.  Of a file only its size is kept, which an operation  *)
(* of a file system that fails leaves as it was; where a call returns then *)
(* with nothing changed there is no step.  A program uses the descriptors  *)
(* it was given.                                                           *)
(***************************************************************************)
EXTENDS Integers, Sequences, FiniteSetsExt

CONSTANTS
    MAX_PROCESSES,
    Tables,   \* the blocks malloc can place a table in
    NULL,
    Files,
    NSTD,     \* descriptors of the first process: 4
    GROW,     \* entries a table grows by: 10
    MaxSize,  \* bound on positions and sizes
    MaxOpen,  \* bound on the descriptors open on files
    MaxFds    \* bound on the length of a table

ASSUME FdsAssumption ==
    /\ {MAX_PROCESSES, NSTD, GROW} \subseteq Nat \ {0}
    /\ {MaxSize, MaxOpen, MaxFds} \subseteq Nat
    /\ NULL \notin Tables

VARIABLES
    live,     \* proctbl[].used
    fds,      \* proctbl[].fds
    nfds,     \* proctbl[].nfds
    heap,     \* the tables that are allocated
    size,     \* size of each file
    crashed

vars == <<live, fds, nfds, heap, size, crashed>>

Pids == 0 .. MAX_PROCESSES - 1

\* Entries: not in use, in use but never written, stdio, an open file.
Unused == [inuse |-> FALSE, kind |-> "none"]
Stale == [inuse |-> TRUE, kind |-> "none"]
Io == [inuse |-> TRUE, kind |-> "io"]
File(f, pos, cached) ==
    [inuse |-> TRUE, kind |-> "file", file |-> f, pos |-> pos, size |-> cached]

Uninitialised(k) == [1 .. k -> {Unused, Stale}]

Table(p) == IF fds[p] = NULL THEN <<>> ELSE heap[fds[p]]
Spare == Tables \ DOMAIN heap

\* The descriptors p was given and has not closed: i is descriptor i - 1.
Held(p) == {i \in DOMAIN Table(p) : i <= nfds[p] /\ Table(p)[i].kind # "none"}

OpenFiles == UNION {{<<p, i>> : i \in {j \in Held(p) : Table(p)[j].kind = "file"}}
                        : p \in live}

-----------------------------------------------------------------------------
(* fd.c                                                                    *)

\* The table, its length, and the descriptor that a call of getnewfd leaves.
Got(ents, n, fd) == [code |-> "ok", ents |-> ents, n |-> n, fd |-> fd]
NoMem == [code |-> "nomem"]
Crash == [code |-> "crash"]

\* The search of the first n entries of ents, and realloc when none is free.
\* (realloc does not survive a failed malloc.)
Search(ents, n, nleft, e) ==
    LET free == {i \in 1 .. n : i > Len(ents) \/ ~ents[i].inuse}
    IN  IF free = {}
        THEN {Crash} \cup
             {Got(SubSeq(ents, 1, n) \o <<e>> \o u, nleft + GROW, n + 1)
                : u \in IF nleft + GROW <= MaxFds THEN Uninitialised(GROW - 1) ELSE {}}
        ELSE {IF Min(free) > Len(ents) THEN Crash
              ELSE Got([ents EXCEPT ![Min(free)] = e], nleft, Min(free))}

\* The table once the descriptor is closed again.
Closed(o) == [o.ents EXCEPT ![o.fd] = Unused]

\* nfds is read before the first table is made, and is not read again.
getnewfd(p, e) ==
    IF fds[p] = NULL
    THEN {NoMem} \cup
         UNION {Search(u, nfds[p], nfds[p] + GROW, e)
                  : u \in IF nfds[p] + GROW <= MaxFds THEN Uninitialised(GROW) ELSE {}}
    ELSE Search(heap[fds[p]], nfds[p], nfds[p], e)

\* Where the table of p may be once it has the entries ents.
Homes(p, ents) ==
    IF fds[p] = NULL THEN Spare
    ELSE IF Len(ents) = Len(Table(p)) THEN {fds[p]} ELSE Spare \cup {fds[p]}

\* heap with the table of p now at t.
Moved(p, t, ents) ==
    [x \in (DOMAIN heap \ {fds[p]}) \cup {t} |-> IF x = t THEN ents ELSE heap[x]]

Store(p, t, ents, n) ==
    /\ fds' = [fds EXCEPT ![p] = t]
    /\ nfds' = [nfds EXCEPT ![p] = n]
    /\ heap' = Moved(p, t, ents)

SetEntry(p, i, e) == heap' = [heap EXCEPT ![fds[p]][i] = e]

\* getfd through a NULL table: the length of an earlier one may be left.
BadAccess(p) ==
    /\ fds[p] = NULL
    /\ nfds[p] > 0
    /\ crashed' = TRUE
    /\ UNCHANGED <<live, fds, nfds, heap, size>>

close(p, i) ==
    /\ SetEntry(p, i, Unused)
    /\ UNCHANGED <<live, fds, nfds, size, crashed>>

-----------------------------------------------------------------------------
(* vfs.c                                                                   *)

\* O_APPEND is looked at before O_TRUNC (cut), and only here.  If the file cannot
\* be truncated the descriptor is closed again.
open(p, f, append, cut) ==
    /\ Cardinality(OpenFiles) < MaxOpen
    /\ LET e == File(f, IF append THEN size[f] ELSE 0, IF cut THEN 0 ELSE size[f])
       IN  \E o \in getnewfd(p, e) :
             \/ /\ o.code = "crash"
                /\ crashed' = TRUE
                /\ UNCHANGED <<live, fds, nfds, heap, size>>
             \/ /\ o.code = "ok"
                /\ \E t \in Homes(p, o.ents) : Store(p, t, o.ents, o.n)
                /\ size' = IF cut THEN [size EXCEPT ![f] = 0] ELSE size
                /\ UNCHANGED <<live, crashed>>
             \/ /\ o.code = "ok"
                /\ cut
                /\ \E t \in Homes(p, Closed(o)) : Store(p, t, Closed(o), o.n)
                /\ UNCHANGED <<live, size, crashed>>

fsread(p, i) ==
    LET e == Table(p)[i]
    IN  /\ e.kind = "file"
        /\ e.pos < size[e.file]
        /\ SetEntry(p, i, [e EXCEPT !.pos = @ + 1])
        /\ UNCHANGED <<live, fds, nfds, size, crashed>>

fswrite(p, i) ==
    LET e == Table(p)[i]
        npos == e.pos + 1
    IN  /\ e.kind = "file"
        /\ npos <= MaxSize
        /\ size' = [size EXCEPT ![e.file] = Max({@, npos})]
        /\ SetEntry(p, i, [e EXCEPT !.pos = npos, !.size = Max({@, npos})])
        /\ UNCHANGED <<live, fds, nfds, crashed>>

\* The size that lseek counts from: the file's, or if its inode cannot be read
\* the one the descriptor has kept.
Refreshed(e) == {size[e.file], e.size}

lseek(p, i, whence, off) ==
    LET e == Table(p)[i]
    IN  /\ e.kind = "file"
        /\ \E cur \in Refreshed(e) :
             LET npos == off + (CASE whence = "set" -> 0
                                  [] whence = "cur" -> e.pos
                                  [] whence = "end" -> cur)
             IN  /\ npos <= MaxSize
                 /\ SetEntry(p, i, [e EXCEPT !.size = cur,
                                             !.pos = IF npos < 0 THEN @ ELSE npos])
        /\ UNCHANGED <<live, fds, nfds, size, crashed>>

trunc(p, i) ==
    LET e == Table(p)[i]
    IN  /\ e.kind = "file"
        /\ size' = [size EXCEPT ![e.file] = 0]
        /\ SetEntry(p, i, [e EXCEPT !.size = 0, !.pos = 0])
        /\ UNCHANGED <<live, fds, nfds, crashed>>

-----------------------------------------------------------------------------
(* Processes: loader.c, new_process.c, end.c                               *)

\* Mutant: the descriptor stays open.
Loaded_Open(p) == getnewfd(p, Io)

\* The table of p after the loader has read a program through a descriptor
\* of p, here like any other.  Every way out of loadexe_base closes it.
Loaded(p) ==
    {IF o.code = "ok" THEN [o EXCEPT !.ents = Closed(o)] ELSE o
        : o \in getnewfd(p, Io)}

\* The table of process c, made by p whose table has the n entries ents.
Inherited(c, ents, n) == IF c = 0 THEN [i \in 1 .. NSTD |-> Io] ELSE SubSeq(ents, 1, n)

\* Mutant: the child gets its parent's table.
copy_fds_Shared(t, h) == {t}

\* Where it may be, when the parent's is at t.
copy_fds(t, h) == Tables \ DOMAIN h

\* What slot c pointed to is not freed; nobody reads it any more.
NewTable(p, c, o, t) ==
    LET h == Moved(p, t, o.ents)
        ents == Inherited(c, o.ents, o.n)
    IN  \E u \in copy_fds(t, h) :
            /\ fds' = [fds EXCEPT ![p] = t, ![c] = u]
            /\ nfds' = [nfds EXCEPT ![p] = o.n, ![c] = Len(ents)]
            /\ heap' = [x \in DOMAIN h \cup {u} |->
                            IF x = u THEN ents ELSE IF x = fds[c] THEN <<>> ELSE h[x]]

\* Mutant: the last slot, in use or not.
FreeSlot_Last == {MAX_PROCESSES - 1}

\* The first slot of the process table that is not in use.
FreeSlot == {c \in Pids \ live : \A d \in Pids \ live : c <= d}

\* The result of copy_fds is not looked at, and a copy made before the
\* working directory could not be copied stays in the slot.
new_process(p) ==
    \E c \in FreeSlot, o \in Loaded(p) :
        \/ /\ o.code = "crash" \/ (o.code = "ok" /\ c # 0 /\ o.n > Len(o.ents))
           /\ crashed' = TRUE
           /\ UNCHANGED <<live, fds, nfds, heap, size>>
        \/ /\ o.code = "ok"
           /\ c # 0 => o.n <= Len(o.ents)
           /\ \E t \in Homes(p, o.ents) :
                \/ /\ NewTable(p, c, o, t)
                   /\ live' \in {live, live \cup {c}}
                \/ /\ Store(p, t, o.ents, o.n)
                   /\ live' \in {live} \cup (IF c = 0 THEN {} ELSE {live \cup {c}})
           /\ UNCHANGED <<size, crashed>>

kexecve(p) ==
    \E o \in Loaded(p) :
        \/ /\ o.code = "crash"
           /\ crashed' = TRUE
           /\ UNCHANGED <<live, fds, nfds, heap, size>>
        \/ /\ o.code = "ok"
           /\ \E t \in Homes(p, o.ents) : Store(p, t, o.ents, o.n)
           /\ UNCHANGED <<live, size, crashed>>

endproc_shared(p) ==
    /\ live' = live \ {p}
    /\ heap' = [x \in DOMAIN heap \ {fds[p]} |-> heap[x]]
    /\ fds' = [fds EXCEPT ![p] = NULL]
    /\ UNCHANGED <<nfds, size, crashed>>

sys_kill(p, q) == q \notin {0, p} /\ endproc_shared(q)

-----------------------------------------------------------------------------
\* new_process for init: the table of the first process.
Init ==
    \E t \in Tables :
        /\ live = {0}
        /\ fds = [p \in Pids |-> IF p = 0 THEN t ELSE NULL]
        /\ nfds = [p \in Pids |-> IF p = 0 THEN NSTD ELSE 0]
        /\ heap = [x \in {t} |-> [i \in 1 .. NSTD |-> Io]]
        /\ size = [f \in Files |-> 0]
        /\ crashed = FALSE

Opens(p) == \E f \in Files, append, cut \in BOOLEAN : open(p, f, append, cut)
Closes(p) == \E i \in Held(p) : close(p, i)
Reads(p) == \E i \in Held(p) : fsread(p, i)
Writes(p) == \E i \in Held(p) : fswrite(p, i)
Seeks(p) ==
    \E i \in Held(p), whence \in {"set", "cur", "end"}, off \in -1 .. 1 :
        lseek(p, i, whence, off)
Truncs(p) == \E i \in Held(p) : trunc(p, i)

\* A system call of p that does not end a process.
Call(p) ==
    \/ Opens(p) \/ Closes(p) \/ Reads(p) \/ Writes(p) \/ Seeks(p) \/ Truncs(p)
    \/ BadAccess(p) \/ new_process(p) \/ kexecve(p)

Next ==
    /\ ~crashed
    /\ \E p \in live :
        \/ Call(p)
        \/ endproc_shared(p)
        \/ \E q \in live : sys_kill(p, q)

Spec == Init /\ [][Next]_vars

-----------------------------------------------------------------------------
(* Properties.                                                             *)

\* No two slots of the process table, in use or not, have the same table, and
\* none has one that was freed: "the child gets its OWN copy of the table;
\* sharing the parent's pointer means the first exiting child frees it out
\* from under everyone still running" (new_process.c).
TablesOwn ==
    \A p \in Pids : fds[p] # NULL =>
        /\ fds[p] \in DOMAIN heap
        /\ \A q \in Pids \ {p} : fds[q] # fds[p]

OwnCallsOnly ==
    \A p \in live \cap live' :
        (Table(p)' = Table(p) /\ nfds'[p] = nfds[p]) \/ Call(p)

\* Only a process's own calls change its descriptors: creating, replacing or
\* ending other processes, and what those do with inherited descriptors,
\* their positions and the tables they grow, leaves them as they were.
OthersUntouched == [][OwnCallsOnly]_vars

\* Of a process that goes on, each descriptor stays unless this step closes
\* it, and none is added unless this step opens a file.
KeptUntilClosed ==
    \A p \in live \cap live' :
        /\ \A i \in Held(p) :
             \/ /\ i \in Held(p)'
                /\ Table(p)'[i].kind = Table(p)[i].kind
                /\ Table(p)[i].kind = "file" => Table(p)'[i].file = Table(p)[i].file
             \/ close(p, i)
        /\ Held(p)' \subseteq Held(p) \/ Opens(p)

\* A descriptor goes on naming its file until it is closed, whatever else its
\* process opens and however often the table moves; and a process gets a new
\* one only by opening a file: loading a program leaves none behind.
DescriptorsKept == [][KeptUntilClosed]_vars
=============================================================================
