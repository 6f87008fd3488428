----------------------------- MODULE FdsProofs ------------------------------
(***************************************************************************)
(* Every process has a descriptor table of its own, and its descriptors    *)
(* stay what they are until it closes them, whatever the number of         *)
(* processes and files and the size of tables, and however malloc places   *)
(* them.  The first part needs only where tables are (IInv), the second    *)
(* also what their entries are (FInv).                                     *)
(***************************************************************************)
EXTENDS Fds, TLAPS, WellFoundedInduction

\* Of the types, only what the pointers need.
Pointers ==
    /\ live \subseteq Pids
    /\ fds \in [Pids -> Tables \cup {NULL}]
    /\ DOMAIN nfds = Pids

IInv == Pointers /\ TablesOwn

\* What process q sees of its table does not change.
Same(q) == Table(q)' = Table(q) /\ nfds'[q] = nfds[q]

-----------------------------------------------------------------------------
(* What the steps do to the tables.                                        *)

\* The table of p stays where it is or goes to a block that was free.
LEMMA HomesAreOwn ==
    ASSUME IInv, NEW p \in Pids, NEW ents, NEW t \in Homes(p, ents)
    PROVE  /\ t \in Tables
           /\ t \in DOMAIN heap => t = fds[p]
           /\ \A q \in Pids \ {p} : fds[q] # t
BY FdsAssumption DEF IInv, Pointers, TablesOwn, Homes, Spare

\* A call that stores a table of p, or changes an entry in it.
Touches(p) ==
    /\ live' = live
    /\ \/ \E ents, t, n : t \in Homes(p, ents) /\ Store(p, t, ents, n)
       \/ \E i, e : SetEntry(p, i, e) /\ UNCHANGED <<fds, nfds>>
       \/ UNCHANGED <<fds, nfds, heap>>

\* The new table of a process created by p is in a block that was free.
Creates(p) ==
    \E c \in FreeSlot : \E o, t :
        /\ t \in Homes(p, o.ents)
        /\ live' \in {live, live \cup {c}}
        /\ NewTable(p, c, o, t) \/ Store(p, t, o.ents, o.n)

LEMMA CallEffect ==
    ASSUME NEW p \in live, Call(p)
    PROVE  Touches(p) \/ Creates(p)
<1>1. CASE Opens(p)
  BY <1>1, SMTT(30) DEF Opens, open, Touches
<1>2. CASE Closes(p) \/ Reads(p) \/ Writes(p) \/ Seeks(p) \/ Truncs(p)
  BY <1>2, ZenonT(60) DEF Closes, Reads, Writes, Seeks, Truncs, close, fsread, fswrite, lseek,
     trunc, Touches
<1>3. CASE BadAccess(p)
  BY <1>3 DEF BadAccess, Touches
<1>4. CASE new_process(p)
  BY <1>4, ZenonT(30) DEF new_process, Touches, Creates
<1>5. CASE kexecve(p)
  BY <1>5 DEF kexecve, Touches
<1> QED
  BY <1>1, <1>2, <1>3, <1>4, <1>5 DEF Call

-----------------------------------------------------------------------------
(* The invariant is inductive.                                             *)

LEMMA InitInv == Init => IInv
BY FdsAssumption DEF Init, IInv, Pointers, TablesOwn, Pids

LEMMA StoreKeeps ==
    ASSUME IInv, NEW p \in Pids, NEW ents, NEW t \in Homes(p, ents), NEW n,
           Store(p, t, ents, n)
    PROVE  /\ fds' \in [Pids -> Tables \cup {NULL}]
           /\ DOMAIN nfds' = Pids
           /\ TablesOwn'
           /\ \A q \in Pids \ {p} : Same(q)
<1>1. /\ t \in Tables
      /\ t \in DOMAIN heap => t = fds[p]
      /\ \A q \in Pids \ {p} : fds[q] # t
  BY HomesAreOwn
<1>2. /\ fds' = [fds EXCEPT ![p] = t]
      /\ heap' = [x \in (DOMAIN heap \ {fds[p]}) \cup {t} |->
                    IF x = t THEN ents ELSE heap[x]]
  BY DEF Store, Moved
<1>3. fds' \in [Pids -> Tables \cup {NULL}]
  BY <1>1, <1>2 DEF IInv, Pointers
<1>4. ASSUME NEW q \in Pids \ {p}
      PROVE  /\ fds'[q] = fds[q]
             /\ fds[q] # NULL => fds[q] \in DOMAIN heap' /\ heap'[fds[q]] = heap[fds[q]]
  BY <1>1, <1>2 DEF IInv, Pointers, TablesOwn
<1>5. fds'[p] = t /\ t \in DOMAIN heap'
  BY <1>1, <1>2 DEF IInv, Pointers
<1>6. TablesOwn'
  <2> SUFFICES ASSUME NEW q \in Pids, fds'[q] # NULL
               PROVE  /\ fds'[q] \in DOMAIN heap'
                      /\ \A r \in Pids \ {q} : fds'[r] # fds'[q]
    BY DEF TablesOwn
  <2>1. fds'[q] \in DOMAIN heap'
    BY <1>4, <1>5
  <2>2. ASSUME NEW r \in Pids \ {q} PROVE fds'[r] # fds'[q]
    BY <1>1, <1>4, <1>5 DEF IInv, TablesOwn
  <2> QED
    BY <2>1, <2>2
<1>7. DOMAIN nfds' = Pids /\ \A q \in Pids \ {p} : nfds'[q] = nfds[q]
  BY DEF Store, IInv, Pointers
<1>8. ASSUME NEW q \in Pids \ {p} PROVE Same(q)
  BY <1>4, <1>7 DEF Table, Same
<1> QED
  BY <1>3, <1>6, <1>7, <1>8

LEMMA TouchKeeps ==
    ASSUME IInv, NEW p \in live, Touches(p)
    PROVE  IInv' /\ \A q \in Pids \ {p} : Same(q)
<1>0. p \in Pids /\ live' \subseteq Pids
  BY DEF IInv, Pointers, Touches
<1>1. CASE \E ents, t, n : t \in Homes(p, ents) /\ Store(p, t, ents, n)
  <2> PICK ents, t, n : t \in Homes(p, ents) /\ Store(p, t, ents, n)
    BY <1>1
  <2> QED
    BY <1>0, StoreKeeps DEF IInv, Pointers
<1>2. CASE \E i, e : SetEntry(p, i, e) /\ UNCHANGED <<fds, nfds>>
  <2> PICK i, e : SetEntry(p, i, e) /\ UNCHANGED <<fds, nfds>>
    BY <1>2
  <2>1. DOMAIN heap' = DOMAIN heap /\ \A x \in DOMAIN heap \ {fds[p]} : heap'[x] = heap[x]
    BY DEF SetEntry
  <2>2. IInv'
    BY <1>0, <2>1 DEF IInv, Pointers, TablesOwn
  <2>3. \A q \in Pids \ {p} : Same(q)
    BY <1>0, <2>1 DEF IInv, Pointers, TablesOwn, Table, Same
  <2> QED
    BY <2>2, <2>3
<1>3. CASE UNCHANGED <<fds, nfds, heap>>
  BY <1>0, <1>3 DEF IInv, Pointers, TablesOwn, Table, Same
<1> QED
  BY <1>1, <1>2, <1>3 DEF Touches

LEMMA CreateKeeps ==
    ASSUME IInv, NEW p \in live, Creates(p)
    PROVE  IInv' /\ \A q \in live \ {p} : Same(q)
<1> PICK c \in FreeSlot : \E o, t :
        /\ t \in Homes(p, o.ents)
        /\ live' \in {live, live \cup {c}}
        /\ NewTable(p, c, o, t) \/ Store(p, t, o.ents, o.n)
  BY DEF Creates
<1> PICK o, t :
        /\ t \in Homes(p, o.ents)
        /\ live' \in {live, live \cup {c}}
        /\ NewTable(p, c, o, t) \/ Store(p, t, o.ents, o.n)
  OBVIOUS
<1>0. /\ p \in Pids /\ c \in Pids \ live /\ live \subseteq Pids
      /\ live' \subseteq Pids
  BY DEF IInv, Pointers, FreeSlot
<1>1. CASE Store(p, t, o.ents, o.n)
  BY <1>0, <1>1, StoreKeeps DEF IInv, Pointers
<1>2. CASE NewTable(p, c, o, t)
  <2>1. /\ t \in Tables
        /\ t \in DOMAIN heap => t = fds[p]
        /\ \A q \in Pids \ {p} : fds[q] # t
    BY <1>0, HomesAreOwn
  <2> DEFINE D == (DOMAIN heap \ {fds[p]}) \cup {t}
             h == Moved(p, t, o.ents)
             ents == Inherited(c, o.ents, o.n)
  <2>2. DOMAIN h = D /\ \A x \in D \ {t} : h[x] = heap[x]
    BY DEF Moved
  <2>3. PICK u \in Tables \ DOMAIN h :
          /\ fds' = [fds EXCEPT ![p] = t, ![c] = u]
          /\ heap' = [x \in DOMAIN h \cup {u} |->
                        IF x = u THEN ents ELSE IF x = fds[c] THEN <<>> ELSE h[x]]
    BY <1>2, ZenonT(30) DEF NewTable, copy_fds
  <2> HIDE DEF h, ents
  <2>4. fds' \in [Pids -> Tables \cup {NULL}]
    BY <1>0, <2>1, <2>3 DEF IInv, Pointers
  <2>5. fds'[c] = u /\ u \in DOMAIN heap' /\ u \notin D
    BY <1>0, <2>2, <2>3 DEF IInv, Pointers
  <2>6. fds'[p] = t /\ t \in DOMAIN heap' /\ t \in D
    BY <1>0, <2>2, <2>3 DEF IInv, Pointers
  <2>7. ASSUME NEW q \in Pids \ {p, c}
        PROVE  /\ fds'[q] = fds[q]
               /\ fds[q] # NULL =>
                    fds[q] \in D /\ fds[q] \in DOMAIN heap' /\ heap'[fds[q]] = heap[fds[q]]
    <3>1. fds'[q] = fds[q]
      BY <1>0, <2>3 DEF IInv, Pointers
    <3>2. ASSUME fds[q] # NULL PROVE fds[q] \in D \ {t, u} /\ fds[q] # fds[c]
      BY <1>0, <2>1, <2>2, <2>3, <3>2 DEF IInv, TablesOwn
    <3> QED
      BY <2>2, <2>3, <3>1, <3>2
  <2>8. TablesOwn'
    <3> HIDE DEF D
    <3> SUFFICES ASSUME NEW q \in Pids, fds'[q] # NULL
                 PROVE  /\ fds'[q] \in DOMAIN heap'
                        /\ \A r \in Pids \ {q} : fds'[r] # fds'[q]
      BY DEF TablesOwn
    <3>1. fds'[q] \in DOMAIN heap'
      BY <2>5, <2>6, <2>7
    <3>2. ASSUME NEW r \in Pids \ {q} PROVE fds'[r] # fds'[q]
      <4>1. CASE q = c
        BY <1>0, <4>1, <2>5, <2>6, <2>7, FdsAssumption
      <4>2. CASE r = c
        BY <1>0, <4>2, <2>5, <2>6, <2>7, FdsAssumption
      <4>3. CASE q # c /\ r # c
        BY <1>0, <4>3, <2>1, <2>6, <2>7 DEF IInv, TablesOwn
      <4> QED
        BY <4>1, <4>2, <4>3
    <3> QED
      BY <3>1, <3>2
  <2>9. DOMAIN nfds' = Pids /\ \A q \in Pids \ {p, c} : nfds'[q] = nfds[q]
    BY <1>2 DEF NewTable, IInv, Pointers
  <2>10. ASSUME NEW q \in live \ {p} PROVE Same(q)
    BY <1>0, <2>7, <2>9 DEF Table, Same
  <2> QED
    BY <1>0, <2>4, <2>8, <2>9, <2>10 DEF IInv, Pointers
<1> QED
  BY <1>1, <1>2

LEMMA EndKeeps ==
    ASSUME IInv, NEW p \in Pids, endproc_shared(p)
    PROVE  IInv' /\ \A q \in Pids \ {p} : Same(q)
<1>1. /\ fds' = [fds EXCEPT ![p] = NULL]
      /\ DOMAIN heap' = DOMAIN heap \ {fds[p]}
      /\ \A x \in DOMAIN heap \ {fds[p]} : heap'[x] = heap[x]
      /\ live' \subseteq live
      /\ nfds' = nfds
  BY DEF endproc_shared
<1>2. IInv'
  BY <1>1 DEF IInv, Pointers, TablesOwn
<1>3. \A q \in Pids \ {p} : Same(q)
  BY <1>1 DEF IInv, Pointers, TablesOwn, Table, Same
<1> QED
  BY <1>2, <1>3

LEMMA NextKeeps ==
    ASSUME IInv, [Next]_vars
    PROVE  /\ IInv'
           /\ \A q \in live \cap live' : Same(q) \/ Call(q)
<1>1. CASE UNCHANGED vars
  BY <1>1 DEF vars, IInv, Pointers, TablesOwn, Table, Same
<1>2. ASSUME NEW p \in live, Call(p)
      PROVE  IInv' /\ \A q \in live \cap live' : Same(q) \/ Call(q)
  <2>1. \A q \in live \ {p} : q \in Pids \ {p}
    BY DEF IInv, Pointers
  <2>2. IInv' /\ \A q \in live \ {p} : Same(q)
    BY <1>2, <2>1, CallEffect, TouchKeeps, CreateKeeps
  <2> QED
    BY <1>2, <2>2
<1>3. ASSUME NEW p \in live, endproc_shared(p)
      PROVE  IInv' /\ \A q \in live \cap live' : Same(q)
  <2>1. p \in Pids /\ \A q \in live \cap live' : q \in Pids \ {p}
    BY <1>3 DEF IInv, Pointers, endproc_shared
  <2> QED
    BY <1>3, <2>1, EndKeeps
<1>4. CASE Next
  BY <1>2, <1>3, <1>4 DEF Next, sys_kill
<1> QED
  BY <1>1, <1>4

-----------------------------------------------------------------------------
(* What the entries of a table are.                                        *)

OpenEntries == [inuse : {TRUE}, kind : {"file"}, file : Files, pos : Nat, size : Nat]

Entries == {Unused, Stale, Io} \cup OpenEntries

Typed ==
    /\ nfds \in [Pids -> Nat]
    /\ size \in [Files -> Nat]
    /\ \A t \in DOMAIN heap : heap[t] \in Seq(Entries)

FInv == IInv /\ Typed

\* An entry that is handed out is in use: the search does not find it.
LEMMA EntryShape ==
    ASSUME NEW e \in Entries
    PROVE  /\ e.kind # "none" => e.inuse
           /\ e.kind = "file" => e \in OpenEntries
           /\ e \in OpenEntries =>
                e.kind = "file" /\ e.file \in Files /\ e.pos \in Nat /\ e.size \in Nat
<1>1. CASE e \in {Unused, Stale, Io}
  <2>1. /\ e.kind # "none" => e.inuse
        /\ e.kind # "file"
    BY <1>1 DEF Unused, Stale, Io
  <2> QED
    BY <2>1 DEF OpenEntries
<1>2. CASE e \in OpenEntries
  BY <1>2 DEF OpenEntries
<1> QED
  BY <1>1, <1>2 DEF Entries

LEMMA Blank ==
    ASSUME NEW k \in Nat, NEW u \in Uninitialised(k)
    PROVE  /\ u \in Seq(Entries) /\ Len(u) = k
           /\ \A i \in 1 .. k : u[i].kind = "none"
<1>1. Unused \in Entries /\ Stale \in Entries
  BY DEF Entries
<1>2. Unused.kind = "none" /\ Stale.kind = "none"
  BY DEF Unused, Stale
<1> QED
  BY <1>1, <1>2 DEF Uninitialised

LEMMA LeastNat ==
    ASSUME NEW T \in SUBSET Nat, T # {}
    PROVE  Min(T) \in T
<1>1. PICK x \in T : \A y \in T : ~(<<y, x>> \in OpToRel(<, Nat))
  BY WFMin, NatLessThanWellFounded, Zenon
<1>2. \A y \in T : ~(y < x)
  BY <1>1, Zenon DEF OpToRel
<1>3. \A y \in T : x =< y
  BY <1>2
<1> QED
  BY <1>3 DEF Min

\* The table ents of length n, where fd is the only descriptor p did not hold.
Adds(p, ents, n, fd) ==
    /\ ents \in Seq(Entries) /\ n \in Nat /\ fd \in DOMAIN ents
    /\ \A i \in Held(p) :
         i \in DOMAIN ents /\ i <= n /\ i # fd /\ ents[i] = Table(p)[i]
    /\ \A i \in DOMAIN ents :
         i # fd /\ i <= n /\ ents[i].kind # "none" => i \in Held(p)

\* The same of one search.
Finds(ents, n, nleft, o) ==
    /\ o = Got(o.ents, o.n, o.fd)
    /\ o.ents \in Seq(Entries) /\ o.n \in Nat /\ o.fd \in DOMAIN o.ents
    /\ \A i \in DOMAIN ents : i <= n /\ ents[i].kind # "none" =>
         i \in DOMAIN o.ents /\ i <= o.n /\ i # o.fd /\ o.ents[i] = ents[i]
    /\ \A i \in DOMAIN o.ents : i # o.fd /\ o.ents[i].kind # "none" =>
         /\ i \in DOMAIN ents /\ o.ents[i] = ents[i]
         /\ o.n = nleft \/ i <= n

LEMMA SearchFinds ==
    ASSUME NEW ents \in Seq(Entries), NEW n \in Nat, NEW nleft \in Nat, n <= nleft,
           NEW e \in Entries, NEW o \in Search(ents, n, nleft, e), o.code = "ok"
    PROVE  Finds(ents, n, nleft, o)
<1> DEFINE free == {i \in 1 .. n : i > Len(ents) \/ ~ents[i].inuse}
<1>0. GROW \in Nat \ {0}
  BY FdsAssumption
<1>1. CASE free = {}
  <2>1. o # Crash
    BY DEF Crash
  <2>2. PICK u \in Uninitialised(GROW - 1) :
          o = Got(SubSeq(ents, 1, n) \o <<e>> \o u, nleft + GROW, n + 1)
    BY <1>1, <2>1 DEF Search
  <2>3. n <= Len(ents)
    <3>1. n > Len(ents) => n \in free
      OBVIOUS
    <3>2. ~(n > Len(ents))
      <4> HIDE DEF free
      <4> QED
        BY <1>1, <3>1
    <3> QED
      BY <3>2
  <2>4. /\ u \in Seq(Entries) /\ Len(u) = GROW - 1
        /\ \A i \in 1 .. GROW - 1 : u[i].kind = "none"
    BY <1>0, Blank
  <2> DEFINE s == SubSeq(ents, 1, n)
             r == s \o <<e>> \o u
  <2>5. s \in Seq(Entries) /\ Len(s) = n /\ \A i \in 1 .. n : s[i] = ents[i]
    BY <2>3
  <2> HIDE DEF s
  <2>6. /\ r \in Seq(Entries) /\ Len(r) = n + GROW
        /\ \A i \in 1 .. n : r[i] = ents[i]
        /\ \A i \in n + 2 .. n + GROW : r[i].kind = "none"
    <3> DEFINE q == s \o <<e>>
    <3>0. q \in Seq(Entries) /\ Len(q) = n + 1 /\ \A i \in 1 .. n : q[i] = ents[i]
      BY <2>5
    <3> HIDE DEF q
    <3>a. r = q \o u
      BY DEF q
    <3> HIDE DEF r
    <3>1. r \in Seq(Entries) /\ Len(r) = n + GROW
      <4>1. q \o u \in Seq(Entries) /\ Len(q \o u) = Len(q) + Len(u)
        <5>1. q \in Seq(Entries) /\ u \in Seq(Entries)
          BY <2>4, <3>0
        <5> QED
          BY <5>1
      <4> QED
        BY <1>0, <2>4, <3>0, <3>a, <4>1
    <3>2. \A i \in 1 .. n : r[i] = ents[i]
      BY <1>0, <2>4, <3>0, <3>a
    <3>3. ASSUME NEW i \in n + 2 .. n + GROW PROVE r[i].kind = "none"
      <4>1. r[i] = u[i - (n + 1)] /\ i - (n + 1) \in 1 .. GROW - 1
        BY <1>0, <2>4, <3>0, <3>a
      <4> QED
        BY <2>4, <4>1
    <3> QED
      BY <3>1, <3>2, <3>3
  <2>7. o.ents = r /\ o.n = nleft + GROW /\ o.fd = n + 1 /\ o = Got(o.ents, o.n, o.fd)
    BY <2>2 DEF Got, s
  <2> HIDE DEF r
  <2> QED
    BY <1>0, <2>3, <2>6, <2>7 DEF Finds
<1>2. CASE free # {}
  <2>1. Min(free) \in free
    <3>1. free \in SUBSET Nat
      OBVIOUS
    <3> HIDE DEF free
    <3> QED
      BY <1>2, <3>1, LeastNat
  <2>2. o = IF Min(free) > Len(ents) THEN Crash
            ELSE Got([ents EXCEPT ![Min(free)] = e], nleft, Min(free))
    BY <1>2 DEF Search
  <2> DEFINE m == Min(free)
  <2>3. m \in 1 .. n /\ (m > Len(ents) \/ ~ents[m].inuse)
    BY <2>1
  <2>4. o # Crash
    BY DEF Crash
  <2> HIDE DEF m
  <2>5. m \in DOMAIN ents /\ ~ents[m].inuse
    BY <2>2, <2>3, <2>4 DEF m
  <2>6. o.ents = [ents EXCEPT ![m] = e] /\ o.n = nleft /\ o.fd = m /\ o = Got(o.ents, o.n, o.fd)
    BY <2>2, <2>4 DEF Got, m
  <2>7. ents[m].kind = "none"
    BY <2>5, EntryShape
  <2> QED
    BY <2>5, <2>6, <2>7 DEF Finds
<1> QED
  BY <1>1, <1>2

LEMMA GetAdds ==
    ASSUME FInv, NEW p \in Pids, NEW e \in Entries, NEW o \in getnewfd(p, e),
           o.code = "ok"
    PROVE  o = Got(o.ents, o.n, o.fd) /\ Adds(p, o.ents, o.n, o.fd)
<1>0. GROW \in Nat /\ nfds[p] \in Nat
  BY FdsAssumption DEF FInv, Typed
<1>1. CASE fds[p] = NULL
  <2>1. o # NoMem
    BY DEF NoMem
  <2>2. PICK u \in Uninitialised(GROW) : o \in Search(u, nfds[p], nfds[p] + GROW, e)
    BY <1>1, <2>1 DEF getnewfd
  <2>3. /\ u \in Seq(Entries) /\ DOMAIN u = 1 .. GROW
        /\ \A i \in 1 .. GROW : u[i].kind = "none"
    BY <1>0, <2>2, Blank
  <2>4. Finds(u, nfds[p], nfds[p] + GROW, o)
    BY <1>0, <2>2, <2>3, SearchFinds
  <2>5. Held(p) = {}
    BY <1>1 DEF Held, Table
  <2> QED
    BY <2>3, <2>4, <2>5 DEF Finds, Adds
<1>2. CASE fds[p] # NULL
  <2>1. /\ Table(p) = heap[fds[p]] /\ Table(p) \in Seq(Entries)
        /\ o \in Search(Table(p), nfds[p], nfds[p], e)
    BY <1>2 DEF getnewfd, Table, FInv, Typed, IInv, TablesOwn
  <2>2. Finds(Table(p), nfds[p], nfds[p], o)
    BY <1>0, <2>1, SearchFinds
  <2> QED
    BY <1>0, <2>2 DEF Finds, Adds, Held
<1> QED
  BY <1>1, <1>2

\* The table ents of length n, with the descriptors of p and no other.
Leaves(p, ents, n) ==
    /\ ents \in Seq(Entries) /\ n \in Nat
    /\ \A i \in Held(p) : i \in DOMAIN ents /\ i <= n /\ ents[i] = Table(p)[i]
    /\ \A i \in DOMAIN ents : i <= n /\ ents[i].kind # "none" => i \in Held(p)

\* A descriptor that is closed again leaves the others.
LEMMA ClosedLeaves ==
    ASSUME FInv, NEW p \in Pids, NEW e \in Entries, NEW o \in getnewfd(p, e),
           o.code = "ok"
    PROVE  Leaves(p, Closed(o), o.n)
<1>1. Unused \in Entries /\ Unused.kind = "none"
  BY DEF Entries, Unused
<1>2. Adds(p, o.ents, o.n, o.fd)
  BY GetAdds
<1> QED
  BY <1>1, <1>2 DEF Adds, Leaves, Closed

LEMMA LoadLeaves ==
    ASSUME FInv, NEW p \in Pids, NEW o \in Loaded(p), o.code = "ok"
    PROVE  Leaves(p, o.ents, o.n)
<1>1. PICK g \in getnewfd(p, Io) :
        o = IF g.code = "ok" THEN [g EXCEPT !.ents = Closed(g)] ELSE g
  BY DEF Loaded
<1>2. g.code = "ok"
  BY <1>1
<1>3. Io \in Entries
  BY DEF Entries
<1>4. g = Got(g.ents, g.n, g.fd) /\ Leaves(p, Closed(g), g.n)
  BY <1>2, <1>3, GetAdds, ClosedLeaves
<1>5. o.ents = Closed(g) /\ o.n = g.n
  BY <1>1, <1>2, <1>4 DEF Got
<1> QED
  BY <1>4, <1>5

-----------------------------------------------------------------------------
(* What the calls of a process do to its own descriptors.                  *)

\* The descriptors of p in S still name what they named.
Keep(p, S) ==
    \A i \in S :
        /\ i \in Held(p)'
        /\ Table(p)'[i].kind = Table(p)[i].kind
        /\ Table(p)[i].kind = "file" => Table(p)'[i].file = Table(p)[i].file

LEMMA InitTyped == Init => Typed
<1> SUFFICES ASSUME Init PROVE Typed
  OBVIOUS
<1>1. Io \in Entries /\ NSTD \in Nat
  BY FdsAssumption DEF Entries
<1>2. [i \in 1 .. NSTD |-> Io] \in Seq(Entries)
  BY <1>1
<1> QED
  BY <1>1, <1>2 DEF Init, Typed, Pids

LEMMA SetEffect ==
    ASSUME FInv, NEW p \in Pids, NEW i \in Held(p), NEW e \in Entries,
           SetEntry(p, i, e), UNCHANGED <<fds, nfds>>
    PROVE  /\ \A t \in DOMAIN heap' : heap'[t] \in Seq(Entries)
           /\ Table(p)' = [Table(p) EXCEPT ![i] = e]
           /\ Table(p) \in Seq(Entries) /\ i \in DOMAIN Table(p)
           /\ nfds[p] \in Nat
<1>1. /\ fds[p] # NULL /\ fds[p] \in DOMAIN heap /\ i \in DOMAIN heap[fds[p]]
      /\ Table(p) = heap[fds[p]]
  BY DEF Held, Table, FInv, IInv, TablesOwn
<1>2. heap' = [heap EXCEPT ![fds[p]] = [heap[fds[p]] EXCEPT ![i] = e]]
  BY DEF SetEntry
<1>3. \A t \in DOMAIN heap : heap[t] \in Seq(Entries)
  BY DEF FInv, Typed
<1>4. [heap[fds[p]] EXCEPT ![i] = e] \in Seq(Entries)
  BY <1>1, <1>3
<1> QED
  BY <1>1, <1>2, <1>3, <1>4 DEF Table, FInv, Typed

\* Reading, writing and seeking replace one entry by another of its file.
LEMMA MoveKeeps ==
    ASSUME FInv, NEW p \in Pids, NEW i \in Held(p), Table(p)[i].kind = "file",
           NEW e \in OpenEntries, e.file = Table(p)[i].file,
           SetEntry(p, i, e), UNCHANGED <<fds, nfds>>, size' \in [Files -> Nat]
    PROVE  /\ Typed' /\ Keep(p, Held(p)) /\ Held(p)' \subseteq Held(p)
           /\ Table(p)'[i] = e
<1>1. e \in Entries /\ e.kind = "file"
  BY EntryShape DEF Entries
<1>2. /\ \A t \in DOMAIN heap' : heap'[t] \in Seq(Entries)
      /\ Table(p)' = [Table(p) EXCEPT ![i] = e]
      /\ Table(p) \in Seq(Entries) /\ i \in DOMAIN Table(p)
      /\ nfds[p] \in Nat
  BY <1>1, SetEffect
<1>3. Typed'
  BY <1>2 DEF FInv, Typed
<1>4. Held(p)' = Held(p)
  BY <1>1, <1>2 DEF Held
<1> QED
  BY <1>1, <1>2, <1>3, <1>4 DEF Keep, Held

LEMMA CloseKeeps ==
    ASSUME FInv, NEW p \in Pids, NEW i \in Held(p), close(p, i)
    PROVE  Typed' /\ Keep(p, Held(p) \ {i}) /\ Held(p)' \subseteq Held(p)
<1>1. Unused \in Entries /\ Unused.kind = "none"
  BY DEF Entries, Unused
<1>2. /\ \A t \in DOMAIN heap' : heap'[t] \in Seq(Entries)
      /\ Table(p)' = [Table(p) EXCEPT ![i] = Unused]
      /\ Table(p) \in Seq(Entries) /\ i \in DOMAIN Table(p)
      /\ nfds[p] \in Nat
  BY <1>1, SetEffect DEF close
<1>3. Typed'
  BY <1>2 DEF close, FInv, Typed
<1>4. Held(p)' = Held(p) \ {i}
  BY <1>1, <1>2 DEF close, Held
<1> QED
  BY <1>2, <1>3, <1>4 DEF Keep, Held

LEMMA ReadKeeps ==
    ASSUME FInv, NEW p \in Pids, NEW i \in Held(p),
           fsread(p, i) \/ fswrite(p, i)
    PROVE  Typed' /\ Keep(p, Held(p)) /\ Held(p)' \subseteq Held(p)
<1> DEFINE e == Table(p)[i]
<1>0. e \in Entries
  BY DEF Held, Table, FInv, Typed, IInv, TablesOwn
<1>1. e \in Entries /\ e.kind = "file"
  BY <1>0 DEF fsread, fswrite
<1>2. e \in OpenEntries /\ e.file \in Files /\ e.pos \in Nat /\ e.size \in Nat
  BY <1>1, EntryShape
<1>3. size \in [Files -> Nat]
  BY DEF FInv, Typed
<1>4. ASSUME NEW x \in Nat, NEW y \in Nat PROVE Max({x, y}) \in Nat
  <2>1. \E z \in {x, y} : \A w \in {x, y} : z >= w
    OBVIOUS
  <2> QED
    BY <2>1 DEF Max
<1>5. CASE fsread(p, i)
  <2> DEFINE n == e.pos + 1
             g == [e EXCEPT !.pos = n]
  <2>1. SetEntry(p, i, g) /\ size' = size /\ UNCHANGED <<fds, nfds>>
    BY <1>5 DEF fsread
  <2>2. n \in Nat
    BY <1>2
  <2>3. g \in OpenEntries /\ g.file = e.file
    <3> HIDE DEF n, e
    <3> QED
      BY <1>2, <2>2 DEF OpenEntries
  <2> HIDE DEF n, g
  <2> QED
    BY <1>1, <1>3, <2>1, <2>3, MoveKeeps
<1>6. CASE fswrite(p, i)
  <2> DEFINE n == e.pos + 1
             m == Max({e.size, n})
             g == [e EXCEPT !.pos = n, !.size = m]
  <2>1. n \in Nat /\ m \in Nat
    BY <1>2, <1>4
  <2>2. size' = [size EXCEPT ![e.file] = Max({size[e.file], n})] /\ UNCHANGED <<fds, nfds>>
    BY <1>6 DEF fswrite
  <2>3. SetEntry(p, i, g)
    BY <1>6 DEF fswrite
  <2>4. g \in OpenEntries /\ g.file = e.file
    <3> HIDE DEF n, m, e
    <3> QED
      BY <1>2, <2>1 DEF OpenEntries
  <2>5. size' \in [Files -> Nat]
    BY <1>2, <1>3, <1>4, <2>1, <2>2
  <2> HIDE DEF n, m, g
  <2> QED
    BY <1>1, <2>2, <2>3, <2>4, <2>5, MoveKeeps
<1> QED
  BY <1>5, <1>6

LEMMA SeekKeeps ==
    ASSUME FInv, NEW p \in Pids, NEW i \in Held(p),
           NEW whence \in {"set", "cur", "end"}, NEW off \in -1 .. 1,
           lseek(p, i, whence, off)
    PROVE  Typed' /\ Keep(p, Held(p)) /\ Held(p)' \subseteq Held(p)
<1> DEFINE e == Table(p)[i]
           npos(cur) == off + (CASE whence = "set" -> 0
                                 [] whence = "cur" -> e.pos
                                 [] whence = "end" -> cur)
           pos(cur) == IF npos(cur) < 0 THEN e.pos ELSE npos(cur)
           g(cur) == [e EXCEPT !.size = cur, !.pos = pos(cur)]
<1>1. e \in Entries /\ e.kind = "file"
  BY DEF Held, Table, FInv, Typed, IInv, TablesOwn, lseek
<1>2. e \in OpenEntries /\ e.file \in Files /\ e.pos \in Nat /\ e.size \in Nat
  BY <1>1, EntryShape
<1>3. PICK cur \in {size[e.file], e.size} :
        SetEntry(p, i, g(cur)) /\ UNCHANGED <<fds, nfds, size>>
  BY DEF lseek, Refreshed
<1>4. size \in [Files -> Nat] /\ cur \in Nat
  BY <1>2, <1>3 DEF FInv, Typed
<1>5. pos(cur) \in Nat
  <2> HIDE DEF e
  <2>1. CASE whence = "set"
    BY <1>2, <1>4, <2>1
  <2>2. CASE whence = "cur"
    BY <1>2, <1>4, <2>2
  <2>3. CASE whence = "end"
    BY <1>2, <1>4, <2>3
  <2> QED
    BY <2>1, <2>2, <2>3
<1>6. g(cur) \in OpenEntries /\ g(cur).file = e.file
  <2> HIDE DEF pos, e
  <2> QED
    BY <1>2, <1>4, <1>5 DEF OpenEntries
<1>7. size' \in [Files -> Nat] /\ UNCHANGED <<fds, nfds>>
  BY <1>3, <1>4
<1> HIDE DEF g, pos, npos
<1> QED
  BY <1>1, <1>3, <1>6, <1>7, MoveKeeps

LEMMA TruncKeeps ==
    ASSUME FInv, NEW p \in Pids, NEW i \in Held(p), trunc(p, i)
    PROVE  Typed' /\ Keep(p, Held(p)) /\ Held(p)' \subseteq Held(p)
<1> DEFINE e == Table(p)[i]
           g == [e EXCEPT !.size = 0, !.pos = 0]
<1>1. e \in Entries /\ e.kind = "file"
  BY DEF Held, Table, FInv, Typed, IInv, TablesOwn, trunc
<1>2. e \in OpenEntries /\ e.file \in Files
  BY <1>1, EntryShape
<1>3. SetEntry(p, i, g) /\ UNCHANGED <<fds, nfds>> /\ size' \in [Files -> Nat]
  BY <1>2 DEF trunc, FInv, Typed
<1>4. g \in OpenEntries /\ g.file = e.file
  <2> HIDE DEF e
  <2> QED
    BY <1>2 DEF OpenEntries
<1> HIDE DEF g
<1> QED
  BY <1>1, <1>3, <1>4, MoveKeeps

LEMMA StoreEffect ==
    ASSUME FInv, NEW p \in Pids, NEW ents \in Seq(Entries), NEW n \in Nat,
           NEW t \in Homes(p, ents), Store(p, t, ents, n), size' \in [Files -> Nat]
    PROVE  Typed' /\ Table(p)' = ents /\ nfds'[p] = n
<1>1. t \in Tables /\ t # NULL
  BY HomesAreOwn, FdsAssumption DEF FInv
<1>2. fds'[p] = t /\ nfds' \in [Pids -> Nat] /\ nfds'[p] = n
  BY DEF Store, FInv, IInv, Pointers, Typed
<1>3. heap' = [x \in (DOMAIN heap \ {fds[p]}) \cup {t} |-> IF x = t THEN ents ELSE heap[x]]
  BY DEF Store, Moved
<1>4. \A x \in DOMAIN heap' : heap'[x] \in Seq(Entries)
  BY <1>3 DEF FInv, Typed
<1>5. Table(p)' = ents
  BY <1>1, <1>2, <1>3 DEF Table
<1> QED
  BY <1>2, <1>4, <1>5 DEF Typed

LEMMA StandStill ==
    ASSUME FInv, NEW p, UNCHANGED <<fds, nfds, heap, size>>
    PROVE  Typed' /\ Keep(p, Held(p)) /\ Held(p)' \subseteq Held(p)
BY DEF FInv, Typed, Keep, Held, Table

\* The descriptors of p when its table has become one that Leaves them.
LEMMA LeftAlone ==
    ASSUME NEW p, NEW ents, NEW n, Leaves(p, ents, n), Table(p)' = ents, nfds'[p] = n
    PROVE  Keep(p, Held(p)) /\ Held(p)' \subseteq Held(p)
BY DEF Leaves, Keep, Held

LEMMA OpenKeeps ==
    ASSUME FInv, NEW p \in Pids, Opens(p)
    PROVE  Typed' /\ Keep(p, Held(p))
<1> PICK f \in Files, append \in BOOLEAN, cut \in BOOLEAN : open(p, f, append, cut)
  BY DEF Opens
<1> DEFINE pos == IF append THEN size[f] ELSE 0
           cached == IF cut THEN 0 ELSE size[f]
           e == File(f, pos, cached)
<1>1. size \in [Files -> Nat]
  BY DEF FInv, Typed
<1>2. pos \in Nat /\ cached \in Nat
  BY <1>1
<1>3. e \in Entries
  BY <1>2 DEF Entries, OpenEntries, File
<1>4. PICK o \in getnewfd(p, e) :
        \/ UNCHANGED <<fds, nfds, heap, size>>
        \/ /\ o.code = "ok"
           /\ \E t \in Homes(p, o.ents) : Store(p, t, o.ents, o.n)
           /\ size' = IF cut THEN [size EXCEPT ![f] = 0] ELSE size
        \/ /\ o.code = "ok"
           /\ \E t \in Homes(p, Closed(o)) : Store(p, t, Closed(o), o.n)
           /\ size' = size
  BY Zenon DEF open
<1> HIDE DEF e
<1>5. CASE UNCHANGED <<fds, nfds, heap, size>>
  BY <1>5, StandStill
<1>6. CASE /\ o.code = "ok"
           /\ \E t \in Homes(p, o.ents) : Store(p, t, o.ents, o.n)
           /\ size' = IF cut THEN [size EXCEPT ![f] = 0] ELSE size
  <2>1. Adds(p, o.ents, o.n, o.fd)
    BY <1>3, <1>6, GetAdds
  <2>2. size' \in [Files -> Nat]
    BY <1>1, <1>6
  <2>3. PICK t \in Homes(p, o.ents) : Store(p, t, o.ents, o.n)
    BY <1>6, SMTT(30)
  <2>4. Typed' /\ Table(p)' = o.ents /\ nfds'[p] = o.n
    BY <2>1, <2>2, <2>3, StoreEffect, SMTT(30) DEF Adds
  <2>5. Keep(p, Held(p))
    BY <2>1, <2>4, SMTT(30) DEF Adds, Keep, Held
  <2> QED
    BY <2>4, <2>5
<1>7. CASE /\ o.code = "ok"
           /\ \E t \in Homes(p, Closed(o)) : Store(p, t, Closed(o), o.n)
           /\ size' = size
  <2>1. Leaves(p, Closed(o), o.n)
    BY <1>3, <1>7, ClosedLeaves
  <2>2. PICK t \in Homes(p, Closed(o)) : Store(p, t, Closed(o), o.n)
    BY <1>7, SMTT(30)
  <2>3. Typed' /\ Table(p)' = Closed(o) /\ nfds'[p] = o.n
    BY <1>1, <1>7, <2>1, <2>2, StoreEffect DEF Leaves
  <2> QED
    BY <2>1, <2>3, LeftAlone
<1> QED
  BY <1>4, <1>5, <1>6, <1>7

LEMMA ExecKeeps ==
    ASSUME FInv, NEW p \in Pids, kexecve(p)
    PROVE  Typed' /\ Keep(p, Held(p)) /\ Held(p)' \subseteq Held(p)
<1>1. PICK o \in Loaded(p) :
        \/ UNCHANGED <<fds, nfds, heap, size>>
        \/ /\ o.code = "ok"
           /\ \E t \in Homes(p, o.ents) : Store(p, t, o.ents, o.n)
           /\ size' = size
  BY Zenon DEF kexecve
<1>2. CASE UNCHANGED <<fds, nfds, heap, size>>
  BY <1>2, StandStill
<1>3. CASE /\ o.code = "ok"
           /\ \E t \in Homes(p, o.ents) : Store(p, t, o.ents, o.n)
           /\ size' = size
  <2>1. Leaves(p, o.ents, o.n)
    BY <1>3, LoadLeaves
  <2>2. PICK t \in Homes(p, o.ents) : Store(p, t, o.ents, o.n)
    BY <1>3
  <2>3. size' \in [Files -> Nat]
    BY <1>3 DEF FInv, Typed
  <2>4. Typed' /\ Table(p)' = o.ents /\ nfds'[p] = o.n
    BY <2>1, <2>2, <2>3, StoreEffect DEF Leaves
  <2> QED
    BY <2>1, <2>4, LeftAlone
<1> QED
  BY <1>1, <1>2, <1>3

LEMMA NewTableEffect ==
    ASSUME FInv, NEW p \in live, NEW c \in Pids \ live, NEW o, NEW t \in Homes(p, o.ents),
           o.ents \in Seq(Entries), o.n \in Nat, c # 0 => o.n <= Len(o.ents),
           NewTable(p, c, o, t), size' = size
    PROVE  Typed' /\ Table(p)' = o.ents /\ nfds'[p] = o.n
<1>0. p \in Pids /\ p # c /\ c \in Pids
  BY DEF FInv, IInv, Pointers
<1>1. t \in Tables /\ t # NULL /\ \A q \in Pids \ {p} : fds[q] # t
  BY <1>0, HomesAreOwn, FdsAssumption DEF FInv
<1> DEFINE D == (DOMAIN heap \ {fds[p]}) \cup {t}
           h == Moved(p, t, o.ents)
           ents == Inherited(c, o.ents, o.n)
<1>2. h = [x \in D |-> IF x = t THEN o.ents ELSE heap[x]]
  BY DEF Moved
<1>3. \A x \in D : h[x] \in Seq(Entries)
  BY <1>2 DEF FInv, Typed
<1>4. ents \in Seq(Entries)
  <2>1. CASE c = 0
    <3>1. Io \in Entries /\ NSTD \in Nat
      BY FdsAssumption DEF Entries
    <3>2. [i \in 1 .. NSTD |-> Io] \in Seq(Entries)
      BY <3>1
    <3> QED
      BY <2>1, <3>2 DEF Inherited
  <2>2. CASE c # 0
    <3>1. SubSeq(o.ents, 1, o.n) \in Seq(Entries)
      BY <2>2
    <3> QED
      BY <2>2, <3>1 DEF Inherited
  <2> QED
    BY <2>1, <2>2
<1>5. PICK u \in Tables \ DOMAIN h :
        /\ fds' = [fds EXCEPT ![p] = t, ![c] = u]
        /\ nfds' = [nfds EXCEPT ![p] = o.n, ![c] = Len(ents)]
        /\ heap' = [x \in DOMAIN h \cup {u} |->
                      IF x = u THEN ents ELSE IF x = fds[c] THEN <<>> ELSE h[x]]
  BY ZenonT(30) DEF NewTable, copy_fds
<1>6. DOMAIN h = D /\ h[t] = o.ents
  BY <1>2
<1> HIDE DEF ents, h
<1>7. nfds' \in [Pids -> Nat] /\ nfds'[p] = o.n
  <2>1. Len(ents) \in Nat /\ nfds \in [Pids -> Nat]
    BY <1>4 DEF FInv, Typed
  <2> QED
    BY <1>0, <1>5, <2>1
<1>8. fds'[p] = t
  BY <1>0, <1>5 DEF FInv, IInv, Pointers
<1>9. \A x \in DOMAIN heap' : heap'[x] \in Seq(Entries)
  <2>1. <<>> \in Seq(Entries)
    OBVIOUS
  <2> QED
    BY <1>3, <1>4, <1>5, <1>6, <2>1
<1>10. t \in DOMAIN h /\ t # u /\ t # fds[c]
  BY <1>0, <1>1, <1>5, <1>6
<1>11. heap'[t] = o.ents
  BY <1>5, <1>6, <1>10
<1>12. Table(p)' = o.ents
  BY <1>1, <1>8, <1>11 DEF Table
<1> QED
  BY <1>7, <1>9, <1>12 DEF FInv, Typed

LEMMA ProcessKeeps ==
    ASSUME FInv, NEW p \in live, new_process(p)
    PROVE  Typed' /\ Keep(p, Held(p)) /\ Held(p)' \subseteq Held(p)
<1>0. p \in Pids
  BY DEF FInv, IInv, Pointers
<1>1. PICK c \in FreeSlot, o \in Loaded(p) :
        \/ UNCHANGED <<fds, nfds, heap, size>>
        \/ /\ o.code = "ok"
           /\ c # 0 => o.n <= Len(o.ents)
           /\ \E t \in Homes(p, o.ents) :
                NewTable(p, c, o, t) \/ Store(p, t, o.ents, o.n)
           /\ size' = size
  BY ZenonT(30) DEF new_process
<1>2. CASE UNCHANGED <<fds, nfds, heap, size>>
  BY <1>2, StandStill
<1>3. CASE /\ o.code = "ok"
           /\ c # 0 => o.n <= Len(o.ents)
           /\ \E t \in Homes(p, o.ents) :
                NewTable(p, c, o, t) \/ Store(p, t, o.ents, o.n)
           /\ size' = size
  <2>1. Leaves(p, o.ents, o.n) /\ o.ents \in Seq(Entries) /\ o.n \in Nat
    BY <1>0, <1>3, LoadLeaves DEF Leaves
  <2>2. PICK t \in Homes(p, o.ents) : NewTable(p, c, o, t) \/ Store(p, t, o.ents, o.n)
    BY <1>3
  <2>3. size' \in [Files -> Nat] /\ c \in Pids \ live
    BY <1>3 DEF FInv, Typed, FreeSlot
  <2>4. Typed' /\ Table(p)' = o.ents /\ nfds'[p] = o.n
    BY <1>0, <1>3, <2>1, <2>2, <2>3, StoreEffect, NewTableEffect, SMTT(30)
  <2> QED
    BY <2>1, <2>4, LeftAlone, SMTT(30)
<1> QED
  BY <1>1, <1>2, <1>3

\* Of the process that makes a call, this is what KeptUntilClosed asks.
LEMMA CallKeeps ==
    ASSUME FInv, NEW p \in live, Call(p)
    PROVE  /\ Typed'
           /\ Keep(p, Held(p)) \/ \E i \in Held(p) : close(p, i) /\ Keep(p, Held(p) \ {i})
           /\ Held(p)' \subseteq Held(p) \/ Opens(p)
<1>0. p \in Pids
  BY DEF FInv, IInv, Pointers
<1>1. CASE Opens(p)
  BY <1>0, <1>1, OpenKeeps
<1>2. CASE Closes(p)
  BY <1>0, <1>2, CloseKeeps DEF Closes
<1>3. CASE Reads(p) \/ Writes(p)
  BY <1>0, <1>3, ReadKeeps DEF Reads, Writes
<1>4. CASE Seeks(p)
  <2> PICK i \in Held(p), whence \in {"set", "cur", "end"}, off \in -1 .. 1 :
        lseek(p, i, whence, off)
    BY <1>4 DEF Seeks
  <2> QED
    BY <1>0, SeekKeeps
<1>5. CASE Truncs(p)
  BY <1>0, <1>5, TruncKeeps DEF Truncs
<1>6. CASE BadAccess(p)
  BY <1>6, StandStill DEF BadAccess
<1>7. CASE new_process(p)
  BY <1>7, ProcessKeeps
<1>8. CASE kexecve(p)
  BY <1>0, <1>8, ExecKeeps
<1> QED
  BY <1>1, <1>2, <1>3, <1>4, <1>5, <1>6, <1>7, <1>8 DEF Call

LEMMA SameKeeps ==
    ASSUME NEW p, Same(p)
    PROVE  Keep(p, Held(p)) /\ Held(p)' \subseteq Held(p)
BY DEF Same, Keep, Held

LEMMA EndTyped ==
    ASSUME FInv, NEW p \in live, endproc_shared(p)
    PROVE  Typed'
BY DEF endproc_shared, FInv, Typed

LEMMA NextTyped ==
    ASSUME FInv, [Next]_vars
    PROVE  FInv'
<1>1. IInv'
  BY NextKeeps DEF FInv
<1>2. ASSUME UNCHANGED vars PROVE Typed'
  BY <1>2 DEF vars, FInv, Typed
<1>3. ASSUME NEW p \in live, Call(p) PROVE Typed'
  BY <1>3, CallKeeps
<1>4. ASSUME NEW p \in live, endproc_shared(p) PROVE Typed'
  BY <1>4, EndTyped
<1>5. ASSUME Next PROVE Typed'
  BY <1>3, <1>4, <1>5 DEF Next, sys_kill
<1>6. Typed'
  BY <1>2, <1>5
<1> QED
  BY <1>1, <1>6 DEF FInv

LEMMA NextKeepsDescriptors ==
    ASSUME FInv, [Next]_vars
    PROVE  KeptUntilClosed
<1> SUFFICES ASSUME NEW p \in live \cap live'
             PROVE  /\ \A i \in Held(p) : Keep(p, {i}) \/ close(p, i)
                    /\ Held(p)' \subseteq Held(p) \/ Opens(p)
  BY DEF KeptUntilClosed, Keep
<1>1. Same(p) \/ Call(p)
  BY NextKeeps DEF FInv
<1>2. CASE Same(p)
  BY <1>2, SameKeeps, SMTT(30) DEF Keep
<1>3. CASE Call(p)
  <2>1. /\ Keep(p, Held(p)) \/ \E i \in Held(p) : close(p, i) /\ Keep(p, Held(p) \ {i})
        /\ Held(p)' \subseteq Held(p) \/ Opens(p)
    BY <1>3, CallKeeps
  <2> QED
    BY <2>1 DEF Keep
<1> QED
  BY <1>1, <1>2, <1>3

-----------------------------------------------------------------------------
(* Theorems.                                                               *)

\* No table is shared between two slots of the process table or used after
\* it was freed, whatever calls processes make, however tables grow, and
\* wherever creating a process fails (copy_fds, new_process, endproc_shared).
THEOREM TablesAreOwn == Spec => []TablesOwn
<1>1. Init => IInv
  BY InitInv
<1>2. IInv /\ [Next]_vars => IInv'
  BY NextKeeps
<1>3. IInv => TablesOwn
  BY DEF IInv
<1> QED
  BY <1>1, <1>2, <1>3, PTL DEF Spec

\* A process's descriptors change only by its own calls: the copy made by
\* copy_fds is what keeps a child's closes, seeks and exit from its parent.
THEOREM OthersAreUntouched == Spec => OthersUntouched
<1>1. Init => IInv
  BY InitInv
<1>2. IInv /\ [Next]_vars => IInv' /\ OwnCallsOnly
  BY NextKeeps DEF Same, OwnCallsOnly
<1> QED
  BY <1>1, <1>2, PTL DEF Spec, OthersUntouched

\* Opening, growing, moving and copying tables loses or redirects no open
\* descriptor, and loading a program leaves none open (getnewfd, close,
\* loadexe_base).  The entries have to be known for this: one that was handed
\* out is marked in use, so that no later search finds it.
THEOREM DescriptorsAreKept == Spec => DescriptorsKept
<1>1. Init => FInv
  BY InitInv, InitTyped DEF FInv
<1>2. FInv /\ [Next]_vars => FInv' /\ KeptUntilClosed
  BY NextTyped, NextKeepsDescriptors
<1> QED
  BY <1>1, <1>2, PTL DEF Spec, DescriptorsKept
=============================================================================
