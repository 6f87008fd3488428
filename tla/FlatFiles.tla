------------------------------ MODULE FlatFiles ------------------------------
(***************************************************************************)
(* What a file system promises of the contents of its files: a file is a   *)
(* sequence of cells; a write replaces cells and, past the end, extends    *)
(* the file with zeros up to where it starts.  A write may stop early.     *)
(***************************************************************************)
EXTENDS Integers, Sequences

CONSTANTS
    Inodes,
    Datum(_, _)   \* what is written to a cell of a file

VARIABLE file   \* of each inode: a set that holds its contents, or nothing

Init == file = [i \in Inodes |-> {}]

Create(i) ==
    /\ file[i] = {}
    /\ file' = [file EXCEPT ![i] = {<<>>}]

\* Contents s of file i with n cells written from off on.
Overwritten(i, s, off, n) ==
    [p \in 1 .. (IF off + n > Len(s) THEN off + n ELSE Len(s)) |->
        IF off < p /\ p <= off + n THEN Datum(i, p - 1)
        ELSE IF p <= Len(s) THEN s[p] ELSE 0]

\* t is s after a write.
IsWritten(i, s, t) ==
    \E off \in 0 .. Len(t), n \in 1 .. Len(t) : t = Overwritten(i, s, off, n)

Write(i) ==
    \E s \in file[i], t \in file'[i] :
        /\ IsWritten(i, s, t)
        /\ file' = [file EXCEPT ![i] = {t}]

Truncate(i) ==
    /\ file[i] # {}
    /\ file' = [file EXCEPT ![i] = {<<>>}]

Next == \E i \in Inodes : Create(i) \/ Write(i) \/ Truncate(i)

Spec == Init /\ [][Next]_file
=============================================================================
