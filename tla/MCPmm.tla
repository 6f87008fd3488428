-------------------------------- MODULE MCPmm --------------------------------
(***************************************************************************)
(* Small memory maps for TLC: frames of two bytes and bytes of four bits.  *)
(***************************************************************************)
EXTENDS Pmm

Entry(type, base, length) == [type |-> type, base |-> base, length |-> length]

\* Fourteen or sixteen frames and a hole; the first entry is too small for the
\* bitmap in one map and holds the startup page in another.  In the third the
\* bitmap is long enough to reach the startup page, as it is from 1 GiB on when
\* low memory is usable.  The last has no room.
SmallMaps ==
    {<<Entry("other", 0, 2), Entry("usable", 2, 2), Entry("other", 4, 3),
       Entry("usable", 8, 20)>>,
     <<Entry("usable", 4, 10), Entry("other", 14, 3), Entry("usable", 18, 14)>>,
     <<Entry("other", 0, 10), Entry("usable", 10, 8), Entry("other", 18, 2)>>,
     <<Entry("usable", 2, 2), Entry("other", 4, 16)>>}
=============================================================================
