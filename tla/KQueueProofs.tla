---------------------------- MODULE KQueueProofs ----------------------------
(***************************************************************************)
(* What the ring buffer keeps when writes fall anywhere within reads, for  *)
(* every size and width of tail.                                           *)
(***************************************************************************)
EXTENDS KQueue, TLAPS

\* Where a read stands: it has copied Len(data) of the n bytes it will take,
\* which it took from cnt, and cnt only grows until it stores.
ReadInv ==
    /\ pc \in {"idle", "take", "copy", "store"}
    /\ datasz \in Nat /\ n \in Nat /\ late \in Nat
    /\ data \in Seq(Nat)
    /\ pc \in {"idle", "take"} => data = <<>> /\ n = 0
    /\ pc = "idle" => late = 0
    /\ pc = "take" => cnt <= datasz + late
    /\ pc \in {"copy", "store"} => Len(data) <= n /\ n <= cnt
    /\ pc = "store" => Len(data) = n /\ n <= reg /\ reg <= cnt
    /\ n <= datasz + late

\* Every byte written was read by an earlier call, is counted or was lost.
CountInv ==
    /\ cnt \in 0 .. SZ /\ reg \in Nat
    /\ written \in Nat /\ taken \in Nat /\ lost \in Nat
    /\ written = (taken - Len(data)) + cnt + lost

\* The first SZ bytes are in their slots until a later byte goes over them, and
\* tail is at the first byte not read as far as it can count.
SlotInv ==
    /\ buf \in [Slots -> Nat] /\ tail \in 0 .. TAIL_MOD - 1
    /\ head \in Slots
    /\ written < SZ + SZ => head = IF written < SZ THEN written ELSE written - SZ
    /\ \A w \in 1 .. SZ : w <= written /\ written < w + SZ => buf[w - 1] = w
    /\ taken < TAIL_MOD => tail = taken

KInv == ReadInv /\ CountInv /\ SlotInv /\ FirstInOrder

\* Where the next byte goes in the first two turns.
Behind(x) == IF x < SZ THEN x ELSE x - SZ

\* From a slot on, within one turn, the next slots are found by a subtraction.
LEMMA HeadMoves ==
    ASSUME head \in Slots, NEW k \in 0 .. SZ
    PROVE  Advance(k) = Behind(head + k) /\ Advance(k) \in Slots
<1>1. SZ \in Nat \ {0} /\ head \in 0 .. SZ - 1 /\ head + k \in Nat
  BY KQueueAssumption DEF Slots
<1>2. /\ head + k < SZ => (head + k) % SZ = head + k
      /\ SZ <= head + k /\ head + k < SZ + SZ => (head + k) % SZ = head + k - SZ
  BY <1>1
<1> QED
  BY <1>1, <1>2 DEF Advance, Behind, Slots

-----------------------------------------------------------------------------

\* An empty queue.
LEMMA InitKInv == Init => KInv
<1> SUFFICES ASSUME Init PROVE KInv
  OBVIOUS
<1>1. SZ \in Nat \ {0} /\ TAIL_MOD \in Nat \ {0}
  BY KQueueAssumption
<1>3. Len(data) = 0 /\ data \in Seq(Nat)
  BY DEF Init
<1>4. ReadInv
  BY <1>3 DEF Init, ReadInv
<1>5. CountInv
  <2>1. cnt = 0 /\ reg = 0 /\ written = 0 /\ taken = 0 /\ lost = 0
    BY DEF Init
  <2> QED
    BY <1>1, <1>3, <2>1 DEF CountInv
<1>6. SlotInv
  <2>1. \A w \in 1 .. SZ : ~(w <= written)
    BY <1>1 DEF Init
  <2>2. buf \in [Slots -> Nat] /\ head \in Slots
    BY <1>1 DEF Init, Slots, Junk
  <2> QED
    BY <1>1, <2>1, <2>2 DEF Init, SlotInv
<1>7. FirstInOrder
  BY <1>3 DEF FirstInOrder
<1> QED
  BY <1>4, <1>5, <1>6, <1>7 DEF KInv

\* A write puts its bytes behind the last one and goes over a byte only when it
\* is SZ ahead of it.
LEMMA EnqueueStep ==
    ASSUME KInv, NEW sz \in 1 .. MaxReq, kqueue_enqueue(sz)
    PROVE  KInv'
<1> DEFINE m == Accepted(sz)
<1>1. /\ SZ \in Nat \ {0} /\ cnt \in 0 .. SZ /\ sz \in Nat /\ written \in Nat
      /\ taken \in Nat /\ lost \in Nat /\ Len(data) \in Nat
  BY KQueueAssumption DEF KInv, CountInv, ReadInv
<1>2. m \in Nat /\ m <= SZ - cnt /\ m <= SZ
  BY <1>1 DEF Accepted, Shorter
<1> HIDE DEF m
<1>3. /\ buf' = [s \in Slots |->
                   IF \E i \in 1 .. m : s = Advance(i - 1)
                   THEN written + CHOOSE i \in 1 .. m : s = Advance(i - 1)
                   ELSE buf[s]]
      /\ head' = Advance(m) /\ cnt' = cnt + m /\ written' = written + m
      /\ late' = IF pc = "take" THEN late + m ELSE late
      /\ tail' = tail /\ pc' = pc /\ datasz' = datasz /\ n' = n /\ data' = data
      /\ reg' = reg /\ taken' = taken /\ lost' = lost
  BY DEF kqueue_enqueue, m, reader
<1>4. ReadInv'
  <2>1. late' \in Nat /\ late <= late' /\ cnt <= cnt' /\ datasz \in Nat /\ n \in Nat
    BY <1>1, <1>2, <1>3 DEF KInv, ReadInv
  <2>2. n' <= datasz' + late'
    BY <1>3, <2>1 DEF KInv, ReadInv
  <2>3. pc' = "take" => cnt' <= datasz' + late'
    BY <1>1, <1>2, <1>3 DEF KInv, ReadInv
  <2>4. pc' = "idle" => late' = 0
    BY <1>3 DEF KInv, ReadInv
  <2>5. /\ pc' \in {"copy", "store"} => Len(data') <= n' /\ n' <= cnt'
        /\ pc' = "store" => Len(data') = n' /\ n' <= reg' /\ reg' <= cnt'
    BY <1>1, <1>3, <2>1 DEF KInv, ReadInv, CountInv
  <2> QED
    BY <1>3, <2>1, <2>2, <2>3, <2>4, <2>5 DEF KInv, ReadInv
<1>5. CountInv'
  BY <1>1, <1>2, <1>3 DEF KInv, CountInv
<1>6. /\ \A i \in 1 .. m : Advance(i - 1) = Behind(head + (i - 1))
      /\ Advance(m) = Behind(head + m) /\ Advance(m) \in Slots
  <2>1. head \in Slots /\ m \in 0 .. SZ /\ \A i \in 1 .. m : i - 1 \in 0 .. SZ
    BY <1>1, <1>2 DEF KInv, SlotInv
  <2> QED
    BY <2>1, HeadMoves
<1>7. buf' \in [Slots -> Nat]
  <2>1. ASSUME NEW s \in Slots, \E i \in 1 .. m : s = Advance(i - 1)
        PROVE  (CHOOSE i \in 1 .. m : s = Advance(i - 1)) \in 1 .. m
    BY <2>1
  <2>2. \A i \in 1 .. m : written + i \in Nat
    BY <1>1, <1>2
  <2> QED
    BY <1>3, <2>1, <2>2, ZenonT(60) DEF KInv, SlotInv
<1>8. ASSUME NEW w \in 1 .. SZ, w <= written', written' < w + SZ
      PROVE  buf'[w - 1] = w
  <2>1. w - 1 \in Slots /\ w \in Nat /\ written + m < w + SZ
    BY <1>1, <1>3, <1>8 DEF Slots
  <2>2. ASSUME NEW i \in 1 .. m
        PROVE  w - 1 = Advance(i - 1) <=> w = written + i
    <3>1. head = Behind(written) /\ written < SZ + SZ
      BY <1>1, <1>2, <2>1 DEF KInv, SlotInv, Behind
    <3>2. Advance(i - 1) = Behind(Behind(written) + (i - 1))
      BY <1>6, <3>1
    <3> QED
      BY <1>1, <1>2, <2>1, <3>1, <3>2 DEF Behind
  <2>3. CASE w <= written
    <3>1. \A i \in 1 .. m : w - 1 # Advance(i - 1)
      BY <1>1, <1>2, <2>1, <2>2, <2>3
    <3>2. buf'[w - 1] = buf[w - 1]
      BY <1>3, <2>1, <3>1
    <3>3. written < w + SZ
      BY <1>1, <1>2, <2>1, SMTT(30)
    <3> QED
      BY <2>3, <3>2, <3>3 DEF KInv, SlotInv
  <2>4. CASE written < w
    <3> DEFINE k == CHOOSE i \in 1 .. m : w - 1 = Advance(i - 1)
    <3>1. w - written \in 1 .. m /\ written + (w - written) = w
      BY <1>1, <1>2, <1>3, <1>8, <2>1, <2>4
    <3>2. w - 1 = Advance((w - written) - 1)
      BY <2>2, <3>1
    <3>3. k \in 1 .. m /\ w - 1 = Advance(k - 1)
      BY <3>1, <3>2
    <3>4. w = written + k
      BY <2>2, <3>3
    <3>5. \E i \in 1 .. m : w - 1 = Advance(i - 1)
      BY <3>3
    <3>6. buf'[w - 1] = written + k
      BY <1>3, <2>1, <3>5, ZenonT(60)
    <3> QED
      BY <3>4, <3>6
  <2> QED
    BY <1>1, <2>1, <2>3, <2>4
<1>9. SlotInv'
  <2>1. head' \in Slots
    BY <1>3, <1>6
  <2>2. ASSUME written' < SZ + SZ
        PROVE  head' = IF written' < SZ THEN written' ELSE written' - SZ
    BY <1>1, <1>2, <1>3, <1>6, <2>2 DEF KInv, SlotInv, Behind
  <2> QED
    BY <1>3, <1>7, <1>8, <2>1, <2>2 DEF KInv, SlotInv
<1>10. FirstInOrder'
  BY <1>1, <1>2, <1>3, SMTT(30) DEF KInv, FirstInOrder
<1> QED
  BY <1>4, <1>5, <1>9, <1>10 DEF KInv

\* A byte copied: as far as tail counts and nothing went over it, it is the next.
LEMMA DeqCopyStep ==
    ASSUME KInv, DeqCopy
    PROVE  KInv'
<1>1. /\ SZ \in Nat \ {0} /\ TAIL_MOD \in Nat \ {0} /\ TAIL_MOD <= SZ
      /\ cnt \in 0 .. SZ /\ written \in Nat /\ taken \in Nat /\ lost \in Nat
      /\ n \in Nat /\ n <= cnt /\ Len(data) \in Nat /\ Len(data) < n
      /\ written = (taken - Len(data)) + cnt + lost
      /\ tail \in 0 .. TAIL_MOD - 1 /\ data \in Seq(Nat) /\ buf \in [Slots -> Nat]
  BY KQueueAssumption DEF KInv, CountInv, ReadInv, SlotInv, DeqCopy
<1>2. tail \in Slots /\ buf[tail] \in Nat
  BY <1>1 DEF Slots
<1>3. /\ data' \in Seq(Nat) /\ Len(data') = Len(data) + 1
      /\ \A i \in 1 .. Len(data) : data'[i] = data[i]
      /\ data'[Len(data) + 1] = buf[tail]
  BY <1>1, <1>2 DEF DeqCopy
<1>4. /\ taken' = taken + 1 /\ tail' = AdvanceTail
      /\ UNCHANGED <<buf, head, cnt, pc, datasz, n, reg, written, lost, late>>
      /\ pc = "copy"
  BY DEF DeqCopy
<1>5. ReadInv'
  BY <1>1, <1>3, <1>4 DEF KInv, ReadInv
<1>6. CountInv'
  BY <1>1, <1>3, <1>4 DEF KInv, CountInv
<1>7. /\ AdvanceTail \in 0 .. TAIL_MOD - 1
      /\ tail + 1 < TAIL_MOD => AdvanceTail = tail + 1
  <2> DEFINE x == (tail + 1) % SZ
  <2>1. tail + 1 \in Nat /\ x \in Nat /\ (tail + 1 < SZ => x = tail + 1)
    BY <1>1
  <2> HIDE DEF x
  <2>2. /\ x % TAIL_MOD \in 0 .. TAIL_MOD - 1
        /\ x < TAIL_MOD => x % TAIL_MOD = x
    BY <1>1, <2>1
  <2>3. AdvanceTail = x % TAIL_MOD
    BY DEF AdvanceTail, x
  <2> QED
    BY <1>1, <2>1, <2>2, <2>3
<1>8. SlotInv'
  BY <1>1, <1>4, <1>7 DEF KInv, SlotInv
<1>9. ASSUME lost = 0 \/ written <= SZ, taken + 1 <= TAIL_MOD
      PROVE  buf[tail] = taken + 1
  <2>1. tail = taken /\ taken + 1 \in 1 .. SZ /\ (taken + 1) - 1 = taken
    BY <1>1, <1>9 DEF KInv, SlotInv
  <2>2. taken + 1 <= written /\ written < (taken + 1) + SZ
    BY <1>1, <1>9
  <2> QED
    BY <2>1, <2>2 DEF KInv, SlotInv
<1>10. FirstInOrder'
  <2> SUFFICES ASSUME lost' = 0 \/ written' <= SZ, NEW i \in 1 .. Len(data'),
                      taken' - Len(data') + i <= TAIL_MOD
               PROVE  data'[i] = taken' - Len(data') + i
    BY Zenon DEF FirstInOrder
  <2>1. /\ i \in 1 .. Len(data) + 1 /\ (lost = 0 \/ written <= SZ)
        /\ taken' - Len(data') + i = taken - Len(data) + i
    BY <1>1, <1>3, <1>4
  <2>2. CASE i = Len(data) + 1
    BY <1>1, <1>3, <1>9, <2>1, <2>2
  <2>3. CASE i \in 1 .. Len(data)
    BY <1>3, <2>1, <2>3 DEF KInv, FirstInOrder
  <2> QED
    BY <1>1, <2>1, <2>2, <2>3
<1> QED
  BY <1>5, <1>6, <1>8, <1>10 DEF KInv

\* The store takes n off what it loaded; a write since then is lost.
LEMMA DeqStoreStep ==
    ASSUME KInv, DeqStore
    PROVE  KInv'
<1>1. /\ cnt \in 0 .. SZ /\ written \in Nat /\ taken \in Nat /\ lost \in Nat
      /\ reg \in Nat /\ n \in Nat /\ SZ \in Nat
      /\ Len(data) = n /\ n <= reg /\ reg <= cnt
      /\ written = (taken - Len(data)) + cnt + lost
  BY KQueueAssumption DEF KInv, CountInv, ReadInv, DeqStore
<1>2. /\ cnt' = reg - n /\ lost' = lost + (cnt - reg) /\ pc' = "idle"
      /\ datasz' = 0 /\ n' = 0 /\ data' = <<>> /\ reg' = 0 /\ late' = 0
      /\ UNCHANGED <<buf, head, tail, written, taken>>
  BY DEF DeqStore
<1>3. Len(data') = 0 /\ data' \in Seq(Nat)
  BY <1>2
<1>4. ReadInv'
  BY <1>2, <1>3 DEF ReadInv
<1>5. CountInv'
  BY <1>1, <1>2, <1>3 DEF CountInv
<1>6. SlotInv'
  BY <1>2 DEF KInv, SlotInv
<1>7. FirstInOrder'
  BY <1>3 DEF FirstInOrder
<1> QED
  BY <1>4, <1>5, <1>6, <1>7 DEF KInv

\* The steps of a read that only look.
LEMMA LooksStep ==
    ASSUME KInv, (\E sz \in 1 .. MaxReq : DeqCompare(sz)) \/ DeqTake \/ DeqLoad
    PROVE  KInv'
<1>1. /\ UNCHANGED <<buf, head, tail, cnt, data, written, taken, lost, late>>
      /\ cnt \in Nat /\ MaxReq \in Nat /\ late \in Nat
  BY KQueueAssumption DEF DeqCompare, DeqTake, DeqLoad, KInv, CountInv, ReadInv
<1>2. ReadInv'
  <2>1. ASSUME NEW sz \in 1 .. MaxReq, DeqCompare(sz) PROVE ReadInv'
    BY <1>1, <2>1 DEF KInv, ReadInv, DeqCompare
  <2>2. CASE DeqTake
    BY <1>1, <2>2 DEF KInv, ReadInv, DeqTake
  <2>3. CASE DeqLoad
    BY <1>1, <2>3 DEF KInv, ReadInv, DeqLoad
  <2> QED
    BY <2>1, <2>2, <2>3
<1>3. CountInv'
  BY <1>1 DEF KInv, CountInv, DeqCompare, DeqTake, DeqLoad
<1>4. SlotInv'
  BY <1>1 DEF KInv, SlotInv
<1>5. FirstInOrder'
  BY <1>1 DEF KInv, FirstInOrder
<1> QED
  BY <1>2, <1>3, <1>4, <1>5 DEF KInv

LEMMA NextKInv ==
    ASSUME KInv, [Next]_vars
    PROVE  KInv'
<1>1. ASSUME NEW sz \in 1 .. MaxReq, kqueue_enqueue(sz) PROVE KInv'
  BY <1>1, EnqueueStep
<1>2. CASE (\E sz \in 1 .. MaxReq : DeqCompare(sz)) \/ DeqTake \/ DeqLoad
  BY <1>2, LooksStep
<1>3. CASE DeqCopy
  BY <1>3, DeqCopyStep
<1>4. CASE DeqStore
  BY <1>4, DeqStoreStep
<1>5. CASE UNCHANGED vars
  <2>1. UNCHANGED <<buf, head, tail, cnt, pc, datasz, n, data, reg,
                    written, taken, lost, late>>
    BY <1>5 DEF vars, reader
  <2> QED
    BY <2>1 DEF KInv, ReadInv, CountInv, SlotInv, FirstInOrder
<1> QED
  BY <1>1, <1>2, <1>3, <1>4, <1>5 DEF Next

LEMMA KInvHolds == Spec => []KInv
<1>1. KInv /\ [Next]_vars => KInv'
  BY NextKInv
<1> QED
  BY <1>1, InitKInv, PTL DEF Spec

-----------------------------------------------------------------------------

\* Wherever a write falls, the count stays at or below the bytes written and
\* not read: a store of the reader loses counts and never invents one.
THEOREM CountIsNeverAhead == Spec => []NeverAhead
<1>1. KInv => NeverAhead
  <2> SUFFICES ASSUME KInv PROVE NeverAhead
    OBVIOUS
  <2>1. Len(data) \in Nat
    BY DEF KInv, ReadInv
  <2> QED
    BY <2>1 DEF KInv, ReadInv, CountInv, NeverAhead
<1> QED
  BY <1>1, KInvHolds, PTL

\* Whatever the size of the queue and the width of tail, the first TAIL_MOD
\* bytes come out as they went in, unless a lost count let a write go round.
THEOREM FirstBytesInOrder == Spec => []FirstInOrder
<1>1. KInv => FirstInOrder
  BY DEF KInv
<1> QED
  BY <1>1, KInvHolds, PTL

\* A read that takes more than was asked for takes bytes that came between its
\* two looks at cnt, and no more than those.
THEOREM OverrunsAreLate == Spec => []OverrunIsLate
<1>1. KInv => OverrunIsLate
  BY DEF KInv, ReadInv, OverrunIsLate
<1> QED
  BY <1>1, KInvHolds, PTL
=============================================================================
