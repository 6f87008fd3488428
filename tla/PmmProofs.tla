------------------------------ MODULE PmmProofs ------------------------------
(***************************************************************************)
(* Proofs about the frame allocator, for every memory map and every size   *)
(* of frames, bytes and requests.  Where the code needs it they assume an  *)
(* address of every frame that fits the 32-bit product, and one core; the  *)
(* README says what TLC finds without each.                                *)
(***************************************************************************)
EXTENDS Pmm, WellFoundedInduction, TLAPS

Fits == \A m \in Maps : nframes(m) * FRAMESZ <= U32

Sane == Cores = {BSP} /\ Fits

\* A clear bit is a frame of the pool without a holder, and conversely; holders
\* do not share; a run that was found is still clear when it is set.
BitsTell ==
    mode = "up" =>
        /\ \A f \in Bits(map) : f \notin taken <=> f \in Pool /\ owners[f] = 0
        /\ \A f \in DOMAIN owners : owners[f] > 0 => owners[f] = 1 /\ f \in Pool

FoundIsFree ==
    scan[BSP] # None =>
        /\ mode = "up"
        /\ scan[BSP].cnt > 0
        /\ scan[BSP].fidx + scan[BSP].cnt <= nframes(map)
        /\ Run(scan[BSP].fidx, scan[BSP].cnt) \cap taken = {}

NobodyYet ==
    mode # "up" => failed = 0 /\ \A f \in DOMAIN owners : owners[f] = 0

\* What holds as long as the bitmap is kept.
PInv == TypeOK /\ BitsTell /\ FoundIsFree /\ NobodyYet /\ FailsOnlyWhenFull

-----------------------------------------------------------------------------
(* Arithmetic.                                                             *)

\* Dividing a multiple.
LEMMA DivMultiple ==
    ASSUME NEW F \in Nat \ {0}, NEW k \in Nat, NEW r \in 0 .. F - 1
    PROVE  (k * F + r) \div F = k
  BY SMTT(30)

\* What \div and % mean.
LEMMA DivMod ==
    ASSUME NEW F \in Nat \ {0}, NEW x \in Nat
    PROVE  /\ x = (x \div F) * F + (x % F)
           /\ x % F \in 0 .. F - 1
           /\ x \div F \in Nat
  BY SMTT(30)

\* A number without remainder is a multiple.
LEMMA DivExact ==
    ASSUME NEW F \in Nat \ {0}, NEW x \in Nat, x % F = 0
    PROVE  x \div F \in Nat /\ x = (x \div F) * F
  BY SMTT(30)

\* Division is monotonic.
LEMMA DivMono ==
    ASSUME NEW F \in Nat \ {0}, NEW x \in Nat, NEW y \in Nat, x <= y
    PROVE  x \div F <= y \div F
  BY SMTT(30)

\* Rounding up covers, and does not cover more than it must.
LEMMA RoundUp ==
    ASSUME NEW F \in Nat \ {0}, NEW x \in Nat
    PROVE  /\ (x + F - 1) \div F \in Nat
           /\ ((x + F - 1) \div F) * F >= x
           /\ \A l \in Nat : x <= l * F => (x + F - 1) \div F <= l
  BY SMTT(30)

-----------------------------------------------------------------------------
(* The figures pmm_init computes.                                          *)

\* The entries of a map.
LEMMA Entries ==
    ASSUME NEW m \in Maps
    PROVE  /\ DOMAIN m \subseteq Nat
           /\ \A i \in DOMAIN m : m[i].base \in Nat /\ m[i].length \in Nat
  <1> DEFINE E == [base : Nat, length : Nat, type : {"usable", "other"}]
  <1>1. m \in Seq(E)
    BY PmmAssumption
  <1>2. \A e \in E : e.base \in Nat /\ e.length \in Nat
    OBVIOUS
  <1> HIDE DEF E
  <1>3. DOMAIN m = 1 .. Len(m) /\ Len(m) \in Nat
    BY <1>1
  <1>4. \A i \in DOMAIN m : m[i] \in E
    BY <1>1
  <1> QED BY <1>2, <1>3, <1>4

\* A set of numbers that is not empty has a least one.
LEMMA Least ==
    ASSUME NEW T, T \subseteq Nat, T # {}
    PROVE  \E x \in T : \A y \in T : x <= y
  <1> DEFINE R == OpToRel(<, Nat)
  <1>1. IsWellFoundedOn(R, Nat)
    BY NatLessThanWellFounded, ZenonT(60)
  <1>2. \A x, y \in Nat : y < x => <<y, x>> \in R
    BY DEF OpToRel
  <1> HIDE DEF R
  <1>3. PICK x \in T : \A y \in T : ~(<<y, x>> \in R)
    BY <1>1, WFMin, ZenonT(60)
  <1>4. ASSUME NEW y \in T PROVE x <= y
    <2>1. x \in Nat /\ y \in Nat /\ ~(<<y, x>> \in R)
      BY <1>3
    <2>2. ~(y < x)
      BY <1>2, <2>1
    <2> QED BY <2>1, <2>2
  <1> QED BY <1>4

\* mem_high is an end that no entry exceeds.
LEMMA MemHigh ==
    ASSUME NEW m \in Maps
    PROVE  /\ mem_high(m) \in Nat
           /\ \A i \in DOMAIN m : m[i].base + m[i].length <= mem_high(m)
  <1> DEFINE ends == {m[i].base + m[i].length : i \in DOMAIN m}
             Highest(e) == \A i \in DOMAIN m : m[i].base + m[i].length <= e
  <1>1. ends \subseteq Nat
    BY Entries
  <1>2. \E e \in ends : Highest(e)
    BY PmmAssumption, ZenonT(60)
  <1>3. mem_high(m) = CHOOSE e \in ends : Highest(e)
    BY DEF mem_high
  <1>4. mem_high(m) \in ends /\ Highest(mem_high(m))
    <2> HIDE DEF ends, Highest
    <2> QED BY <1>2, <1>3, ZenonT(60)
  <1> QED
    BY <1>1, <1>4

\* The number of frames is one, and the bitmap has a bit for each.
LEMMA Figures ==
    ASSUME NEW m \in Maps
    PROVE  /\ nframes(m) \in Nat
           /\ mmap_sz(m) \in Nat
           /\ mmap_sz(m) * BYTE >= nframes(m)
           /\ 0 .. nframes(m) - 1 \subseteq Bits(m)
  <1>1. nframes(m) \in Nat
    BY MemHigh, DivMod, PmmAssumption, ZenonT(60) DEF nframes
  <1>2. mmap_sz(m) \in Nat /\ mmap_sz(m) * BYTE >= nframes(m)
    BY <1>1, RoundUp, PmmAssumption, ZenonT(60) DEF mmap_sz
  <1>3. mmap_sz(m) * BYTE \in Nat
    BY <1>2, PmmAssumption
  <1> QED
    BY <1>1, <1>2, <1>3 DEF Bits

\* If some usable entry has room, the bitmap's frames are usable frames.
LEMMA BitmapUsable ==
    ASSUME NEW m \in Maps, Roomy(m) # {}
    PROVE  /\ bmapaddr(m) \div FRAMESZ \in Nat
           /\ (mmap_sz(m) + FRAMESZ - 1) \div FRAMESZ \in Nat
           /\ bmapaddr(m) \div FRAMESZ
                + (mmap_sz(m) + FRAMESZ - 1) \div FRAMESZ <= nframes(m)
           /\ BitmapFrames(m) \subseteq UsableFrames(m)
  <1>1. \E i \in Roomy(m) : \A j \in Roomy(m) : i <= j
    BY Least, Entries, ZenonT(60) DEF Roomy, Usable
  <1> DEFINE i == CHOOSE k \in Roomy(m) : \A j \in Roomy(m) : k <= j
             b == m[i].base \div FRAMESZ
             l == m[i].length \div FRAMESZ
             c == (mmap_sz(m) + FRAMESZ - 1) \div FRAMESZ
  <1>2. i \in Roomy(m) /\ bmapaddr(m) = m[i].base
    BY <1>1, ZenonT(60) DEF bmapaddr
  <1> HIDE DEF i
  <1>3. /\ i \in DOMAIN m /\ m[i].type = "usable"
        /\ m[i].length >= mmap_sz(m)
        /\ m[i].base \in Nat /\ m[i].length \in Nat
        /\ m[i].base % FRAMESZ = 0 /\ m[i].length % FRAMESZ = 0
    <2>1. i \in DOMAIN m /\ m[i].type = "usable" /\ m[i].length >= mmap_sz(m)
      BY <1>2 DEF Roomy, Usable
    <2> QED BY <2>1, Entries, PmmAssumption
  <1>4. /\ b \in Nat /\ l \in Nat
        /\ m[i].base = b * FRAMESZ /\ m[i].length = l * FRAMESZ
    <2>1. FRAMESZ \in Nat \ {0}
      BY PmmAssumption
    <2> QED BY <1>3, <2>1, DivExact, ZenonT(60)
  <1>5. c \in Nat /\ c <= l
    BY <1>3, <1>4, RoundUp, Figures, PmmAssumption, ZenonT(60)
  <1> HIDE DEF b, l, c
  <1>6. (m[i].base + FRAMESZ - 1) \div FRAMESZ = b
    <2>1. m[i].base + FRAMESZ - 1 = b * FRAMESZ + (FRAMESZ - 1)
      BY <1>3, <1>4, PmmAssumption
    <2>2. FRAMESZ - 1 \in 0 .. FRAMESZ - 1
      BY PmmAssumption, SMTT(60)
    <2> QED BY <1>4, <2>1, <2>2, DivMultiple, PmmAssumption, ZenonT(60)
  <1>7. (m[i].base + m[i].length) \div FRAMESZ = b + l
    <2>1. m[i].base + m[i].length = (b + l) * FRAMESZ + 0
      BY <1>3, <1>4, PmmAssumption
    <2>2. 0 \in 0 .. FRAMESZ - 1 /\ b + l \in Nat
      BY <1>4, PmmAssumption
    <2> QED BY <2>1, <2>2, DivMultiple, PmmAssumption
  <1>8. b + l <= nframes(m)
    <2>1. m[i].base + m[i].length \in Nat
      BY <1>3
    <2> QED BY <1>3, <1>7, <2>1, MemHigh, DivMono, PmmAssumption, ZenonT(60)
               DEF nframes
  <1>9. BitmapFrames(m) = b .. b + c - 1
    BY <1>2 DEF BitmapFrames, Run, b, c
  <1>10. ASSUME NEW f \in BitmapFrames(m) PROVE f \in UsableFrames(m)
    <2>1. f \in 0 .. nframes(m) - 1 /\ b <= f /\ f < b + l
      BY <1>4, <1>5, <1>8, <1>9, Figures
    <2>2. i \in Usable(m)
      BY <1>3 DEF Usable
    <2> QED BY <1>6, <1>7, <2>1, <2>2 DEF UsableFrames
  <1>11. bmapaddr(m) \div FRAMESZ = b
    BY <1>2 DEF b
  <1>12. b + c <= nframes(m)
    BY <1>4, <1>5, <1>8, Figures
  <1> QED
    BY <1>4, <1>5, <1>10, <1>11, <1>12 DEF c

\* Frame 0 is never usable: pmm_falloc's NULL is not the address of a frame.
LEMMA FrameZero ==
    ASSUME NEW m \in Maps PROVE 0 \notin UsableFrames(m)
  <1>1. FRAMESZ \in Nat \ {0}
    BY PmmAssumption
  <1>2. ASSUME NEW i \in Usable(m)
        PROVE  ~ ((m[i].base + FRAMESZ - 1) \div FRAMESZ <= 0)
    <2>1. m[i].base \in Nat /\ m[i].base > 0
      <3>1. i \in DOMAIN m /\ m[i].type = "usable"
        BY DEF Usable
      <3> QED BY <3>1, Entries, PmmAssumption, SMTT(60)
    <2>2. (1 * FRAMESZ + 0) \div FRAMESZ = 1
      BY <1>1, DivMultiple
    <2>3. m[i].base + FRAMESZ - 1 \in Nat /\ FRAMESZ <= m[i].base + FRAMESZ - 1
      BY <1>1, <2>1
    <2>4. FRAMESZ \div FRAMESZ <= (m[i].base + FRAMESZ - 1) \div FRAMESZ
      BY <1>1, <2>3, DivMono
    <2>5. (m[i].base + FRAMESZ - 1) \div FRAMESZ \in Nat
      BY <1>1, <2>3, DivMod, ZenonT(60)
    <2> QED BY <1>1, <2>2, <2>4, <2>5
  <1> QED BY <1>2 DEF UsableFrames

\* The address of a frame below the 32-bit limit is the frame's own.
LEMMA ReturnedIsIt ==
    ASSUME NEW m \in Maps, nframes(m) * FRAMESZ <= U32,
           NEW f \in 0 .. nframes(m) - 1
    PROVE  Returned(f) = f
  <1>1. FRAMESZ \in Nat \ {0} /\ U32 \in Nat \ {0} /\ f \in Nat
        /\ nframes(m) \in Nat
    BY PmmAssumption, Figures
  <1>2. f * FRAMESZ \in Nat /\ f * FRAMESZ < U32
    <2>1. f + 1 <= nframes(m)
      BY <1>1
    <2>2. (f + 1) * FRAMESZ <= nframes(m) * FRAMESZ
      BY <1>1, <2>1, SMTT(30)
    <2>3. f * FRAMESZ \in Nat /\ (f + 1) * FRAMESZ = f * FRAMESZ + FRAMESZ
      BY <1>1
    <2>4. nframes(m) * FRAMESZ \in Nat
      BY <1>1
    <2> QED BY <1>1, <2>2, <2>3, <2>4
  <1>3. (f * FRAMESZ) % U32 = f * FRAMESZ
    <2> DEFINE x == f * FRAMESZ
    <2> HIDE DEF x
    <2>1. x \in Nat /\ x < U32
      BY <1>2 DEF x
    <2>2. x % U32 = x
      BY <1>1, <2>1
    <2> QED BY <2>2 DEF x
  <1>4. (f * FRAMESZ + 0) \div FRAMESZ = f
    BY <1>1, DivMultiple
  <1>5. f * FRAMESZ + 0 = f * FRAMESZ
    BY <1>2
  <1> QED
    BY <1>3, <1>4, <1>5 DEF Returned

-----------------------------------------------------------------------------
(* The invariant.                                                          *)

\* The machine as the boot loader hands it over.
LEMMA InitPInv == Init => PInv
  <1> SUFFICES ASSUME Init PROVE PInv
    OBVIOUS
  <1>1. TypeOK
    <2>1. MaxCnt \in Nat /\ nframes(map) \in Nat
      BY PmmAssumption, Figures DEF Init
    <2> QED BY <2>1 DEF Init, TypeOK, None
  <1>2. FoundIsFree
    BY PmmAssumption DEF Init, FoundIsFree
  <1>3. BitsTell /\ NobodyYet /\ FailsOnlyWhenFull
    BY DEF Init, BitsTell, NobodyYet, FailsOnlyWhenFull
  <1> QED BY <1>1, <1>2, <1>3 DEF PInv

\* pmm_init leaves exactly the pool clear.
LEMMA InitStep == PInv /\ pmm_init => PInv'
  <1> SUFFICES ASSUME PInv, pmm_init PROVE PInv'
    OBVIOUS
  <1>0. /\ map \in Maps /\ map' = map /\ owners' = owners /\ scan' = scan
        /\ failed' = failed /\ blob' = blob
        /\ mode = "boot" /\ failed = 0
        /\ \A f \in DOMAIN owners : owners[f] = 0
        /\ DOMAIN owners = 0 .. nframes(map) - 1
        /\ scan[BSP] = None
    BY DEF PInv, TypeOK, NobodyYet, FoundIsFree, pmm_init
  <1>1. CASE Roomy(map) = {}
    <2>1. mode' = "panic" /\ taken' = taken
      BY <1>1 DEF pmm_init
    <2> QED
      BY <1>0, <2>1 DEF PInv, TypeOK, BitsTell, FoundIsFree, NobodyYet,
         FailsOnlyWhenFull
  <1>2. CASE Roomy(map) # {}
    <2> DEFINE t0 == Bits(map) \ UsableFrames(map)
               b == bmapaddr(map) \div FRAMESZ
               c == (mmap_sz(map) + FRAMESZ - 1) \div FRAMESZ
               t1 == pmm_try_resv(t0, b, c)
    <2>1. mode' = "up" /\ taken' = pmm_try_resv(t1, Tramp, 1)
      BY <1>2 DEF pmm_init
    <2>2. t1 = t0 \cup BitmapFrames(map)
      <3>1. BitmapFrames(map) = Run(b, c)
        BY DEF BitmapFrames
      <3>2. b + c <= nframes(map) /\ Run(b, c) \subseteq UsableFrames(map)
        BY <1>0, <1>2, <3>1, BitmapUsable
      <3>3. CanReserve(t0, b, c)
        BY <3>2 DEF CanReserve
      <3> HIDE DEF t0, b, c
      <3> QED BY <3>1, <3>3 DEF pmm_try_resv
    <2>3. Tramp \in Nat
      BY PmmAssumption, DivMod DEF Tramp
    <2>4. Run(Tramp, 1) = {Tramp}
      BY <2>3 DEF Run
    <2>5. UsableFrames(map) \subseteq 0 .. nframes(map) - 1
      BY DEF UsableFrames
    <2>6. nframes(map) \in Nat /\ 0 .. nframes(map) - 1 \subseteq Bits(map)
      BY <1>0, Figures
    <2>7. /\ taken' \subseteq t1 \cup {Tramp}
          /\ t1 \subseteq taken'
          /\ Tramp \in UsableFrames(map) => Tramp \in taken'
      <3>1. CASE CanReserve(t1, Tramp, 1)
        BY <2>1, <2>4, <3>1 DEF pmm_try_resv
      <3>2. CASE ~ CanReserve(t1, Tramp, 1)
        <4>1. taken' = t1
          BY <2>1, <3>2 DEF pmm_try_resv
        <4>2. ASSUME Tramp \in UsableFrames(map) PROVE Tramp \in t1
          <5>1. Tramp + 1 <= nframes(map)
            BY <2>3, <2>5, <2>6, <4>2
          <5> HIDE DEF t1
          <5> QED BY <2>4, <3>2, <5>1 DEF CanReserve
        <4> QED BY <4>1, <4>2
      <3> QED BY <3>1, <3>2, ZenonT(60)
    <2>8. taken' \subseteq Bits(map)
      <3>1. BitmapFrames(map) \subseteq Bits(map)
        BY <1>0, <1>2, <2>5, <2>6, BitmapUsable
      <3>2. t1 \subseteq Bits(map)
        BY <2>2, <3>1, ZenonT(60)
      <3>3. CASE CanReserve(t1, Tramp, 1)
        <4>1. Tramp \in 0 .. nframes(map) - 1
          BY <2>3, <2>6, <3>3 DEF CanReserve
        <4> QED BY <2>6, <2>7, <3>2, <4>1, ZenonT(60)
      <3>4. CASE ~ CanReserve(t1, Tramp, 1)
        <4>1. taken' = t1
          BY <2>1, <3>4 DEF pmm_try_resv
        <4> QED BY <3>2, <4>1, ZenonT(60)
      <3> QED BY <3>3, <3>4
    <2> HIDE DEF t1
    <2>9. \A f \in Bits(map) : f \notin taken' <=> f \in Pool
      BY <2>2, <2>7 DEF Pool
    <2>10. Pool' = Pool
      BY <1>0 DEF Pool
    <2>11. TypeOK'
      BY <1>0, <2>1, <2>8 DEF PInv, TypeOK
    <2>12. Pool \subseteq DOMAIN owners
      BY <1>0, <2>5 DEF Pool
    <2>13. BitsTell'
      BY <1>0, <2>9, <2>10, <2>12 DEF BitsTell
    <2> QED
      BY <1>0, <2>1, <2>11, <2>13 DEF PInv, FoundIsFree, NobodyYet,
         FailsOnlyWhenFull
  <1> QED BY <1>1, <1>2

\* What holds while the allocator is up, in the form the steps use it.
LEMMA WhileUp ==
    ASSUME PInv, mode = "up"
    PROVE  /\ map \in Maps
           /\ nframes(map) \in Nat
           /\ DOMAIN owners = 0 .. nframes(map) - 1
           /\ \A f \in DOMAIN owners : owners[f] \in Nat
           /\ 0 .. nframes(map) - 1 \subseteq Bits(map)
           /\ Pool \subseteq DOMAIN owners
           /\ \A f \in Bits(map) : f \notin taken <=> f \in Pool /\ owners[f] = 0
           /\ \A f \in DOMAIN owners :
                 owners[f] > 0 => owners[f] = 1 /\ f \in Pool
  <1>1. map \in Maps /\ owners \in [0 .. nframes(map) - 1 -> Nat]
    BY DEF PInv, TypeOK
  <1>2. nframes(map) \in Nat /\ 0 .. nframes(map) - 1 \subseteq Bits(map)
    BY <1>1, Figures
  <1>3. Pool \subseteq 0 .. nframes(map) - 1
    BY DEF Pool, UsableFrames
  <1> QED BY <1>1, <1>2, <1>3 DEF PInv, BitsTell

\* A call that fails: no run of that length is free.
LEMMA FailsStep ==
    ASSUME NEW c \in Cores, NEW cnt \in 1 .. MaxCnt
    PROVE  PInv /\ FallocFails(c, cnt) => PInv'
  <1> SUFFICES ASSUME PInv, FallocFails(c, cnt) PROVE PInv'
    OBVIOUS
  <1>0. /\ map' = map /\ mode' = mode /\ taken' = taken /\ owners' = owners
        /\ scan' = scan /\ blob' = blob /\ failed' = cnt
        /\ mode = "up" /\ Candidates(cnt) = {}
    BY DEF FallocFails, Ready
  <1>1. TypeOK'
    BY <1>0, PmmAssumption, SMTT(60) DEF PInv, TypeOK
  <1>2. ~ \E f \in Pool : \A g \in Run(f, cnt) : g \in Pool /\ owners[g] = 0
    <2> SUFFICES ASSUME NEW f \in Pool,
                        \A g \in Run(f, cnt) : g \in Pool /\ owners[g] = 0
                 PROVE  FALSE
      OBVIOUS
    <2>1. f \in Nat /\ cnt \in Nat \ {0}
      BY <1>0, WhileUp, PmmAssumption, SMTT(60)
    <2>2. f \in Run(f, cnt) /\ f + cnt - 1 \in Run(f, cnt)
      BY <2>1 DEF Run
    <2>3. f + cnt <= nframes(map)
      <3>1. f + cnt - 1 \in 0 .. nframes(map) - 1
        BY <1>0, <2>2, WhileUp
      <3> QED BY <1>0, <2>1, <3>1, WhileUp
    <2>4. \A g \in Run(f, cnt) : g \in Bits(map) /\ g \notin taken
      BY <1>0, WhileUp
    <2>5. CanReserve(taken, f, cnt)
      BY <2>3, <2>4 DEF CanReserve
    <2>6. f \in Bits(map) /\ ByteHasRoom(f)
      BY <2>2, <2>4 DEF ByteHasRoom
    <2> QED BY <1>0, <2>5, <2>6 DEF Candidates
  <1>3. Pool' = Pool
    BY <1>0 DEF Pool
  <1>4. FailsOnlyWhenFull'
    BY <1>0, <1>2, <1>3 DEF FailsOnlyWhenFull
  <1> QED
    BY <1>0, <1>1, <1>3, <1>4 DEF PInv, BitsTell, FoundIsFree, NobodyYet

\* A call that finds a run: its bits are clear.
LEMMA FindsStep ==
    ASSUME Sane, NEW c \in Cores, NEW cnt \in 1 .. MaxCnt
    PROVE  PInv /\ FallocFinds(c, cnt) => PInv'
  <1> SUFFICES ASSUME PInv, FallocFinds(c, cnt) PROVE PInv'
    OBVIOUS
  <1>0. PICK f \in Candidates(cnt) :
           scan' = [scan EXCEPT ![c] = [fidx |-> f, cnt |-> cnt]]
    BY ZenonT(60) DEF FallocFinds
  <1>1. /\ map' = map /\ mode' = mode /\ taken' = taken /\ owners' = owners
        /\ blob' = blob /\ failed' = 0 /\ mode = "up" /\ c = BSP
    BY DEF FallocFinds, Ready, Sane
  <1>2. scan \in [Cores -> [fidx : Bits(map) \cup {0}, cnt : 0 .. MaxCnt]]
    BY DEF PInv, TypeOK
  <1>3. f \in Bits(map) /\ CanReserve(taken, f, cnt)
    BY DEF Candidates
  <1>4. cnt \in 0 .. MaxCnt /\ cnt > 0 /\ 0 \in 0 .. MaxCnt
    BY PmmAssumption
  <1>5. TypeOK'
    BY <1>0, <1>1, <1>2, <1>3, <1>4 DEF PInv, TypeOK
  <1>6. scan'[BSP] = [fidx |-> f, cnt |-> cnt]
    BY <1>0, <1>1, <1>2
  <1>7. FoundIsFree'
    BY <1>1, <1>3, <1>4, <1>6 DEF FoundIsFree, CanReserve
  <1>8. Pool' = Pool
    BY <1>1 DEF Pool
  <1> QED
    BY <1>1, <1>5, <1>7, <1>8 DEF PInv, BitsTell, NobodyYet, FailsOnlyWhenFull

\* The run that was found is set: it had no holder and has one now.
LEMMA MarksStep ==
    ASSUME Sane, NEW c \in Cores
    PROVE  PInv /\ FallocMarks(c) => PInv'
  <1> SUFFICES ASSUME PInv, FallocMarks(c) PROVE PInv'
    OBVIOUS
  <1> DEFINE f == scan[c].fidx
             cnt == scan[c].cnt
  <1>0. c = BSP /\ scan[c] # None
    BY DEF Sane, FallocMarks
  <1>1. /\ map' = map /\ mode' = mode /\ failed' = 0
        /\ taken' = taken \cup Run(f, cnt)
        /\ owners' = [g \in DOMAIN owners |->
                        owners[g] + IF g \in Handed(f, cnt) THEN 1 ELSE 0]
        /\ blob' = BlobAfter(Run(f, cnt), Handed(f, cnt))
        /\ scan' = [scan EXCEPT ![c] = None]
    BY DEF FallocMarks
  <1>2. scan \in [Cores -> [fidx : Bits(map) \cup {0}, cnt : 0 .. MaxCnt]]
    BY DEF PInv, TypeOK
  <1>3. f \in Nat /\ cnt \in Nat
    <2>1. map \in Maps
      BY DEF PInv, TypeOK
    <2>2. mmap_sz(map) * BYTE \in Nat
      BY <2>1, Figures, PmmAssumption, SMTT(60)
    <2> QED BY <1>2, <2>2, PmmAssumption DEF Bits
  <1>4. /\ mode = "up" /\ cnt > 0
        /\ f + cnt <= nframes(map) /\ Run(f, cnt) \cap taken = {}
    BY <1>0 DEF PInv, FoundIsFree
  <1> HIDE DEF f, cnt
  <1>5. Run(f, cnt) \subseteq DOMAIN owners
    BY <1>3, <1>4, WhileUp DEF Run
  <1>6. \A g \in Run(f, cnt) : g \in Pool /\ owners[g] = 0
    BY <1>4, <1>5, WhileUp
  <1>7. Handed(f, cnt) = Run(f, cnt)
    <2>1. f \in Run(f, cnt)
      BY <1>3, <1>4 DEF Run
    <2>2. f \in 0 .. nframes(map) - 1 /\ map \in Maps
      BY <1>4, <1>5, <2>1, WhileUp
    <2>3. Returned(f) = f
      BY <2>2, ReturnedIsIt DEF Sane, Fits
    <2>4. f # 0
      BY <1>6, <2>1, <2>2, FrameZero DEF Pool
    <2> QED BY <2>3, <2>4 DEF Handed
  <1>8. \A g \in DOMAIN owners :
           owners'[g] = IF g \in Run(f, cnt) THEN 1 ELSE owners[g]
    BY <1>1, <1>4, <1>6, <1>7, WhileUp
  <1>9. DOMAIN owners' = DOMAIN owners
    BY <1>1
  <1>10. Pool' = Pool
    BY <1>1 DEF Pool
  <1>11. TypeOK'
    <2>1. taken' \subseteq Bits(map)
      BY <1>1, <1>4, <1>5, WhileUp DEF PInv, TypeOK
    <2>2. owners' \in [0 .. nframes(map) - 1 -> Nat]
      BY <1>1, <1>4, <1>8, <1>9, WhileUp, SMTT(60)
    <2>3. scan' \in [Cores -> [fidx : Bits(map) \cup {0}, cnt : 0 .. MaxCnt]]
      BY <1>1, <1>2, PmmAssumption, SMTT(60) DEF None
    <2>4. blob' \in {"absent", "intact", "spoilt"} /\ failed' \in 0 .. MaxCnt
      BY <1>1, PmmAssumption, SMTT(60) DEF PInv, TypeOK, BlobAfter
    <2> QED BY <1>1, <2>1, <2>2, <2>3, <2>4 DEF PInv, TypeOK
  <1>12. BitsTell'
    <2>1. \A g \in Bits(map) : g \notin taken' <=> g \in Pool /\ owners'[g] = 0
      BY <1>1, <1>4, <1>5, <1>6, <1>8, WhileUp, SMTT(60)
    <2>2. \A g \in DOMAIN owners : owners'[g] > 0 => owners'[g] = 1 /\ g \in Pool
      BY <1>4, <1>6, <1>8, WhileUp
    <2> QED BY <1>1, <1>9, <1>10, <2>1, <2>2, SMTT(60) DEF BitsTell
  <1>13. FoundIsFree'
    BY <1>0, <1>1, <1>2 DEF FoundIsFree
  <1> QED
    BY <1>1, <1>4, <1>11, <1>12, <1>13 DEF PInv, NobodyYet,
       FailsOnlyWhenFull

\* A holder gives frames back: they were its own and are clear again.
LEMMA FreeStep ==
    ASSUME Sane, NEW c \in Cores, NEW f \in DOMAIN owners,
           NEW cnt \in 1 .. MaxCnt
    PROVE  PInv /\ pmm_ffree(c, f, cnt) => PInv'
  <1> SUFFICES ASSUME PInv, pmm_ffree(c, f, cnt) PROVE PInv'
    OBVIOUS
  <1>1. /\ map' = map /\ mode' = mode /\ scan' = scan /\ failed' = 0
        /\ taken' = taken \ Run(f, cnt)
        /\ owners' = [g \in DOMAIN owners |->
                        owners[g] - IF g \in Run(f, cnt) THEN 1 ELSE 0]
        /\ blob' = BlobAfter(Run(f, cnt), {})
        /\ mode = "up" /\ scan[c] = None /\ c = BSP
        /\ \A g \in Run(f, cnt) : g \in DOMAIN owners /\ owners[g] > 0
    BY DEF pmm_ffree, Ready, Sane
  <1>2. \A g \in Run(f, cnt) : g \in Pool /\ owners[g] = 1
    BY <1>1, WhileUp
  <1>3. \A g \in DOMAIN owners :
           owners'[g] = IF g \in Run(f, cnt) THEN 0 ELSE owners[g]
    BY <1>1, <1>2, WhileUp
  <1>4. DOMAIN owners' = DOMAIN owners
    BY <1>1
  <1>5. Pool' = Pool
    BY <1>1 DEF Pool
  <1>6. TypeOK'
    <2>1. owners' \in [0 .. nframes(map) - 1 -> Nat]
      BY <1>1, <1>3, <1>4, WhileUp, SMTT(60)
    <2>2. blob' \in {"absent", "intact", "spoilt"} /\ failed' \in 0 .. MaxCnt
      BY <1>1, PmmAssumption, SMTT(60) DEF PInv, TypeOK, BlobAfter
    <2> QED BY <1>1, <2>1, <2>2 DEF PInv, TypeOK
  <1>7. BitsTell'
    <2>1. \A g \in Bits(map) : g \notin taken' <=> g \in Pool /\ owners'[g] = 0
      BY <1>1, <1>2, <1>3, WhileUp
    <2>2. \A g \in DOMAIN owners : owners'[g] > 0 => owners'[g] = 1 /\ g \in Pool
      BY <1>1, <1>3, WhileUp
    <2> QED BY <1>1, <1>4, <1>5, <2>1, <2>2 DEF BitsTell
  <1> QED
    <2>1. FoundIsFree'
      BY <1>1 DEF PInv, FoundIsFree, Sane
    <2>2. NobodyYet' /\ FailsOnlyWhenFull'
      BY <1>1 DEF NobodyYet, FailsOnlyWhenFull
    <2> QED BY <1>6, <1>7, <2>1, <2>2, SMTT(60) DEF PInv

\* The blob is copied where no bit lies.
LEMMA BlobStep ==
    PInv /\ init_smpcode /\ BitmapKept' => PInv'
  <1> SUFFICES ASSUME PInv, init_smpcode, BitmapKept' PROVE PInv'
    OBVIOUS
  <1>1. /\ map' = map /\ mode' = mode /\ scan' = scan /\ failed' = 0
        /\ owners' = owners /\ mode = "up" /\ blob' \in {"intact", "spoilt"}
    BY DEF init_smpcode
  <1>2. taken' = taken
    <2>1. UnderBlob(map)' = UnderBlob(map)
      BY <1>1 DEF UnderBlob, Bits, mmap_sz, nframes, mem_high, bmapaddr, Roomy, Usable
    <2>2. UnderBlob(map) = {}
      BY <1>1, <2>1 DEF BitmapKept
    <2> QED BY <2>2 DEF init_smpcode
  <1>4. Pool' = Pool
    BY <1>1 DEF Pool
  <1>5. TypeOK'
    BY <1>1, <1>2, PmmAssumption, SMTT(60) DEF PInv, TypeOK
  <1> QED
    <2>1. BitsTell'
      BY <1>1, <1>2, <1>4 DEF PInv, BitsTell
    <2>2. FoundIsFree'
      BY <1>1, <1>2 DEF PInv, FoundIsFree
    <2>3. NobodyYet' /\ FailsOnlyWhenFull'
      BY <1>1 DEF NobodyYet, FailsOnlyWhenFull
    <2> QED BY <1>5, <2>1, <2>2, <2>3 DEF PInv

\* A bitmap that is kept was kept before.
LEMMA KeptBefore ==
    ASSUME [Next]_vars, BitmapKept' PROVE BitmapKept
  <1>1. CASE blob = "absent"
    BY <1>1 DEF BitmapKept
  <1>2. CASE blob # "absent"
    <2>1. map' = map /\ blob' # "absent"
      BY <1>2 DEF Next, vars, pmm_init, init_smpcode, FallocFails, FallocFinds,
         FallocMarks, pmm_ffree, BlobAfter
    <2>2. UnderBlob(map)' = UnderBlob(map)
      BY <2>1 DEF UnderBlob, Bits, mmap_sz, nframes, mem_high, bmapaddr, Roomy, Usable
    <2> QED BY <2>1, <2>2 DEF BitmapKept
  <1> QED BY <1>1, <1>2

\* Every step keeps the invariant while it keeps the bitmap.
LEMMA NextPInv ==
    ASSUME Sane PROVE (BitmapKept => PInv) /\ [Next]_vars => (BitmapKept => PInv)'
  <1> SUFFICES ASSUME BitmapKept => PInv, [Next]_vars, BitmapKept' PROVE PInv'
    OBVIOUS
  <1>0. PInv
    BY KeptBefore
  <1>1. CASE pmm_init
    BY <1>0, <1>1, InitStep
  <1>2. CASE init_smpcode
    BY <1>0, <1>2, BlobStep
  <1>3. ASSUME NEW c \in Cores, NEW cnt \in 1 .. MaxCnt, FallocFails(c, cnt)
        PROVE  PInv'
    BY <1>0, <1>3, FailsStep
  <1>4. ASSUME NEW c \in Cores, NEW cnt \in 1 .. MaxCnt, FallocFinds(c, cnt)
        PROVE  PInv'
    BY <1>0, <1>4, FindsStep
  <1>5. ASSUME NEW c \in Cores, NEW cnt \in 1 .. MaxCnt,
               NEW f \in DOMAIN owners, pmm_ffree(c, f, cnt)
        PROVE  PInv'
    BY <1>0, <1>5, FreeStep
  <1>6. ASSUME NEW c \in Cores, FallocMarks(c) PROVE PInv'
    BY <1>0, <1>6, MarksStep, SMTT(60)
  <1>7. CASE UNCHANGED vars
    BY <1>0, <1>7 DEF PInv, TypeOK, BitsTell, FoundIsFree, NobodyYet,
       FailsOnlyWhenFull, BitmapKept, Pool, vars
  <1> QED
    BY <1>1, <1>2, <1>3, <1>4, <1>5, <1>6, <1>7 DEF Next

\* The invariant holds as long as the bitmap is kept.
LEMMA PInvAlways ==
    ASSUME Sane PROVE Spec => [](BitmapKept => PInv)
  <1>1. Init => (BitmapKept => PInv)
    BY InitPInv
  <1> QED BY <1>1, NextPInv, PTL DEF Spec

-----------------------------------------------------------------------------
(* The theorems.                                                           *)

\* No frame has two holders, and no holder has memory that is not usable or
\* that is the bitmap's (pmm_falloc, pmm_ffree).
LEMMA FramesNotShared == PInv => FramesExclusive
  <1> SUFFICES ASSUME PInv PROVE FramesExclusive
    OBVIOUS
  <1>1. CASE mode = "up"
    BY <1>1, WhileUp DEF FramesExclusive, Pool
  <1>2. CASE mode # "up"
    BY <1>2 DEF PInv, NobodyYet, FramesExclusive
  <1> QED BY <1>1, <1>2

\* The clear bits are the frames nobody holds: nothing leaks (pmm_try_resv).
LEMMA NoFrameLost == PInv => NothingLost
  <1> SUFFICES ASSUME PInv, mode = "up"
               PROVE  (Bits(map) \ taken) \ {Tramp} = {f \in Pool : owners[f] = 0}
    BY DEF NothingLost
  <1>1. Tramp \notin Pool
    BY DEF Pool
  <1>2. Pool \subseteq Bits(map)
    BY WhileUp
  <1> QED BY <1>1, <1>2, WhileUp

\* On one core, every frame of the pool is held once or clear until the blob is
\* copied over the bitmap, whatever the map (pmm_try_resv, pmm_ffree).
THEOREM FramesAreAccounted ==
    ASSUME Sane PROVE Spec => []FramesAccounted
  <1>1. (BitmapKept => PInv) => FramesAccounted
    BY FramesNotShared, NoFrameLost DEF FramesAccounted
  <1> QED BY <1>1, PInvAlways, PTL

\* On one core, and until then, pmm_falloc fails only if there is no free run of
\* the length asked for.
THEOREM FailureMeansFull ==
    ASSUME Sane PROVE Spec => []FailsOnlyWhenFull
  <1>1. (BitmapKept => PInv) => FailsOnlyWhenFull
    BY DEF PInv, FailsOnlyWhenFull
  <1> QED BY <1>1, PInvAlways, PTL

-----------------------------------------------------------------------------
(* The startup page, on any number of cores and with any map.              *)

\* The bit of the startup page is set for good: no core has found a run with
\* the page in it, and nobody holds it.
PageInv ==
    /\ map \in Maps
    /\ owners \in [0 .. nframes(map) - 1 -> Nat]
    /\ mode \in {"boot", "up", "panic"}
    /\ mode # "up" => blob = "absent" /\ \A c \in Cores : scan[c] = None
    /\ scan \in [Cores -> [fidx : Nat, cnt : Nat]]
    /\ \A f \in DOMAIN owners : mode # "up" => owners[f] = 0
    /\ mode = "up" => Roomy(map) # {}
    /\ mode = "up" /\ bmapaddr(map) # TRAMP =>
          /\ Tramp < nframes(map) => Tramp \in taken /\ owners[Tramp] = 0
          /\ \A c \in Cores : scan[c] # None =>
                /\ scan[c].fidx + scan[c].cnt <= nframes(map)
                /\ Tramp \notin Run(scan[c].fidx, scan[c].cnt)
                /\ scan[c].cnt > 0
          /\ blob = "spoilt" => UnderBlob(map) # {}

\* The startup page has a number, and its bit lies outside the blob unless the
\* bitmap begins in the page.
LEMMA TrampBit ==
    ASSUME NEW m \in Maps, Roomy(m) # {}, bmapaddr(m) # TRAMP
    PROVE  Tramp \in Nat /\ Tramp \notin UnderBlob(m)
  <1>1. /\ FRAMESZ \in Nat \ {0} /\ TRAMP \in Nat /\ TRAMP % FRAMESZ = 0
        /\ BLOBSZ \in 0 .. FRAMESZ /\ BYTE \in Nat \ {0}
        /\ Tramp \div BYTE < FRAMESZ
    BY PmmAssumption DEF Tramp
  <1>2. Tramp \in Nat /\ TRAMP = Tramp * FRAMESZ
    BY <1>1, DivExact, ZenonT(60) DEF Tramp
  <1>3. bmapaddr(m) \in Nat /\ bmapaddr(m) % FRAMESZ = 0
    <2>1. \E i \in Roomy(m) : \A j \in Roomy(m) : i <= j
      BY Least, Entries, ZenonT(60) DEF Roomy, Usable
    <2> DEFINE i == CHOOSE k \in Roomy(m) : \A j \in Roomy(m) : k <= j
    <2>2. i \in Roomy(m) /\ bmapaddr(m) = m[i].base
      BY <2>1, ZenonT(60) DEF bmapaddr
    <2> HIDE DEF i
    <2>3. i \in DOMAIN m /\ m[i].type = "usable"
      BY <2>2 DEF Roomy, Usable
    <2> QED BY <2>2, <2>3, Entries, PmmAssumption
  <1> DEFINE a == bmapaddr(m)
             b == a \div FRAMESZ
             q == Tramp \div BYTE
  <1>4. b \in Nat /\ a = b * FRAMESZ /\ q \in Nat
    <2>1. b \in Nat /\ a = b * FRAMESZ
      BY <1>1, <1>3, DivExact, ZenonT(60)
    <2>2. q \in Nat
      BY <1>1, <1>2, DivMod, ZenonT(60)
    <2> QED BY <2>1, <2>2
  <1>5. b # Tramp
    BY <1>2, <1>4
  <1> HIDE DEF a, b, q
  <1>6. CASE b < Tramp
    <2>1. (b + 1) * FRAMESZ <= Tramp * FRAMESZ
      BY <1>1, <1>2, <1>4, <1>6, SMTT(30)
    <2>2. (b + 1) * FRAMESZ = b * FRAMESZ + FRAMESZ /\ b * FRAMESZ \in Nat
      BY <1>1, <1>4
    <2>3. a + q < TRAMP
      BY <1>1, <1>2, <1>4, <2>1, <2>2 DEF q
    <2>4. a \in Nat
      BY <1>4, <2>2
    <2> QED BY <1>1, <1>2, <1>4, <2>3, <2>4 DEF UnderBlob, a, q
  <1>7. CASE Tramp < b
    <2>1. (Tramp + 1) * FRAMESZ <= b * FRAMESZ
      BY <1>1, <1>2, <1>4, <1>7, SMTT(30)
    <2>2. (Tramp + 1) * FRAMESZ = Tramp * FRAMESZ + FRAMESZ /\ b * FRAMESZ \in Nat
      BY <1>1, <1>2, <1>4
    <2>3. a + q >= TRAMP + BLOBSZ
      BY <1>1, <1>2, <1>4, <2>1, <2>2
    <2>4. a \in Nat
      BY <1>4, <2>2
    <2> QED BY <1>1, <1>2, <1>4, <2>3, <2>4 DEF UnderBlob, a, q
  <1> QED BY <1>2, <1>4, <1>5, <1>6, <1>7

\* What a core was handed is the run whose bits it set, and the startup page is
\* not in it.
LEMMA HandedNotTramp ==
    ASSUME Fits, NEW m \in Maps, NEW f \in Nat, NEW cnt \in Nat, cnt > 0,
           f + cnt <= nframes(m), Tramp \notin Run(f, cnt)
    PROVE  Tramp \notin Handed(f, cnt)
  <1>1. f \in 0 .. nframes(m) - 1
    BY Figures
  <1>2. Returned(f) = f
    BY <1>1, ReturnedIsIt DEF Fits
  <1> QED BY <1>2 DEF Handed

\* pmm_init reserves the page if it is below mem_high.
LEMMA InitKeepsPage == PageInv /\ pmm_init => PageInv'
  <1> SUFFICES ASSUME PageInv, pmm_init PROVE PageInv'
    OBVIOUS
  <1>1. /\ map' = map /\ owners' = owners /\ scan' = scan /\ blob' = blob
        /\ mode = "boot" /\ blob = "absent" /\ map \in Maps
        /\ \A c \in Cores : scan[c] = None
        /\ \A f \in DOMAIN owners : owners[f] = 0
    BY DEF PageInv, pmm_init
  <1>2. CASE Roomy(map) = {}
    <2>1. mode' = "panic"
      BY <1>2 DEF pmm_init
    <2> QED BY <1>1, <2>1 DEF PageInv
  <1>3. CASE Roomy(map) # {}
    <2> DEFINE t1 == pmm_try_resv(Bits(map) \ UsableFrames(map),
                                  bmapaddr(map) \div FRAMESZ,
                                  (mmap_sz(map) + FRAMESZ - 1) \div FRAMESZ)
    <2>1. mode' = "up" /\ taken' = pmm_try_resv(t1, Tramp, 1)
      BY <1>3 DEF pmm_init
    <2> HIDE DEF t1
    <2>2. Tramp \in Nat /\ nframes(map) \in Nat
      BY <1>1, PmmAssumption, DivMod, Figures DEF Tramp
    <2>3. Run(Tramp, 1) = {Tramp}
      BY <2>2 DEF Run
    <2>4. ASSUME Tramp < nframes(map) PROVE Tramp \in taken'
      BY <2>1, <2>2, <2>3, <2>4 DEF pmm_try_resv, CanReserve
    <2>5. ASSUME Tramp < nframes(map) PROVE owners[Tramp] = 0
      BY <1>1, <2>2, <2>5 DEF PageInv
    <2>6. Roomy(map)' = Roomy(map) /\ nframes(map)' = nframes(map)
      BY <1>1 DEF Roomy, Usable, mmap_sz, nframes, mem_high
    <2> QED BY <1>1, <1>3, <2>1, <2>4, <2>5, <2>6 DEF PageInv
  <1> QED BY <1>2, <1>3

\* Nothing clears the page's bit or hands the page out.
LEMMA StepKeepsPage ==
    ASSUME Fits, PageInv, [Next]_vars
    PROVE  PageInv'
  <1> DEFINE Scans == [Cores -> [fidx : Nat, cnt : Nat]]
  <1>1. CASE pmm_init
    BY <1>1, InitKeepsPage
  <1>2. CASE UNCHANGED vars
    BY <1>2 DEF PageInv, vars
  <1>3. ASSUME mode = "up", map' = map, mode' = mode
        PROVE  /\ map \in Maps /\ Roomy(map) # {} /\ nframes(map) \in Nat
               /\ bmapaddr(map) # TRAMP => Tramp \in Nat /\ Tramp \notin UnderBlob(map)
               /\ map' \in Maps /\ mode' \in {"boot", "up", "panic"}
               /\ Roomy(map') # {} /\ nframes(map') = nframes(map)
               /\ DOMAIN owners = 0 .. nframes(map) - 1
    BY <1>3, TrampBit, Figures DEF PageInv
  <1>4. CASE init_smpcode
    <2>1. /\ map' = map /\ mode' = mode /\ owners' = owners /\ scan' = scan
          /\ mode = "up"
          /\ blob' = IF Tramp \in DOMAIN owners /\ owners[Tramp] > 0
                     THEN "spoilt" ELSE "intact"
          /\ \A f : f \in taken /\ f \notin UnderBlob(map) => f \in taken'
      BY <1>4 DEF init_smpcode
    <2>2. bmapaddr(map) # TRAMP => blob' = "intact"
      BY <1>3, <2>1 DEF PageInv
    <2> QED BY <1>3, <2>1, <2>2 DEF PageInv
  <1>5. ASSUME NEW c \in Cores, NEW cnt \in 1 .. MaxCnt, FallocFails(c, cnt)
        PROVE  PageInv'
    BY <1>5 DEF FallocFails, PageInv
  <1>6. ASSUME NEW c \in Cores, NEW cnt \in 1 .. MaxCnt, FallocFinds(c, cnt)
        PROVE  PageInv'
    <2>1. PICK f \in Candidates(cnt) :
             scan' = [scan EXCEPT ![c] = [fidx |-> f, cnt |-> cnt]]
      BY <1>6, ZenonT(60) DEF FallocFinds
    <2>2. /\ map' = map /\ mode' = mode /\ taken' = taken /\ owners' = owners
          /\ blob' = blob /\ mode = "up"
      BY <1>6 DEF FallocFinds, Ready
    <2>3. f \in Bits(map) /\ CanReserve(taken, f, cnt)
      BY DEF Candidates
    <2>4. f \in Nat /\ cnt \in Nat /\ cnt > 0
      <3>1. mmap_sz(map) * BYTE \in Nat
        BY <1>3, <2>2, Figures, PmmAssumption, SMTT(60)
      <3> QED BY <2>3, <3>1, PmmAssumption DEF Bits
    <2>5. f + cnt <= nframes(map) /\ Run(f, cnt) \cap taken = {}
      BY <2>3 DEF CanReserve
    <2>6. bmapaddr(map) # TRAMP => Tramp \notin Run(f, cnt)
      <3> SUFFICES ASSUME bmapaddr(map) # TRAMP, Tramp \in Run(f, cnt) PROVE FALSE
        OBVIOUS
      <3>1. Tramp < nframes(map)
        BY <1>3, <2>2, <2>4, <2>5 DEF Run
      <3> QED BY <2>2, <2>5, <3>1 DEF PageInv
    <2>7. scan \in Scans
      BY DEF PageInv
    <2>8. scan' \in Scans
      BY <2>1, <2>4, <2>7
    <2>9. \A d \in Cores : scan'[d] = IF d = c THEN [fidx |-> f, cnt |-> cnt] ELSE scan[d]
      BY <2>1, <2>7
    <2>10. ASSUME bmapaddr(map) # TRAMP, NEW d \in Cores, scan'[d] # None
           PROVE  /\ scan'[d].fidx + scan'[d].cnt <= nframes(map)
                  /\ Tramp \notin Run(scan'[d].fidx, scan'[d].cnt)
                  /\ scan'[d].cnt > 0
      <3>1. CASE d = c
        BY <2>4, <2>5, <2>6, <2>9, <2>10, <3>1
      <3>2. CASE d # c
        BY <2>2, <2>9, <2>10, <3>2 DEF PageInv
      <3> QED BY <3>1, <3>2
    <2> QED BY <1>3, <2>2, <2>8, <2>10 DEF PageInv
  <1>7. ASSUME NEW c \in Cores, FallocMarks(c) PROVE PageInv'
    <2> DEFINE f == scan[c].fidx
               cnt == scan[c].cnt
    <2>1. /\ map' = map /\ mode' = mode /\ scan[c] # None
          /\ taken' = taken \cup Run(f, cnt)
          /\ owners' = [g \in DOMAIN owners |->
                          owners[g] + IF g \in Handed(f, cnt) THEN 1 ELSE 0]
          /\ blob' = BlobAfter(Run(f, cnt), Handed(f, cnt))
          /\ scan' = [scan EXCEPT ![c] = None]
      BY <1>7 DEF FallocMarks
    <2>2. mode = "up" /\ f \in Nat /\ cnt \in Nat
      BY <2>1 DEF PageInv
    <2>3. ASSUME bmapaddr(map) # TRAMP PROVE Tramp \notin Handed(f, cnt)
      <3>1. f + cnt <= nframes(map) /\ Tramp \notin Run(f, cnt) /\ cnt > 0
        BY <2>1, <2>2, <2>3 DEF PageInv
      <3>2. map \in Maps
        BY DEF PageInv
      <3> HIDE DEF f, cnt
      <3> QED BY <2>2, <3>1, <3>2, HandedNotTramp
    <2> HIDE DEF f, cnt
    <2>4. \A g \in DOMAIN owners :
             owners'[g] = owners[g] + IF g \in Handed(f, cnt) THEN 1 ELSE 0
      BY <2>1
    <2>5. owners' \in [0 .. nframes(map) - 1 -> Nat]
      <3>1. owners \in [0 .. nframes(map) - 1 -> Nat]
        BY DEF PageInv
      <3>2. \A g \in DOMAIN owners : owners[g] \in Nat
        BY <3>1
      <3> QED BY <2>1, <3>1, <3>2
    <2>6. scan \in Scans /\ None \in [fidx : Nat, cnt : Nat]
      BY DEF PageInv, None
    <2>7. scan' \in Scans
      BY <2>1, <2>6
    <2>8. \A d \in Cores : scan'[d] = IF d = c THEN None ELSE scan[d]
      BY <2>1, <2>6
    <2>9. bmapaddr(map) # TRAMP /\ blob' = "spoilt" => UnderBlob(map) # {}
      BY <2>1, <2>2, <2>3 DEF BlobAfter, PageInv
    <2>10. ASSUME bmapaddr(map) # TRAMP, Tramp < nframes(map)
           PROVE  Tramp \in taken' /\ owners'[Tramp] = 0
      <3>1. Tramp \in DOMAIN owners /\ Tramp \in taken /\ owners[Tramp] = 0
        BY <1>3, <2>1, <2>2, <2>10 DEF PageInv
      <3> QED BY <2>1, <2>3, <2>4, <2>10, <3>1
    <2> QED BY <1>3, <2>1, <2>2, <2>5, <2>7, <2>8, <2>9, <2>10, SMTT(30) DEF PageInv
  <1>8. ASSUME NEW c \in Cores, NEW f \in DOMAIN owners, NEW cnt \in 1 .. MaxCnt,
               pmm_ffree(c, f, cnt)
        PROVE  PageInv'
    <2>1. /\ map' = map /\ mode' = mode /\ scan' = scan /\ mode = "up"
          /\ taken' = taken \ Run(f, cnt)
          /\ owners' = [g \in DOMAIN owners |->
                          owners[g] - IF g \in Run(f, cnt) THEN 1 ELSE 0]
          /\ blob' = BlobAfter(Run(f, cnt), {})
          /\ \A g \in Run(f, cnt) : g \in DOMAIN owners /\ owners[g] > 0
      BY <1>8 DEF pmm_ffree, Ready
    <2>2. owners' \in [0 .. nframes(map) - 1 -> Nat]
      <3>1. owners \in [0 .. nframes(map) - 1 -> Nat]
        BY DEF PageInv
      <3>2. \A g \in DOMAIN owners :
               owners[g] \in Nat /\ (g \in Run(f, cnt) => owners[g] - 1 \in Nat)
        BY <2>1, <3>1
      <3> QED BY <2>1, <3>1, <3>2
    <2>3. ASSUME bmapaddr(map) # TRAMP, Tramp < nframes(map)
          PROVE  Tramp \in taken' /\ owners'[Tramp] = 0
      <3>1. Tramp \in DOMAIN owners /\ Tramp \in taken /\ owners[Tramp] = 0
        BY <1>3, <2>1, <2>3 DEF PageInv
      <3>2. Tramp \notin Run(f, cnt)
        BY <2>1, <3>1
      <3> QED BY <2>1, <3>1, <3>2
    <2>4. bmapaddr(map) # TRAMP /\ blob' = "spoilt" => UnderBlob(map) # {}
      BY <2>1 DEF BlobAfter, PageInv
    <2> QED BY <1>3, <2>1, <2>2, <2>3, <2>4 DEF PageInv
  <1> QED
    BY <1>1, <1>2, <1>4, <1>5, <1>6, <1>7, <1>8 DEF Next

\* On any number of cores, whose calls may interleave, and with any map, also
\* where the startup blob lies over the bitmap, nobody is handed the startup
\* page (pmm_init's last reservation).
THEOREM StartupPageIsKept ==
    ASSUME Fits PROVE Spec => []StartupPageKept
  <1>1. Init => PageInv
    <2> SUFFICES ASSUME Init PROVE PageInv
      OBVIOUS
    <2>1. None \in [fidx : Nat, cnt : Nat]
      BY DEF None
    <2> QED BY <2>1 DEF Init, PageInv
  <1>2. PageInv /\ [Next]_vars => PageInv'
    BY StepKeepsPage
  <1>3. PageInv => StartupPageKept
    <2> SUFFICES ASSUME PageInv, mode = "up", bmapaddr(map) # TRAMP
                 PROVE  /\ Tramp \in DOMAIN owners => owners[Tramp] = 0
                        /\ blob = "spoilt" => UnderBlob(map) # {}
      BY DEF StartupPageKept
    <2>1. nframes(map) \in Nat /\ DOMAIN owners = 0 .. nframes(map) - 1
      BY Figures DEF PageInv
    <2> QED BY <2>1 DEF PageInv
  <1> QED BY <1>1, <1>2, <1>3, PTL DEF Spec
=============================================================================
