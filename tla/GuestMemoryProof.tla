-------------------------- MODULE GuestMemoryProof --------------------------
(***************************************************************************)
(* For every space, image and sequence of the guest's calls: mmap offers no *)
(* page below LOW to the host (HeapNotOffered), an mmap without MAP_FIXED   *)
(* changes no mapped byte (NoClobber), and brk adds zeroed memory to the    *)
(* heap (BrkZeroes). These follow from the invariant MemInv. LoadElf puts   *)
(* every regular segment in its place (SegmentsLoaded): by LoadInv, each    *)
(* segment so far is in, and a segment changes nothing below its own page.  *)
(* StackLaidOut holds for arguments of every number and length. An mmap     *)
(* fails only when there is no room (FailsOnlyWhenFull): by SearchInv, the  *)
(* search has never passed a long enough run of free, unmarked pages.       *)
(***************************************************************************)
EXTENDS GuestMemory, WellFoundedInduction, TLAPS

-----------------------------------------------------------------------------
(* Arithmetic and the least page. *)

\* A set of natural numbers has a least one.
LEMMA LeastNatural ==
  ASSUME NEW T, T \subseteq Nat, T # {}
  PROVE  \E x \in T : \A y \in T : x <= y
<1> DEFINE R == OpToRel(<, Nat)
<1>1. IsWellFoundedOn(R, Nat)
  BY NatLessThanWellFounded
<1>2. \A a, b \in Nat : a < b => <<a, b>> \in R
  BY Zenon DEF OpToRel
<1> HIDE DEF R
<1>3. PICK x \in T : \A y \in T : ~(<<y, x>> \in R)
  BY <1>1, WFMin
<1>4. ASSUME NEW y \in T PROVE x <= y
  <2>1. ~(y < x)
    BY <1>2, <1>3, Zenon
  <2> QED
    BY <2>1
<1> QED
  BY <1>4, Zenon

\* The minimum of the free pages that LookupFreeRange collects exists.
LEMMA MinIn ==
  ASSUME NEW T, T \subseteq Nat, T # {}
  PROVE  Min(T) \in T
  BY LeastNatural DEF Min

\* The break after a segment is a natural number.
LEMMA MaxOfTwo ==
  ASSUME NEW a \in Nat, NEW b \in Nat
  PROVE  Max({a, b}) \in Nat
<1>1. \E x \in {a, b} : \A y \in {a, b} : x >= y
  OBVIOUS
<1> QED
  BY <1>1 DEF Max

\* roundup is exact on the lengths of whole pages that mmap maps.
LEMMA RoundupPages ==
  ASSUME NEW k \in Nat
  PROVE  roundup(k * PAGE_SIZE) = k * PAGE_SIZE
<1>1. PAGE_SIZE \in Nat /\ PAGE_SIZE > 0
  BY SpaceAssumption
<1>2. ASSUME NEW x \in Int, x = k * PAGE_SIZE + PAGE_SIZE - 1
      PROVE  x \div PAGE_SIZE = k
  BY <1>1, <1>2
<1>3. k * PAGE_SIZE + PAGE_SIZE - 1 \in Int
  BY <1>1
<1> QED
  BY <1>2, <1>3 DEF roundup

\* roundup never rounds down.
LEMMA RoundupUp ==
  ASSUME NEW x \in Nat
  PROVE  roundup(x) \in Nat /\ x <= roundup(x)
<1>1. PAGE_SIZE \in Nat /\ PAGE_SIZE > 0
  BY SpaceAssumption
<1> DEFINE y == x + PAGE_SIZE - 1
           q == y \div PAGE_SIZE
<1>2. y \in Int
  BY <1>1
<1>3. q \in Int /\ y < q * PAGE_SIZE + PAGE_SIZE
  <2> HIDE DEF y
  <2> QED
    BY <1>1, <1>2
<1>4. q * PAGE_SIZE \in Int
  BY <1>1, <1>3
<1> QED
  BY <1>1, <1>3, <1>4 DEF roundup

-----------------------------------------------------------------------------
(* The invariant: the pages below LOW stay marked, whatever is mapped there, *)
(* and a request is in hand only while the guest waits for it.               *)

Requests == [plen : Nat \ {0}, paddr : Nat, wrapped : BOOLEAN, try : BOOLEAN]

Marked(s) == s = [mem |-> s.mem, used |-> s.used] /\ 0 .. LOW - 1 \subseteq s.used

MemInv ==
  /\ Marked(vm)
  /\ hint \in Nat
  /\ brk \in Nat
  /\ req = NoReq \/ (phase = "run" /\ req \in Requests)
  /\ phase = "init" => seg = 0
  /\ phase = "load" => image \in Images /\ seg \in 0 .. Len(image) - 1
  /\ HeapNotOffered

\* mmap with MAP_FIXED only adds marks to the bitmap.
LEMMA FixedMarked ==
  ASSUME NEW s, Marked(s), NEW vaddr, NEW len, NEW contents
  PROVE  Marked(Fixed(s, vaddr, len, contents))
BY DEF Marked, Fixed, MarkUsedPages

\* memset leaves the bitmap alone.
LEMMA MemsetMarked ==
  ASSUME NEW s, Marked(s), NEW start, NEW len
  PROVE  Marked(memset(s, start, len))
BY DEF Marked, memset

\* Loading a segment only adds marks to the bitmap.
LEMMA SegmentMarked ==
  ASSUME NEW s, Marked(s), NEW ph
  PROVE  Marked(LoadSegment(s, ph))
<1> DEFINE page == rounddown(ph.vaddr)
           po   == ph.vaddr - page
           file == Fixed(s, page, ph.filesz + po, FileBytes(ph))
           anon == Fixed(s, page, ph.memsz + po, Anon)
<1>1. Marked(file)
  BY FixedMarked
<1>2. Marked(anon)
  BY FixedMarked
<1>3. Marked(LoadBss(file, ph))
  <2> HIDE DEF file
  <2> QED
    BY <1>1, FixedMarked, MemsetMarked DEF LoadBss
<1>4. LoadSegment(s, ph) =
        CASE ph.filesz # 0 /\ ph.memsz > ph.filesz  -> LoadBss(file, ph)
          [] ph.filesz # 0 /\ ph.memsz <= ph.filesz -> file
          [] ph.filesz = 0 /\ ph.memsz # 0          -> anon
          [] OTHER                                  -> s
  BY Zenon DEF LoadSegment
<1> HIDE DEF file, anon
<1> QED
  BY <1>1, <1>2, <1>3, <1>4

\* What the search finds is not below LOW: the pages there are marked.
LEMMA FoundAboveLow ==
  ASSUME MemInv, req \in Requests, Found # 0
  PROVE  Found \in Nat /\ Found >= LOW
<1> DEFINE starts == {p \in req.paddr .. PAGES - req.plen :
                        (p .. p + req.plen - 1) \cap vm.used = {}}
<1>1. PAGES \in Nat /\ LOW \in Nat
  BY SpaceAssumption
<1>2. req.plen \in Nat \ {0} /\ req.paddr \in Nat
  BY DEF Requests
<1>3. Found = Min(starts) /\ starts # {}
  BY DEF Found, LookupFreeRange
<1>4. starts \subseteq Nat
  BY <1>1, <1>2
<1>5. Found \in starts
  <2> HIDE DEF starts
  <2> QED
    BY <1>3, <1>4, MinIn
<1>6. Found \in Nat /\ Found \notin vm.used
  BY <1>1, <1>2, <1>5
<1> QED
  BY <1>1, <1>6 DEF MemInv, Marked

\* Mmu::Init and an unstarted process.
LEMMA InitMemInv == Init => MemInv
<1> SUFFICES ASSUME Init PROVE MemInv
  OBVIOUS
<1>1. Marked(vm)
  BY DEF Init, Marked, MarkUsedPages
<1>2. hint \in Nat /\ brk \in Nat
  BY SpaceAssumption DEF Init
<1>3. HeapNotOffered
  BY DEF Init, HeapNotOffered, NoReq
<1> QED
  BY <1>1, <1>2, <1>3 DEF Init, MemInv

\* A reservation the host grants or places elsewhere.
LEMMA TryMemInv ==
  ASSUME MemInv, MmapTry
  PROVE  MemInv'
<1>1. req \in Requests /\ phase = "run"
  BY DEF MemInv, MmapTry, NoReq
<1>2. req.plen \in Nat \ {0} /\ req.paddr \in Nat
  BY <1>1 DEF Requests
<1>3. PICK p \in HostChoice(req.paddr, req.plen) : MmapHit(p) \/ MmapMiss(p)
  BY DEF MmapTry
<1>4. p \in Nat
  BY <1>2, <1>3, SpaceAssumption DEF HostChoice
<1>5. CASE MmapHit(p)
  <2>1. Marked(vm')
    BY <1>5, FixedMarked DEF MmapHit, MemInv
  <2>2. hint' \in Nat /\ req' = NoReq
    BY <1>2, <1>4, <1>5 DEF MmapHit
  <2>3. HeapNotOffered'
    BY <2>2 DEF HeapNotOffered, NoReq
  <2> QED
    BY <2>1, <2>2, <2>3, <1>1 DEF MemInv, MmapTry
<1>6. CASE MmapMiss(p)
  <2>1. req' = [req EXCEPT !.paddr = @ + req.plen, !.try = FALSE]
    BY <1>6 DEF MmapMiss
  <2>2. req' \in Requests
    <3>1. req.paddr + req.plen \in Nat
      BY <1>2
    <3> QED
      BY <1>1, <2>1, <3>1, Zenon DEF Requests
  <2>3. HeapNotOffered'
    BY <1>1, <2>1 DEF HeapNotOffered, Requests
  <2> QED
    BY <2>2, <2>3, <1>1, <1>6 DEF MemInv, MmapTry, MmapMiss
<1> QED
  BY <1>3, <1>5, <1>6

\* The four ends of linux_brk.
LEMMA BrkCases ==
  ASSUME MemInv, NEW newbrk \in Brks, NEW mapped \in BOOLEAN, Brk(newbrk, mapped)
  PROVE  LET brk_p == roundup(brk)
         IN  \/ newbrk < brk_p /\ SetBrk(vm, newbrk - brk, newbrk)
             \/ newbrk = brk_p /\ SetBrk(vm, 0, newbrk)
             \/ newbrk > brk_p /\ SetBrk(Fixed(vm, brk_p, newbrk - brk_p, Anon), brk_p - brk, newbrk)
             \/ UNCHANGED <<phase, vm, brk>>
<1> DEFINE brk_p == roundup(brk)
<1>1. newbrk \in Nat
  BY InputsAssumption, SpaceAssumption DEF ASPACE_SIZE
<1>2. brk \in Nat /\ brk_p \in Nat
  BY RoundupUp DEF MemInv
<1>3. newbrk < brk_p \/ newbrk = brk_p \/ newbrk > brk_p
  BY <1>1, <1>2
<1>4. CASE newbrk < brk_p
  BY <1>1, <1>2, <1>4 DEF Brk
<1>5. CASE newbrk = brk_p
  BY <1>1, <1>2, <1>5 DEF Brk
<1>6. CASE newbrk > brk_p
  BY <1>1, <1>2, <1>6 DEF Brk
<1> QED
  BY <1>3, <1>4, <1>5, <1>6

\* The break moves to a natural number, over memory that keeps its marks.
LEMMA BrkMemInv ==
  ASSUME MemInv, NEW newbrk \in Brks, NEW mapped \in BOOLEAN, Brk(newbrk, mapped)
  PROVE  MemInv'
<1>1. newbrk \in Nat
  BY InputsAssumption, SpaceAssumption DEF ASPACE_SIZE
<1> DEFINE brk_p == roundup(brk)
           grown == Fixed(vm, brk_p, newbrk - brk_p, Anon)
<1>2. Marked(grown)
  BY FixedMarked DEF MemInv
<1>3. ASSUME NEW s, Marked(s), NEW len, SetBrk(s, len, newbrk)
      PROVE  Marked(vm') /\ brk' \in Nat /\ phase' \in {phase, "crash"}
  <2>1. Marked(memset(s, brk, len))
    BY <1>3, MemsetMarked
  <2> QED
    BY <1>1, <1>3, <2>1 DEF SetBrk, MemInv
<1>4. \/ SetBrk(vm, newbrk - brk, newbrk)
      \/ SetBrk(vm, 0, newbrk)
      \/ SetBrk(grown, brk_p - brk, newbrk)
      \/ UNCHANGED <<phase, vm, brk>>
  BY BrkCases
<1>5. Marked(vm') /\ brk' \in Nat /\ phase' \in {phase, "crash"}
  <2> HIDE DEF grown, brk_p
  <2> QED
    BY <1>2, <1>3, <1>4 DEF MemInv
<1> QED
  BY <1>5 DEF MemInv, Brk, Idle, HeapNotOffered

\* The headers of an image.
LEMMA ElementOfSeq ==
  ASSUME NEW S, NEW q \in Seq(S), NEW k \in 1 .. Len(q)
  PROVE  q[k] \in S
OBVIOUS

\* Every step keeps the invariant.
LEMMA NextMemInv == MemInv /\ [Next]_vars => MemInv'
<1> SUFFICES ASSUME MemInv, [Next]_vars PROVE MemInv'
  OBVIOUS
<1>1. ASSUME NEW img \in Images, LoadElf(img) PROVE MemInv'
  <2>1. img \in Seq([vaddr : Nat, filesz : Nat, memsz : Nat]) /\ img # <<>>
    BY InputsAssumption
  <2>2. Len(img) \in Nat /\ Len(img) # 0
    BY <2>1
  <2>3. image' \in Images /\ seg' \in 0 .. Len(image') - 1
    BY <1>1, <2>2 DEF LoadElf, MemInv
  <2> QED
    BY <1>1, <2>3 DEF LoadElf, MemInv, HeapNotOffered
<1>2. CASE LoadPhdr
  <2>1. image \in Seq([vaddr : Nat, filesz : Nat, memsz : Nat])
    BY <1>2, InputsAssumption DEF LoadPhdr, MemInv
  <2>2. seg' \in 1 .. Len(image) /\ Len(image) \in Nat
    <3>1. seg' = seg + 1 /\ seg \in 0 .. Len(image) - 1
      BY <1>2 DEF LoadPhdr, MemInv
    <3>2. Len(image) \in Nat
      BY <2>1
    <3> QED
      BY <3>1, <3>2
  <2>3. Marked(vm')
    BY <1>2, SegmentMarked DEF LoadPhdr, MemInv
  <2>4. brk' \in Nat
    <3> DEFINE ph == image[seg']
    <3>1. ph \in [vaddr : Nat, filesz : Nat, memsz : Nat]
      BY <2>1, <2>2, ElementOfSeq
    <3>2. ph.vaddr \in Nat /\ ph.memsz \in Nat
      BY <3>1
    <3>3. SegmentEnd(ph) \in Nat
      BY <3>2 DEF SegmentEnd
    <3> QED
      BY <1>2, <3>3, MaxOfTwo DEF LoadPhdr, MemInv
  <2>5. phase' = "load" => image' \in Images /\ seg' \in 0 .. Len(image') - 1
    BY <1>2, <2>2 DEF LoadPhdr, MemInv
  <2> QED
    BY <1>2, <2>3, <2>4, <2>5 DEF LoadPhdr, MemInv, HeapNotOffered
<1>3. CASE MapStack
  <2>1. Marked(vm')
    BY <1>3, FixedMarked DEF MapStack, MemInv
  <2> QED
    BY <1>3, <2>1 DEF MapStack, MemInv, HeapNotOffered
<1>4. ASSUME NEW plen \in Lens, Mmap(plen) PROVE MemInv'
  <2>1. req' \in Requests
    BY <1>4, InputsAssumption, Zenon DEF Mmap, MemInv, Requests
  <2>2. HeapNotOffered'
    BY <1>4 DEF Mmap, HeapNotOffered
  <2> QED
    BY <1>4, <2>1, <2>2 DEF Mmap, MemInv
<1>5. CASE MmapFails
  <2>1. HeapNotOffered'
    BY <1>5 DEF MmapFails, HeapNotOffered, NoReq
  <2> QED
    BY <1>5, <2>1 DEF MmapFails, MemInv
<1>6. CASE MmapLookup
  <2>1. req \in Requests /\ ~req.try
    BY <1>6 DEF MmapLookup, Searching, MemInv
  <2>2. CASE Found = 0
    <3>1. req' = [req EXCEPT !.wrapped = TRUE, !.paddr = MIN_PAGE] /\ MIN_PAGE \in Nat
      BY <1>6, <2>2, SpaceAssumption DEF MmapLookup
    <3>2. req' \in Requests
      BY <2>1, <3>1, Zenon DEF Requests
    <3>3. HeapNotOffered'
      BY <2>1, <3>1 DEF Requests, HeapNotOffered
    <3> QED
      BY <1>6, <3>2, <3>3 DEF MmapLookup, Searching, MemInv
  <2>3. CASE Found # 0
    <3>1. Found \in Nat /\ Found >= LOW
      BY <2>1, <2>3, FoundAboveLow
    <3>2. req' = [req EXCEPT !.paddr = Found, !.try = TRUE]
      BY <1>6, <2>3 DEF MmapLookup
    <3>3. req' \in Requests
      BY <2>1, <3>1, <3>2, Zenon DEF Requests
    <3>4. HeapNotOffered'
      BY <2>1, <3>1, <3>2 DEF Requests, HeapNotOffered
    <3> QED
      BY <1>6, <3>3, <3>4 DEF MmapLookup, Searching, MemInv
  <2> QED
    BY <2>2, <2>3
<1>7. CASE MmapTry
  BY <1>7, TryMemInv
<1>8. ASSUME NEW p \in Placed, NEW plen \in Lens, MmapFixed(p, plen) PROVE MemInv'
  <2>1. Marked(vm')
    BY <1>8, FixedMarked DEF MmapFixed, MemInv
  <2> QED
    BY <1>8, <2>1 DEF MmapFixed, MemInv, HeapNotOffered
<1>9. ASSUME NEW p \in Placed, NEW plen \in Lens, Munmap(p, plen) PROVE MemInv'
  <2>1. Marked(vm')
    BY <1>9 DEF Munmap, MemInv, Marked
  <2> QED
    BY <1>9, <2>1 DEF Munmap, MemInv, HeapNotOffered
<1>10. ASSUME NEW p \in Dirtied, Write(p) PROVE MemInv'
  <2>1. Marked(vm')
    BY <1>10 DEF Write, MemInv, Marked
  <2> QED
    BY <1>10, <2>1 DEF Write, MemInv, HeapNotOffered
<1>11. ASSUME NEW newbrk \in Brks, NEW mapped \in BOOLEAN, Brk(newbrk, mapped) PROVE MemInv'
  BY <1>11, BrkMemInv
<1>12. CASE UNCHANGED vars
  BY <1>12 DEF vars, MemInv, HeapNotOffered
<1> QED
  BY <1>1, <1>2, <1>3, <1>4, <1>5, <1>6, <1>7, <1>8, <1>9, <1>10, <1>11, <1>12 DEF Next

\* MemInv always holds.
THEOREM MemInvariant == Spec => []MemInv
<1>1. MemInv /\ [Next]_vars => MemInv'
  BY NextMemInv
<1> QED
  BY InitMemInv, <1>1, PTL DEF Spec

-----------------------------------------------------------------------------
(* The theorems. *)

\* mmap never offers the host a page below LOW, where the break grows: Init marks
\* those pages, no call unmarks them, and the search passes over marked pages.
THEOREM HeapIsNotOffered == Spec => []HeapNotOffered
<1>1. MemInv => HeapNotOffered
  BY DEF MemInv
<1> QED
  BY <1>1, MemInvariant, PTL

\* An mmap without MAP_FIXED replaces no mapping of the guest or the translator:
\* it maps only the range the host has just reserved for it, which was free.
THEOREM MmapClobbersNothing == Spec => NoClobber
<1> DEFINE Kept == \A b \in Bytes : vm'.mem[b] # vm.mem[b] => vm.mem[b] = "none"
<1>1. MemInv /\ [Next]_vars => [req.try => Kept]_vars
  <2> SUFFICES ASSUME MemInv, Next, req.try PROVE Kept
    BY DEF vars
  <2>1. req \in Requests /\ phase = "run" /\ req # NoReq
    BY DEF MemInv, NoReq
  <2>2. MmapTry
    BY <2>1 DEF Next, LoadElf, LoadPhdr, MapStack, Mmap, MmapFails, MmapLookup, Searching,
       MmapFixed, Munmap, Write, Brk, Idle
  <2>3. PICK p \in HostChoice(req.paddr, req.plen) : MmapHit(p) \/ MmapMiss(p)
    BY <2>2 DEF MmapTry
  <2>4. CASE MmapMiss(p)
    BY <2>4 DEF MmapMiss
  <2>5. CASE MmapHit(p)
    <3>1. req.plen \in Nat \ {0} /\ req.paddr \in Nat /\ PAGE_SIZE \in Nat \ {0} /\ PAGES \in Nat
      BY <2>1, SpaceAssumption DEF Requests
    <3>2. p \in Nat /\ p + req.plen <= PAGES
      BY <2>3, <2>5, <3>1, SpaceAssumption DEF HostChoice, MmapHit, InGuest
    <3>3. FreeRange(p, req.plen)
      BY <2>3, <3>1, <3>2 DEF HostChoice
    <3> DEFINE len == req.plen * PAGE_SIZE
               at  == p * PAGE_SIZE
               top == (p + req.plen) * PAGE_SIZE
    <3>4. roundup(len) = len
      BY <3>1, RoundupPages
    <3>5. top = at + len /\ len # 0
      BY <3>1, <3>2
    <3>6. at \in Nat /\ len \in Nat /\ top \in Nat
      BY <3>1, <3>2
    <3>7. ASSUME NEW b \in Bytes PROVE vm'.mem[b] # vm.mem[b] => vm.mem[b] = "none"
      <4>1. b \in at .. at + len - 1 => vm.mem[b] = "none"
        <5>1. \A a \in at .. top - 1 : vm.mem[a] = "none"
          BY <3>3, Zenon DEF FreeRange
        <5> HIDE DEF at, len, top
        <5> QED
          BY <3>5, <5>1, <3>6
      <4>2. vm' = Fixed(vm, at, len, Anon)
        BY <2>5 DEF MmapHit
      <4> HIDE DEF at, len, top
      <4>3. b \notin at .. at + len - 1 => vm'.mem[b] = vm.mem[b]
        BY <3>4, <3>5, <4>2 DEF Fixed
      <4> QED
        BY <4>1, <4>3
    <3> QED
      BY <3>7
  <2> QED
    BY <2>3, <2>4, <2>5
<1> QED
  BY <1>1, MemInvariant, PTL DEF Spec, NoClobber

\* What brk adds to the heap is zero: the bytes up to the end of the page of the
\* old break are cleared and the pages after it are fresh, unless the new break is
\* exactly that end.
THEOREM BrkAddsZeros == Spec => BrkZeroes
<1> DEFINE Zeroed == \A b \in brk .. brk' - 1 : vm'.mem[b] = "zero"
           Grows  == phase = "run" /\ brk' # brk /\ brk' # roundup(brk)
<1>1. MemInv /\ [Next]_vars => [Grows => Zeroed]_vars
  <2> SUFFICES ASSUME MemInv, Next, Grows PROVE Zeroed
    BY DEF vars
  <2>1. PICK newbrk \in Brks, mapped \in BOOLEAN : Brk(newbrk, mapped)
    BY DEF Next, LoadElf, LoadPhdr, MapStack, Mmap, MmapFails, MmapLookup, MmapTry, MmapFixed,
       Munmap, Write
  <2> DEFINE brk_p == roundup(brk)
             grown == Fixed(vm, brk_p, newbrk - brk_p, Anon)
  <2>2. ASPACE_SIZE \in Nat /\ newbrk \in 0 .. ASPACE_SIZE
    BY InputsAssumption, SpaceAssumption DEF ASPACE_SIZE
  <2>3. brk \in Nat /\ brk_p \in Nat /\ brk <= brk_p /\ newbrk > brk
    BY <2>1, RoundupUp DEF MemInv, Brk
  <2>4. ASSUME NEW s, NEW len, SetBrk(s, len, newbrk)
        PROVE  brk' = newbrk /\ vm' = memset(s, brk, len)
    BY <2>4 DEF SetBrk
  <2>5. CASE newbrk < brk_p /\ SetBrk(vm, newbrk - brk, newbrk)
    <3>1. vm' = memset(vm, brk, newbrk - brk) /\ brk' = newbrk
      BY <2>4, <2>5
    <3> QED
      BY <2>2, <2>3, <3>1 DEF memset, MemInv, Marked, Bytes
  <2>6. CASE newbrk = brk_p /\ SetBrk(vm, 0, newbrk)
    BY <2>4, <2>6
  <2>7. CASE newbrk > brk_p /\ SetBrk(grown, brk_p - brk, newbrk)
    <3>1. vm' = memset(grown, brk, brk_p - brk) /\ brk' = newbrk
      BY <2>4, <2>7
    <3> DEFINE n == newbrk - brk_p
    <3>2. n \in Nat /\ n # 0 /\ roundup(n) \in Nat /\ n <= roundup(n)
      BY <2>2, <2>3, <2>7, RoundupUp
    <3>3. \A b \in Bytes : b \in brk_p .. newbrk - 1 => grown.mem[b] = "zero"
      BY <2>2, <2>3, <3>2 DEF Fixed, Anon
    <3>4. grown = [mem |-> grown.mem, used |-> grown.used]
      BY <3>2 DEF Fixed
    <3> HIDE DEF grown, brk_p
    <3>5. \A b \in Bytes : b \in brk .. newbrk - 1 => vm'.mem[b] = "zero"
      BY <2>2, <2>3, <3>1, <3>3, <3>4 DEF memset, Bytes
    <3> QED
      BY <2>2, <2>3, <3>1, <3>5 DEF Bytes
  <2> QED
    BY <2>1, <2>5, <2>6, <2>7, BrkCases
<1> QED
  BY <1>1, MemInvariant, PTL DEF Spec, BrkZeroes

-----------------------------------------------------------------------------
(* mmap fails only when there is no room. A run of 2 * plen - 1 free, unmarked *)
(* pages holds a free range at each of its first plen pages, and a search that *)
(* steps by plen cannot step over all of them: by SearchInv the last of them   *)
(* is still ahead, or is below the hint and left to the search after the wrap. *)

Runs == {p \in 0 .. PAGES - 1 : Room(p, 2 * req.plen - 1)}

LastStart(p) == p + req.plen - 1

SearchInv ==
  req # NoReq =>
    \A p \in Runs : IF req.wrapped THEN req.paddr <= LastStart(p) /\ LastStart(p) < hint
                                   ELSE req.paddr <= LastStart(p) \/ LastStart(p) < hint

\* The minimum of the free pages is the least of them.
LEMMA MinLeast ==
  ASSUME NEW T, T \subseteq Nat, NEW x \in T
  PROVE  Min(T) <= x
<1>1. T # {}
  OBVIOUS
<1> QED
  BY <1>1, LeastNatural DEF Min

\* Products with the page size are ordered as their factors.
LEMMA PagesOrdered ==
  ASSUME NEW a \in Int, NEW b \in Int
  PROVE  /\ a * PAGE_SIZE \in Int
         /\ a <= b <=> a * PAGE_SIZE <= b * PAGE_SIZE
<1>1. PAGE_SIZE \in Nat /\ PAGE_SIZE >= 1
  BY SpaceAssumption
<1>2. a * PAGE_SIZE \in Int /\ b * PAGE_SIZE \in Int
  BY <1>1
<1>3. ASSUME a <= b PROVE a * PAGE_SIZE <= b * PAGE_SIZE
  <2>1. PICK d \in Nat : b = a + d
    <3>1. b - a \in Nat /\ b = a + (b - a)
      BY <1>3
    <3> QED
      BY <3>1
  <2>2. d * PAGE_SIZE \in Nat /\ b * PAGE_SIZE = a * PAGE_SIZE + d * PAGE_SIZE
    BY <1>1, <2>1
  <2> QED
    BY <1>2, <2>2
<1>4. ASSUME b < a PROVE b * PAGE_SIZE < a * PAGE_SIZE
  <2>1. PICK d \in Nat : a = b + 1 + d
    <3>1. a - b - 1 \in Nat /\ a = b + 1 + (a - b - 1)
      BY <1>4
    <3> QED
      BY <3>1
  <2>2. d * PAGE_SIZE \in Nat /\ a * PAGE_SIZE = b * PAGE_SIZE + PAGE_SIZE + d * PAGE_SIZE
    BY <1>1, <2>1
  <2> QED
    BY <1>1, <1>2, <2>2
<1> QED
  BY <1>2, <1>3, <1>4

\* A part of a free range is free.
LEMMA FreePart ==
  ASSUME NEW p \in Nat, NEW n \in Nat, FreeRange(p, n),
         NEW q \in Nat, NEW m \in Nat, p <= q, q + m <= p + n
  PROVE  FreeRange(q, m)
<1>1. /\ p * PAGE_SIZE \in Int /\ q * PAGE_SIZE \in Int
      /\ (p + n) * PAGE_SIZE \in Int /\ (q + m) * PAGE_SIZE \in Int
      /\ p * PAGE_SIZE <= q * PAGE_SIZE /\ (q + m) * PAGE_SIZE <= (p + n) * PAGE_SIZE
  BY PagesOrdered
<1> QED
  BY <1>1 DEF FreeRange

\* A free range ends in the guest's space.
LEMMA FreeInSpace ==
  ASSUME NEW p \in Nat, NEW n \in Nat, n # 0, FreeRange(p, n)
  PROVE  p + n <= PAGES
<1>1. PAGES \in Nat /\ PAGE_SIZE \in Nat /\ PAGE_SIZE >= 1
  BY SpaceAssumption
<1> DEFINE b == (p + n) * PAGE_SIZE - 1
<1>2. /\ p * PAGE_SIZE \in Int /\ (p + n) * PAGE_SIZE \in Int /\ PAGES * PAGE_SIZE \in Int
      /\ p * PAGE_SIZE <= (p + n - 1) * PAGE_SIZE /\ (p + n - 1) * PAGE_SIZE \in Int
  BY <1>1, PagesOrdered
<1>3. (p + n) * PAGE_SIZE = (p + n - 1) * PAGE_SIZE + PAGE_SIZE
  BY <1>1
<1>4. b \in p * PAGE_SIZE .. (p + n) * PAGE_SIZE - 1
  BY <1>1, <1>2, <1>3
<1>5. b \in Bytes
  BY <1>4, Zenon DEF FreeRange
<1>6. (p + n) * PAGE_SIZE <= PAGES * PAGE_SIZE
  BY <1>2, <1>5 DEF Bytes, ASPACE_SIZE
<1> QED
  BY <1>1, <1>6, PagesOrdered

\* The facts about a run that the search meets: it is above the marks of Init, it
\* lies in the space, and each of its first plen pages starts a range of plen pages
\* that are free and unmarked.
LEMMA RunFacts ==
  ASSUME MemInv, req \in Requests, NEW p \in Runs
  PROVE  /\ p \in Nat /\ req.plen \in Nat \ {0} /\ req.paddr \in Nat
         /\ LOW <= p
         /\ \A s \in p .. LastStart(p) : /\ s + req.plen <= PAGES
                                         /\ FreeRange(s, req.plen)
                                         /\ (s .. s + req.plen - 1) \cap vm.used = {}
<1>1. p \in Nat /\ PAGES \in Nat /\ LOW \in Nat
  BY SpaceAssumption DEF Runs
<1>2. req.plen \in Nat \ {0} /\ req.paddr \in Nat
  BY DEF Requests
<1>3. PICK n \in Nat : n = 2 * req.plen - 1
  BY <1>2
<1>4. FreeRange(p, n) /\ (p .. p + n - 1) \cap vm.used = {}
  BY <1>3 DEF Runs, Room
<1>5. LOW <= p
  <2>1. p \notin vm.used
    BY <1>1, <1>2, <1>3, <1>4
  <2> QED
    BY <1>1, <2>1 DEF MemInv, Marked
<1>6. ASSUME NEW s \in p .. LastStart(p)
      PROVE  /\ s + req.plen <= PAGES
             /\ FreeRange(s, req.plen)
             /\ (s .. s + req.plen - 1) \cap vm.used = {}
  <2>1. s \in Nat /\ p <= s /\ s + req.plen <= p + n
    BY <1>1, <1>2, <1>3 DEF LastStart
  <2>2. FreeRange(s, req.plen)
    BY <1>1, <1>2, <1>3, <1>4, <2>1, FreePart
  <2>3. s + req.plen <= PAGES
    BY <1>2, <2>1, <2>2, FreeInSpace
  <2>4. s .. s + req.plen - 1 \subseteq p .. p + n - 1
    BY <1>1, <1>2, <1>3, <2>1
  <2> QED
    BY <1>4, <2>2, <2>3, <2>4, Zenon
<1> QED
  BY <1>1, <1>2, <1>5, <1>6, Zenon

\* LookupFreeRange does not pass over a run that is not all behind.
LEMMA FoundInRun ==
  ASSUME MemInv, req \in Requests, NEW p \in Runs, req.paddr <= LastStart(p)
  PROVE  Found \in Nat /\ Found # 0 /\ Found <= LastStart(p)
<1> DEFINE starts == {q \in req.paddr .. PAGES - req.plen :
                        (q .. q + req.plen - 1) \cap vm.used = {}}
<1>1. /\ p \in Nat /\ req.plen \in Nat \ {0} /\ req.paddr \in Nat
      /\ PAGES \in Nat /\ LOW \in Nat \ {0}
  BY RunFacts, SpaceAssumption
<1>2. PICK m \in Nat : m \in p .. LastStart(p) /\ req.paddr <= m
  <2>1. LastStart(p) \in p .. LastStart(p) /\ LastStart(p) \in Nat
    BY <1>1 DEF LastStart
  <2> QED
    BY <2>1
<1>3. m + req.plen <= PAGES /\ (m .. m + req.plen - 1) \cap vm.used = {}
  BY <1>2, RunFacts, Zenon
<1>4. m \in starts
  BY <1>1, <1>2, <1>3
<1>5. starts \subseteq Nat
  BY <1>1
<1>6. Found = Min(starts)
  BY <1>1, <1>4 DEF Found, LookupFreeRange
<1>7. Found \in starts /\ Found <= m
  <2> HIDE DEF starts
  <2> QED
    BY <1>4, <1>5, <1>6, MinIn, MinLeast
<1>8. Found \in Nat /\ Found \notin vm.used
  BY <1>1, <1>7
<1>9. Found # 0
  BY <1>1, <1>8 DEF MemInv, Marked
<1> QED
  BY <1>1, <1>2, <1>7, <1>8, <1>9 DEF LastStart

\* A step that ends the request, or leaves it and the space as they are.
LEMMA SearchKept ==
  ASSUME SearchInv, req' = NoReq \/ UNCHANGED <<vm, hint, req>>
  PROVE  SearchInv'
<1>1. CASE req' = NoReq
  BY <1>1, Zenon DEF SearchInv
<1>2. CASE UNCHANGED <<vm, hint, req>>
  BY <1>2 DEF SearchInv, Runs, Room, FreeRange, LastStart, Bytes
<1> QED
  BY <1>1, <1>2

\* A lookup finds no page past a run that is ahead, and wraps only when none is.
LEMMA LookupSearch ==
  ASSUME MemInv, SearchInv, MmapLookup
  PROVE  SearchInv'
<1>1. req \in Requests /\ UNCHANGED <<vm, hint>>
  BY DEF MmapLookup, Searching, MemInv
<1>2. req'.plen = req.plen
  BY <1>1 DEF MmapLookup, Requests
<1>3. Runs' = Runs /\ \A p : LastStart(p)' = LastStart(p)
  BY <1>1, <1>2 DEF Runs, Room, FreeRange, LastStart, Bytes
<1> SUFFICES ASSUME NEW p \in Runs
             PROVE  IF req'.wrapped THEN req'.paddr <= LastStart(p) /\ LastStart(p) < hint
                                    ELSE req'.paddr <= LastStart(p) \/ LastStart(p) < hint
  BY <1>1, <1>3 DEF SearchInv
<1>4. IF req.wrapped THEN req.paddr <= LastStart(p) /\ LastStart(p) < hint
                     ELSE req.paddr <= LastStart(p) \/ LastStart(p) < hint
  BY DEF SearchInv, MmapLookup, Searching
<1>5. p \in Nat /\ req.plen \in Nat \ {0} /\ req.paddr \in Nat /\ LOW <= p
  BY <1>1, RunFacts, Zenon
<1>6. req.paddr <= LastStart(p) => Found # 0 /\ Found <= LastStart(p)
  BY <1>1, FoundInRun, Zenon
<1>7. CASE Found = 0
  <2>1. req'.wrapped /\ req'.paddr = MIN_PAGE
    BY <1>1, <1>7 DEF MmapLookup, Requests
  <2>2. ~(req.paddr <= LastStart(p)) /\ LastStart(p) < hint
    BY <1>4, <1>6, <1>7, Zenon
  <2>3. MIN_PAGE <= LastStart(p)
    BY <1>5, SpaceAssumption DEF LastStart
  <2> QED
    BY <2>1, <2>2, <2>3
<1>8. CASE Found # 0
  <2>1. req'.wrapped = req.wrapped /\ req'.paddr = Found
    BY <1>1, <1>8 DEF MmapLookup, Requests
  <2> QED
    BY <1>4, <1>6, <2>1, Zenon
<1> QED
  BY <1>7, <1>8

\* A range that the host did not grant is not free, so it starts before the run, and
\* a step of plen does not pass the run.
LEMMA TrySearch ==
  ASSUME MemInv, SearchInv, MmapTry
  PROVE  SearchInv'
<1>1. req \in Requests
  BY DEF MmapTry, MemInv, NoReq
<1>2. PICK h \in HostChoice(req.paddr, req.plen) : MmapHit(h) \/ MmapMiss(h)
  BY DEF MmapTry
<1>3. CASE MmapHit(h)
  BY <1>3, SearchKept DEF MmapHit
<1>4. CASE MmapMiss(h)
  <2>1. /\ req'.plen = req.plen /\ req'.wrapped = req.wrapped
        /\ req'.paddr = req.paddr + req.plen /\ UNCHANGED <<vm, hint>>
    BY <1>1, <1>4 DEF MmapMiss, Requests
  <2>2. Runs' = Runs /\ \A p : LastStart(p)' = LastStart(p)
    BY <2>1 DEF Runs, Room, FreeRange, LastStart, Bytes
  <2> SUFFICES ASSUME NEW p \in Runs
               PROVE  IF req.wrapped THEN req'.paddr <= LastStart(p) /\ LastStart(p) < hint
                                     ELSE req'.paddr <= LastStart(p) \/ LastStart(p) < hint
    BY <2>1, <2>2 DEF SearchInv
  <2>3. IF req.wrapped THEN req.paddr <= LastStart(p) /\ LastStart(p) < hint
                       ELSE req.paddr <= LastStart(p) \/ LastStart(p) < hint
    BY DEF SearchInv, MmapTry, NoReq
  <2>4. p \in Nat /\ req.plen \in Nat \ {0} /\ req.paddr \in Nat
    BY <1>1, RunFacts, Zenon
  <2>5. ~FreeRange(req.paddr, req.plen)
    <3>1. ~(h + req.plen <= PAGES)
      BY <1>4, Zenon DEF MmapMiss, InGuest
    <3>2. SUFFICES ASSUME FreeRange(req.paddr, req.plen) PROVE FALSE
      BY Zenon
    <3>3. h = req.paddr
      BY <1>2, <3>2 DEF HostChoice
    <3> QED
      BY <2>4, <3>1, <3>2, <3>3, FreeInSpace
  <2>6. ~(req.paddr \in p .. LastStart(p))
    BY <1>1, <2>5, RunFacts, Zenon
  <2>7. req.paddr <= LastStart(p) => req'.paddr <= LastStart(p)
    BY <2>1, <2>4, <2>6 DEF LastStart
  <2> QED
    BY <2>3, <2>7, Zenon
<1> QED
  BY <1>2, <1>3, <1>4, Zenon

\* Every step keeps the search invariant.
LEMMA NextSearch == MemInv /\ SearchInv /\ [Next]_vars => SearchInv'
<1> SUFFICES ASSUME MemInv, SearchInv, [Next]_vars PROVE SearchInv'
  OBVIOUS
<1>1. phase # "run" => req = NoReq
  BY DEF MemInv
<1>2. ASSUME NEW img \in Images, LoadElf(img) PROVE SearchInv'
  BY <1>1, <1>2, SearchKept DEF LoadElf
<1>3. CASE LoadPhdr
  BY <1>1, <1>3, SearchKept DEF LoadPhdr
<1>4. CASE MapStack
  BY <1>1, <1>4, SearchKept DEF MapStack
<1>5. ASSUME NEW plen \in Lens, Mmap(plen) PROVE SearchInv'
  <2>1. req'.paddr = hint /\ ~req'.wrapped /\ hint' = hint /\ req'.plen = plen
    BY <1>5 DEF Mmap
  <2>2. ASSUME NEW p \in Runs' PROVE hint <= LastStart(p)' \/ LastStart(p)' < hint
    <3>1. p \in Int /\ hint \in Int /\ plen \in Int
      BY <2>2, InputsAssumption DEF Runs, MemInv
    <3>2. LastStart(p)' = p + plen - 1
      BY <2>1 DEF LastStart
    <3> QED
      BY <3>1, <3>2
  <2> QED
    BY <2>1, <2>2, Zenon DEF SearchInv
<1>6. CASE MmapFails
  BY <1>6, SearchKept DEF MmapFails
<1>7. CASE MmapLookup
  BY <1>7, LookupSearch
<1>8. CASE MmapTry
  BY <1>8, TrySearch
<1>9. ASSUME Idle, UNCHANGED req PROVE SearchInv'
  BY <1>9, SearchKept DEF Idle
<1>10. ASSUME NEW p \in Placed, NEW plen \in Lens, MmapFixed(p, plen) PROVE SearchInv'
  BY <1>9, <1>10, Zenon DEF MmapFixed
<1>11. ASSUME NEW p \in Placed, NEW plen \in Lens, Munmap(p, plen) PROVE SearchInv'
  BY <1>9, <1>11, Zenon DEF Munmap
<1>12. ASSUME NEW p \in Dirtied, Write(p) PROVE SearchInv'
  BY <1>9, <1>12, Zenon DEF Write
<1>13. ASSUME NEW newbrk \in Brks, NEW mapped \in BOOLEAN, Brk(newbrk, mapped)
       PROVE  SearchInv'
  BY <1>9, <1>13 DEF Brk
<1>14. CASE UNCHANGED vars
  BY <1>14, SearchKept DEF vars
<1> QED
  BY <1>2, <1>3, <1>4, <1>5, <1>6, <1>7, <1>8, <1>10, <1>11, <1>12, <1>13, <1>14, Zenon
     DEF Next

\* For every space, hint and history of mappings, an mmap without MAP_FIXED fails
\* only when no run of 2 * plen - 1 pages is free in the host and unmarked.
THEOREM FailsOnlyFull == Spec => FailsOnlyWhenFull
<1>1. Init => SearchInv
  BY Zenon DEF Init, SearchInv
<1>2. ASSUME MemInv, SearchInv, MmapFails, NEW p \in 0 .. PAGES - 1,
             Room(p, 2 * req.plen - 1)
      PROVE  FALSE
  <2>1. req \in Requests /\ req # NoReq /\ p \in Runs /\ hint \in Nat
    BY <1>2 DEF MmapFails, Searching, MemInv, Runs
  <2>2. req.wrapped /\ (Found = 0 \/ Found > hint)
    BY <1>2, Zenon DEF MmapFails, OutOfRange
  <2>3. req.paddr <= LastStart(p) /\ LastStart(p) < hint
    BY <1>2, <2>1, <2>2, Zenon DEF SearchInv
  <2>4. Found \in Nat /\ Found # 0 /\ Found <= LastStart(p)
    BY <1>2, <2>1, <2>3, FoundInRun, Zenon
  <2>5. LastStart(p) \in Nat
    BY <1>2, <2>1, RunFacts DEF LastStart
  <2> QED
    BY <2>1, <2>2, <2>3, <2>4, <2>5
<1>3. MemInv /\ SearchInv =>
        (MmapFails => ~\E p \in 0 .. PAGES - 1 : Room(p, 2 * req.plen - 1))
  BY <1>2, Zenon
<1> QED
  BY <1>1, <1>3, NextSearch, MemInvariant, PTL DEF Spec, FailsOnlyWhenFull

-----------------------------------------------------------------------------
(* The image. *)

\* Sizes of the space.
LEMMA SpaceFacts ==
  /\ PAGE_SIZE \in Nat /\ PAGE_SIZE > 0 /\ PAGES \in Nat
  /\ ASPACE_SIZE \in Nat /\ ASPACE_SIZE = PAGES * PAGE_SIZE /\ ASPACE_SIZE > PAGE_SIZE
<1>1. PAGE_SIZE \in Nat /\ PAGE_SIZE > 0 /\ PAGES \in Nat /\ PAGES > 1
  BY SpaceAssumption
<1>2. PICK k \in Nat : PAGES = 2 + k
  BY <1>1
<1>3. PICK m \in Nat : m = k * PAGE_SIZE
  BY <1>1, <1>2
<1>4. PAGES * PAGE_SIZE = PAGE_SIZE + PAGE_SIZE + m
  BY <1>1, <1>2, <1>3
<1> QED
  BY <1>1, <1>3, <1>4 DEF ASPACE_SIZE

\* roundup goes to the next page at most.
LEMMA RoundupNext ==
  ASSUME NEW x \in Nat
  PROVE  roundup(x) < x + PAGE_SIZE
<1>1. PAGE_SIZE \in Nat /\ PAGE_SIZE > 0
  BY SpaceAssumption
<1> DEFINE y == x + PAGE_SIZE - 1
           q == y \div PAGE_SIZE
<1>2. y \in Int
  BY <1>1
<1>3. q \in Int /\ q * PAGE_SIZE <= y
  <2> HIDE DEF y
  <2> QED
    BY <1>1, <1>2
<1>4. q * PAGE_SIZE \in Int
  BY <1>1, <1>3
<1> QED
  BY <1>1, <1>3, <1>4 DEF roundup

\* rounddown stays in the page.
LEMMA RounddownDown ==
  ASSUME NEW x \in Nat
  PROVE  rounddown(x) \in Nat /\ rounddown(x) <= x /\ x < rounddown(x) + PAGE_SIZE
<1>1. PAGE_SIZE \in Nat /\ PAGE_SIZE > 0
  BY SpaceAssumption
<1>2. PICK q : q = x \div PAGE_SIZE
  OBVIOUS
<1>3. q \in Nat /\ q * PAGE_SIZE <= x /\ x < q * PAGE_SIZE + PAGE_SIZE
  BY <1>1, <1>2
<1>4. q * PAGE_SIZE \in Nat
  BY <1>1, <1>3
<1> QED
  BY <1>1, <1>2, <1>3, <1>4 DEF rounddown

\* A number of the space is a u32.
LEMMA U32Small ==
  ASSUME NEW x \in Nat, x < ASPACE_SIZE
  PROVE  U32(x) = x
<1>1. PICK A : A = ASPACE_SIZE
  OBVIOUS
<1>2. A \in Nat /\ A > 0 /\ x < A
  BY <1>1, SpaceFacts
<1>3. x % A = x
  BY <1>2
<1> QED
  BY <1>1, <1>3 DEF U32

\* A length of less than a page below 0 wraps to one that rounds up to 0.
LEMMA U32Negative ==
  ASSUME NEW d \in Int, d < 0, d > 0 - PAGE_SIZE
  PROVE  U32(roundup(U32(d))) = 0
<1>1. PICK A : A = ASPACE_SIZE
  OBVIOUS
<1>2. /\ A \in Nat /\ A > PAGE_SIZE /\ A = PAGES * PAGE_SIZE
      /\ PAGE_SIZE \in Nat /\ PAGE_SIZE > 0 /\ PAGES \in Nat
  BY <1>1, SpaceFacts
<1>3. d % A = d + A
  BY <1>2
<1>4. U32(d) = d + A
  BY <1>1, <1>3 DEF U32
<1>5. ASSUME NEW x \in Int, x = d + A + PAGE_SIZE - 1
      PROVE  x \div PAGE_SIZE = PAGES
  BY <1>2, <1>5
<1>6. roundup(d + A) = A
  <2>1. d + A + PAGE_SIZE - 1 \in Int
    BY <1>2
  <2> QED
    BY <1>2, <1>5, <2>1 DEF roundup
<1>7. A % A = 0
  BY <1>2
<1> QED
  BY <1>1, <1>4, <1>6, <1>7 DEF U32

Segments == [vaddr : Nat, filesz : Nat, memsz : Nat]

\* t has the contents of s below start, and u from there on for len bytes.
Covers(s, t, start, len, u) ==
  /\ DOMAIN t.mem = Bytes
  /\ \A b \in Bytes : b < start => t.mem[b] = s.mem[b]
  /\ \A b \in Bytes : start <= b /\ b < start + len => t.mem[b] = u[b]

\* mmap with MAP_FIXED puts the contents at the address, for the length at least.
LEMMA FixedCovers ==
  ASSUME NEW s, DOMAIN s.mem = Bytes, NEW vaddr \in Nat, NEW len \in Nat, NEW u
  PROVE  Covers(s, Fixed(s, vaddr, len, u), vaddr, len, u)
<1>1. Bytes \subseteq Int
  BY SpaceFacts DEF Bytes
<1>2. CASE len = 0
  <2>1. Fixed(s, vaddr, len, u) = s
    BY <1>2, Zenon DEF Fixed
  <2>2. ASSUME NEW b \in Bytes PROVE ~(vaddr <= b /\ b < vaddr + len)
    <3>1. b \in Int
      BY <1>1, Zenon
    <3>2. vaddr + len = vaddr
      BY <1>2
    <3> QED
      BY <3>1, <3>2
  <2> QED
    BY <2>1, <2>2, Zenon DEF Covers
<1>3. CASE len # 0
  <2>1. PICK r : r = roundup(len)
    BY Zenon
  <2>2. r \in Nat /\ len <= r
    BY <2>1, RoundupUp
  <2>3. PICK t : t = Fixed(s, vaddr, len, u)
    BY Zenon
  <2>4. t.mem = [b \in Bytes |-> IF b \in vaddr .. vaddr + r - 1 THEN u[b] ELSE s.mem[b]]
    BY <1>3, <2>1, <2>3, SMT DEF Fixed
  <2>5. /\ DOMAIN t.mem = Bytes
        /\ \A b \in Bytes : b \in vaddr .. vaddr + r - 1 => t.mem[b] = u[b]
        /\ \A b \in Bytes : b \notin vaddr .. vaddr + r - 1 => t.mem[b] = s.mem[b]
    BY <2>4, Zenon
  <2>6. \A b \in Bytes : /\ b < vaddr => b \notin vaddr .. vaddr + r - 1
                         /\ vaddr <= b /\ b < vaddr + len => b \in vaddr .. vaddr + r - 1
    BY <1>1, <2>2
  <2> QED
    BY <2>3, <2>5, <2>6, Zenon DEF Covers
<1> QED
  BY <1>2, <1>3, Zenon

\* memset puts zeros at the address and nothing elsewhere.
LEMMA MemsetCovers ==
  ASSUME NEW s, Marked(s), DOMAIN s.mem = Bytes, NEW start \in Nat, NEW len \in Nat,
         NEW t, t = memset(s, start, len)
  PROVE  /\ Covers(s, t, start, len, Anon)
         /\ \A b \in Bytes : start + len <= b => t.mem[b] = s.mem[b]
<1>1. Bytes \subseteq Int
  BY SpaceFacts DEF Bytes
<1>2. t.mem = [b \in Bytes |-> IF b \in start .. start + len - 1 THEN "zero" ELSE s.mem[b]]
  BY SMT DEF memset, Marked
<1>3. /\ DOMAIN t.mem = Bytes
      /\ \A b \in Bytes : b \in start .. start + len - 1 => t.mem[b] = "zero"
      /\ \A b \in Bytes : b \notin start .. start + len - 1 => t.mem[b] = s.mem[b]
  BY <1>2, Zenon
<1>4. \A b \in Bytes : /\ b < start => b \notin start .. start + len - 1
                       /\ start <= b /\ b < start + len => b \in start .. start + len - 1
                       /\ start + len <= b => b \notin start .. start + len - 1
  BY <1>1
<1> QED
  BY <1>3, <1>4, Zenon DEF Covers, Anon

\* t is s with the segment loaded: the pages below it are untouched, and a segment
\* whose bss length is computed right is complete.
SegmentIn(t, ph) ==
  \A b \in Bytes : ph.vaddr <= b /\ b < SegmentEnd(ph) =>
    t.mem[b] = IF b < ph.vaddr + ph.filesz THEN "file" ELSE "zero"

\* The file's bytes.
LEMMA FileLoaded ==
  ASSUME NEW s, DOMAIN s.mem = Bytes, NEW ph \in Segments,
         NEW page, page = rounddown(ph.vaddr),
         NEW t, t = Fixed(s, page, ph.filesz + (ph.vaddr - page), FileBytes(ph))
  PROVE  /\ DOMAIN t.mem = Bytes
         /\ \A b \in Bytes : b < page => t.mem[b] = s.mem[b]
         /\ \A b \in Bytes : ph.vaddr <= b /\ b < ph.vaddr + ph.filesz => t.mem[b] = "file"
<1>1. Bytes \subseteq Int
  BY SpaceFacts DEF Bytes
<1>2. ph.vaddr \in Nat /\ ph.filesz \in Nat
  BY DEF Segments
<1>3. page \in Nat /\ page <= ph.vaddr
  BY <1>2, RounddownDown
<1>4. PICK len : len = ph.filesz + (ph.vaddr - page)
  BY Zenon
<1>5. len \in Nat /\ page + len = ph.vaddr + ph.filesz
  BY <1>2, <1>3, <1>4
<1>6. Covers(s, t, page, len, FileBytes(ph))
  BY <1>3, <1>4, <1>5, FixedCovers, Zenon
<1>7. \A b \in Bytes : ph.vaddr <= b /\ b < ph.vaddr + ph.filesz => FileBytes(ph)[b] = "file"
  BY <1>1, <1>2, SMT DEF FileBytes
<1> QED
  BY <1>1, <1>2, <1>3, <1>5, <1>6, <1>7, SMT DEF Covers

\* The length of the bss that LoadBss computes reaches the end of the segment, or is
\* 0 where the rest of the file's last page reaches it.
LEMMA BssLength ==
  ASSUME NEW ph \in Segments, ph.filesz # 0, ph.memsz > ph.filesz, Regular(ph),
         SegmentEnd(ph) <= ASPACE_SIZE - PAGE_SIZE,
         NEW start, start = ph.vaddr + ph.filesz,
         NEW d, d = (rounddown(ph.vaddr) + ph.memsz) - start
  PROVE  /\ U32(roundup(U32(d))) \in Nat
         /\ SegmentEnd(ph) <= roundup(start) + U32(roundup(U32(d)))
<1>1. ph.vaddr \in Nat /\ ph.filesz \in Nat /\ ph.memsz \in Nat
  BY DEF Segments
<1>2. PICK page : page = rounddown(ph.vaddr)
  BY Zenon
<1>3. page \in Nat /\ page <= ph.vaddr /\ ph.vaddr < page + PAGE_SIZE
  BY <1>1, <1>2, RounddownDown
<1>4. PICK up : up = roundup(start)
  BY Zenon
<1>5. start \in Nat /\ up \in Nat /\ start <= up
  BY <1>1, <1>4, RoundupUp
<1>6. ph.vaddr - page <= up - start
  BY <1>2, <1>4 DEF Regular, Slack
<1>7. d \in Int /\ d = (page + ph.memsz) - start /\ SegmentEnd(ph) = ph.vaddr + ph.memsz
  BY <1>1, <1>2, <1>3, <1>5 DEF SegmentEnd
<1>8. PAGE_SIZE \in Nat /\ PAGE_SIZE > 0 /\ ASPACE_SIZE \in Nat
  BY SpaceFacts
<1>9. CASE d < 0
  <2>1. d > 0 - PAGE_SIZE
    BY <1>1, <1>3, <1>5, <1>7, <1>8
  <2>2. U32(roundup(U32(d))) = 0
    BY <1>7, <1>9, <2>1, U32Negative
  <2> QED
    BY <1>1, <1>3, <1>4, <1>5, <1>6, <1>7, <1>9, <2>2
<1>10. CASE d >= 0
  <2>1. d \in Nat /\ d + PAGE_SIZE <= ASPACE_SIZE
    BY <1>1, <1>3, <1>5, <1>7, <1>8, <1>10
  <2>2. U32(d) = d
    BY <1>8, <2>1, U32Small
  <2>3. PICK r : r = roundup(d)
    BY Zenon
  <2>4. r \in Nat /\ d <= r /\ r < d + PAGE_SIZE
    BY <2>1, <2>3, RoundupUp, RoundupNext
  <2>5. U32(r) = r
    BY <1>8, <2>1, <2>4, U32Small
  <2> QED
    BY <1>1, <1>3, <1>4, <1>5, <1>6, <1>7, <2>2, <2>3, <2>4, <2>5
<1> QED
  BY <1>7, <1>9, <1>10

\* A u32 is a natural number.
LEMMA U32Nat ==
  ASSUME NEW x \in Int
  PROVE  U32(x) \in Nat
<1>1. PICK A : A = ASPACE_SIZE
  OBVIOUS
<1>2. A \in Nat /\ A > 0
  BY <1>1, SpaceFacts
<1>3. x % A \in Nat
  BY <1>2
<1> QED
  BY <1>1, <1>3 DEF U32

\* The bss: nothing below it is touched, and a regular one is zero up to its end.
LEMMA BssLoaded ==
  ASSUME NEW s, Marked(s), DOMAIN s.mem = Bytes, NEW ph \in Segments,
         ph.filesz # 0, ph.memsz > ph.filesz,
         SegmentEnd(ph) <= ASPACE_SIZE - PAGE_SIZE,
         NEW start, start = ph.vaddr + ph.filesz, NEW t, t = LoadBss(s, ph)
  PROVE  /\ DOMAIN t.mem = Bytes
         /\ \A b \in Bytes : b < start => t.mem[b] = s.mem[b]
         /\ Regular(ph) =>
              \A b \in Bytes : start <= b /\ b < SegmentEnd(ph) => t.mem[b] = "zero"
<1>1. Bytes \subseteq Int
  BY SpaceFacts DEF Bytes
<1>2. ph.vaddr \in Nat /\ ph.filesz \in Nat /\ ph.memsz \in Nat /\ start \in Nat
  BY DEF Segments
<1>3. PICK d : d = (rounddown(ph.vaddr) + ph.memsz) - start
  BY Zenon
<1>4. d \in Int
  BY <1>2, <1>3, RounddownDown
<1>5. PICK len : len = U32(roundup(U32(d)))
  BY Zenon
<1>6. len \in Nat
  BY <1>4, <1>5, U32Nat, RoundupUp
<1>7. PICK up : up = roundup(start)
  BY Zenon
<1>8. up \in Nat /\ start <= up
  BY <1>2, <1>7, RoundupUp
<1>9. PICK x : x = Fixed(s, up, len, Anon)
  BY Zenon
<1>10. Covers(s, x, up, len, Anon) /\ Marked(x)
  BY <1>6, <1>8, <1>9, FixedCovers, FixedMarked, Zenon
<1>11. PICK k : k = up - start
  BY Zenon
<1>12. k \in Nat /\ start + k = up
  BY <1>2, <1>8, <1>11
<1>13. t = memset(x, start, k)
  BY <1>3, <1>5, <1>7, <1>9, <1>11, Zenon DEF LoadBss, Slack
<1>14. /\ Covers(x, t, start, k, Anon)
       /\ \A b \in Bytes : start + k <= b => t.mem[b] = x.mem[b]
  <2>1. DOMAIN x.mem = Bytes
    BY <1>10, Zenon DEF Covers
  <2> QED
    BY <1>2, <1>10, <1>12, <1>13, <2>1, MemsetCovers
<1>15. \A b \in Bytes : b < start => t.mem[b] = s.mem[b]
  BY <1>1, <1>2, <1>8, <1>10, <1>14, SMT DEF Covers
<1>16. ASSUME Regular(ph), NEW b \in Bytes, start <= b, b < SegmentEnd(ph)
       PROVE  t.mem[b] = "zero"
  <2>1. SegmentEnd(ph) <= up + len /\ SegmentEnd(ph) \in Int
    BY <1>2, <1>3, <1>5, <1>7, <1>16, BssLength DEF SegmentEnd
  <2>2. b < up \/ (up <= b /\ b < up + len)
    BY <1>1, <1>6, <1>8, <1>16, <2>1
  <2>3. Anon[b] = "zero"
    BY <1>16, Zenon DEF Anon
  <2>4. CASE b < up
    BY <1>12, <1>14, <1>16, <2>3, <2>4, SMT DEF Covers
  <2>5. CASE up <= b /\ b < up + len
    BY <1>10, <1>12, <1>14, <1>16, <2>3, <2>5, SMT DEF Covers
  <2> QED
    BY <2>2, <2>4, <2>5, Zenon
<1>17. DOMAIN t.mem = Bytes
  BY <1>14, Zenon DEF Covers
<1> QED
  BY <1>15, <1>16, <1>17, Zenon

\* Loading a segment leaves the pages below it, and puts a regular one in its place.
LEMMA SegmentLoads ==
  ASSUME NEW s, Marked(s), DOMAIN s.mem = Bytes, NEW ph \in Segments,
         SegmentEnd(ph) <= ASPACE_SIZE - PAGE_SIZE, NEW t, t = LoadSegment(s, ph)
  PROVE  /\ DOMAIN t.mem = Bytes
         /\ \A b \in Bytes : b < rounddown(ph.vaddr) => t.mem[b] = s.mem[b]
         /\ Regular(ph) => SegmentIn(t, ph)
<1>1. Bytes \subseteq Int
  BY SpaceFacts DEF Bytes
<1>2. ph.vaddr \in Nat /\ ph.filesz \in Nat /\ ph.memsz \in Nat
  BY DEF Segments
<1>3. PICK page : page = rounddown(ph.vaddr)
  BY Zenon
<1>4. page \in Nat /\ page <= ph.vaddr
  BY <1>2, <1>3, RounddownDown
<1>5. SegmentEnd(ph) = ph.vaddr + ph.memsz
  BY Zenon DEF SegmentEnd
<1>6. PICK f : f = Fixed(s, page, ph.filesz + (ph.vaddr - page), FileBytes(ph))
  BY Zenon
<1>7. /\ DOMAIN f.mem = Bytes
      /\ \A b \in Bytes : b < page => f.mem[b] = s.mem[b]
      /\ \A b \in Bytes : ph.vaddr <= b /\ b < ph.vaddr + ph.filesz => f.mem[b] = "file"
  BY <1>3, <1>6, FileLoaded
<1>8. Marked(f)
  BY <1>6, FixedMarked, Zenon
<1>9. CASE ph.filesz # 0 /\ ph.memsz > ph.filesz
  <2>1. t = LoadBss(f, ph)
    <3>1. ~(ph.memsz <= ph.filesz)
      BY <1>2, <1>9
    <3> QED
      BY <1>3, <1>6, <1>9, <3>1, Zenon DEF LoadSegment
  <2>2. PICK start : start = ph.vaddr + ph.filesz
    BY Zenon
  <2>3. /\ DOMAIN t.mem = Bytes
        /\ \A b \in Bytes : b < start => t.mem[b] = f.mem[b]
        /\ Regular(ph) =>
             \A b \in Bytes : start <= b /\ b < SegmentEnd(ph) => t.mem[b] = "zero"
    BY <1>7, <1>8, <1>9, <2>1, <2>2, BssLoaded
  <2>4. \A b \in Bytes : b < page => t.mem[b] = s.mem[b]
    BY <1>1, <1>2, <1>4, <1>7, <2>2, <2>3
  <2>5. Regular(ph) => SegmentIn(t, ph)
    BY <1>1, <1>2, <1>7, <2>2, <2>3, SMT DEF SegmentIn
  <2> QED
    BY <1>3, <2>3, <2>4, <2>5, Zenon
<1>10. CASE ph.filesz # 0 /\ ph.memsz <= ph.filesz
  <2>1. t = f
    <3>1. ~(ph.memsz > ph.filesz)
      BY <1>2, <1>10
    <3> QED
      BY <1>3, <1>6, <1>10, <3>1, Zenon DEF LoadSegment
  <2>2. SegmentIn(t, ph)
    BY <1>1, <1>2, <1>5, <1>7, <1>10, <2>1, SMT DEF SegmentIn
  <2> QED
    BY <1>3, <1>7, <2>1, <2>2, Zenon
<1>11. CASE ph.filesz = 0 /\ ph.memsz # 0
  <2>1. PICK len : len = ph.memsz + (ph.vaddr - page)
    BY Zenon
  <2>2. len \in Nat /\ page + len = SegmentEnd(ph)
    BY <1>2, <1>4, <1>5, <2>1
  <2>3. t = Fixed(s, page, len, Anon)
    BY <1>3, <1>11, <2>1, Zenon DEF LoadSegment
  <2>4. Covers(s, t, page, len, Anon)
    BY <1>4, <2>2, <2>3, FixedCovers, Zenon
  <2>5. SegmentIn(t, ph)
    BY <1>1, <1>2, <1>4, <1>11, <2>2, <2>4, SMT DEF SegmentIn, Covers, Anon
  <2> QED
    BY <1>3, <2>4, <2>5, Zenon DEF Covers
<1>12. CASE ph.filesz = 0 /\ ph.memsz = 0
  <2>1. t = s
    BY <1>12, Zenon DEF LoadSegment
  <2>2. SegmentIn(t, ph)
    BY <1>1, <1>2, <1>5, <1>12, SMT DEF SegmentIn
  <2> QED
    BY <2>1, <2>2, Zenon
<1> QED
  BY <1>2, <1>9, <1>10, <1>11, <1>12

\* The segments that are loaded so far are in their places.
LoadInv ==
  /\ phase \in {"init", "load", "loaded"} => DOMAIN vm.mem = Bytes
  /\ phase = "init" => seg = 0
  /\ phase \in {"load", "loaded"} =>
       /\ image \in Images
       /\ seg \in 0 .. Len(image)
       /\ \A k \in 1 .. seg : Regular(image[k]) => SegmentIn(vm, image[k])
  /\ phase = "load" => seg < Len(image)
  /\ phase = "loaded" => seg = Len(image)

\* Init.
LEMMA InitLoad ==
  ASSUME Init
  PROVE  LoadInv
<1>1. phase = "init" /\ seg = 0
  BY Zenon DEF Init
<1>2. DOMAIN vm.mem = Bytes
  <2>1. PICK h : vm = [mem  |-> [b \in Bytes |-> IF PageOf(b) \in h THEN "host" ELSE "none"],
                       used |-> MarkUsedPages({}, 0, LOW)]
    BY Zenon DEF Init
  <2> QED
    BY <2>1, SMT
<1> QED
  BY <1>1, <1>2, Zenon DEF LoadInv

\* One more segment.
LEMMA LoadPhdrKeeps ==
  ASSUME MemInv, LoadInv, LoadPhdr
  PROVE  LoadInv'
<1>1. PICK m : m = seg + 1
  BY Zenon
<1>2. PICK L : L = Len(image)
  BY Zenon
<1>3. /\ phase = "load" /\ image \in Images /\ image' = image /\ seg' = m
      /\ vm' = LoadSegment(vm, image[m]) /\ DOMAIN vm.mem = Bytes /\ Marked(vm)
      /\ phase' = IF m = L THEN "loaded" ELSE "load"
      /\ seg \in 0 .. L /\ seg < L
      /\ \A k \in 1 .. seg : Regular(image[k]) => SegmentIn(vm, image[k])
  BY <1>1, <1>2, Zenon DEF LoadPhdr, LoadInv, MemInv
<1>4. L \in Nat /\ DOMAIN image = 1 .. L /\ \A k \in 1 .. L : image[k] \in Segments
  <2>1. image \in Seq(Segments)
    BY <1>3, InputsAssumption, Zenon DEF Segments
  <2> QED
    BY <1>2, <2>1
<1>5. m \in 1 .. L /\ m \in 0 .. L /\ m - 1 = seg /\ (m # L => m < L)
  <2>1. seg \in 0 .. L /\ seg < L
    BY <1>3, Zenon
  <2> QED
    BY <1>1, <1>4, <2>1
<1>6. PICK ph : ph = image[m]
  BY Zenon
<1>7. /\ ph \in Segments /\ SegmentEnd(ph) <= ASPACE_SIZE - PAGE_SIZE
      /\ \A j \in 1 .. seg : SegmentEnd(image[j]) <= rounddown(ph.vaddr)
  BY <1>3, <1>4, <1>5, <1>6, ImagesAssumption, Zenon
<1>8. /\ DOMAIN vm'.mem = Bytes
      /\ \A b \in Bytes : b < rounddown(ph.vaddr) => vm'.mem[b] = vm.mem[b]
      /\ Regular(ph) => SegmentIn(vm', ph)
  BY <1>3, <1>6, <1>7, SegmentLoads
<1>9. ASSUME NEW k \in 1 .. m, Regular(image[k])
      PROVE  SegmentIn(vm', image[k])
  <2>1. CASE k = m
    BY <1>6, <1>8, <1>9, <2>1, Zenon
  <2>2. CASE k # m
    <3>1. k \in 1 .. seg /\ k \in 1 .. L
      BY <1>4, <1>5, <1>9, <2>2
    <3>2. SegmentIn(vm, image[k]) /\ SegmentEnd(image[k]) <= rounddown(ph.vaddr)
      BY <1>3, <1>7, <1>9, <3>1, Zenon
    <3>3. image[k] \in Segments
      BY <1>4, <3>1, Zenon
    <3>4. rounddown(ph.vaddr) \in Nat /\ SegmentEnd(image[k]) \in Nat /\ Bytes \subseteq Int
      BY <1>7, <3>3, RounddownDown, SpaceFacts DEF Segments, SegmentEnd, Bytes
    <3>5. \A b \in Bytes : b < SegmentEnd(image[k]) => vm'.mem[b] = vm.mem[b]
      BY <1>8, <3>2, <3>4
    <3> QED
      BY <3>2, <3>5, Zenon DEF SegmentIn
  <2> QED
    BY <2>1, <2>2, Zenon
<1>10. /\ phase' \in {"load", "loaded"} /\ phase' # "init"
       /\ phase' = "load" => m # L
       /\ phase' = "loaded" => m = L
  BY <1>3
<1> QED
  BY <1>2, <1>3, <1>5, <1>8, <1>9, <1>10, Zenon DEF LoadInv

\* LoadElf and the other steps.
LEMMA NextLoad ==
  ASSUME MemInv, LoadInv, [Next]_vars
  PROVE  LoadInv'
<1>1. ASSUME NEW img \in Images, LoadElf(img)
      PROVE  LoadInv'
  <2>1. /\ phase = "init" /\ phase' = "load" /\ image' = img /\ seg' = seg /\ vm' = vm
        /\ seg = 0 /\ DOMAIN vm.mem = Bytes
    BY <1>1, Zenon DEF LoadElf, LoadInv
  <2>2. Len(img) \in Nat /\ Len(img) > 0
    <3>1. img \in Seq(Segments) /\ img # <<>>
      BY InputsAssumption, Zenon DEF Segments
    <3> QED
      BY <3>1
  <2>3. 0 \in 0 .. Len(img) /\ 0 < Len(img) /\ \A k : k \notin 1 .. 0
    BY <2>2
  <2> QED
    BY <2>1, <2>3, Zenon DEF LoadInv
<1>2. CASE LoadPhdr
  BY <1>2, LoadPhdrKeeps, Zenon
<1>3. ASSUME phase' \notin {"init", "load", "loaded"}
      PROVE  LoadInv'
  BY <1>3, Zenon DEF LoadInv
<1>4. CASE UNCHANGED vars
  BY <1>4, Zenon DEF vars, LoadInv, SegmentIn
<1>5. CASE /\ Next /\ ~LoadPhdr /\ ~\E img \in Images : LoadElf(img)
  <2>1. ASSUME NEW newbrk \in Brks, NEW mapped \in BOOLEAN, Brk(newbrk, mapped)
        PROVE  phase' \in {"run", "crash"}
    <3>1. phase = "run"
      BY <2>1, Zenon DEF Brk, Idle
    <3>2. ASSUME NEW s, NEW len, SetBrk(s, len, newbrk)
          PROVE  phase' \in {"run", "crash"}
      BY <3>1, <3>2 DEF SetBrk
    <3> QED
      BY <2>1, <3>1, <3>2, BrkCases
  <2>2. CASE MapStack
    BY <1>3, <2>2, Zenon DEF MapStack
  <2>3. ASSUME phase = "run", phase' = phase
        PROVE  LoadInv'
    BY <1>3, <2>3
  <2>4. CASE (\E plen \in Lens : Mmap(plen)) \/ MmapFails \/ MmapLookup \/ MmapTry
    BY <2>3, <2>4, Zenon DEF Mmap, MmapFails, MmapLookup, Searching, MmapTry
  <2>5. ASSUME NEW p, NEW plen, MmapFixed(p, plen) \/ Munmap(p, plen) \/ Write(p)
        PROVE  LoadInv'
    BY <2>3, <2>5, Zenon DEF MmapFixed, Munmap, Write, Idle
  <2>6. ASSUME NEW newbrk \in Brks, NEW mapped \in BOOLEAN, Brk(newbrk, mapped)
        PROVE  LoadInv'
    BY <1>3, <2>1, <2>6
  <2> QED
    BY <1>5, <2>2, <2>4, <2>5, <2>6, Zenon DEF Next
<1> QED
  BY <1>1, <1>2, <1>4, <1>5, Zenon

\* LoadElf puts every regular segment of an image in its place.
THEOREM SegmentsAreLoaded == Spec => []SegmentsLoaded
<1>1. MemInv /\ LoadInv /\ [Next]_vars => LoadInv'
  BY NextLoad, Zenon
<1>2. LoadInv => SegmentsLoaded
  <2> SUFFICES ASSUME LoadInv, phase = "loaded", NEW k \in DOMAIN image, Regular(image[k]),
                      NEW b \in image[k].vaddr .. SegmentEnd(image[k]) - 1
               PROVE  vm.mem[b] = IF b < image[k].vaddr + image[k].filesz THEN "file" ELSE "zero"
    BY Zenon DEF SegmentsLoaded
  <2>1. image \in Images /\ seg = Len(image)
    BY Zenon DEF LoadInv
  <2>2. image \in Seq(Segments)
    BY <2>1, InputsAssumption, Zenon DEF Segments
  <2>3. k \in 1 .. seg /\ image[k] \in Segments
    BY <2>1, <2>2
  <2>4. SegmentIn(vm, image[k])
    BY <2>3, Zenon DEF LoadInv
  <2>5. SegmentEnd(image[k]) <= ASPACE_SIZE - PAGE_SIZE
    BY <2>1, ImagesAssumption, Zenon
  <2>6. PICK ph : ph = image[k]
    BY Zenon
  <2>7. ph.vaddr \in Nat /\ SegmentEnd(ph) \in Nat /\ SegmentEnd(ph) <= ASPACE_SIZE - PAGE_SIZE
    BY <2>3, <2>5, <2>6 DEF Segments, SegmentEnd
  <2>8. b \in Bytes /\ ph.vaddr <= b /\ b < SegmentEnd(ph)
    BY <2>6, <2>7, SpaceFacts DEF Bytes
  <2> QED
    BY <2>4, <2>6, <2>8, Zenon DEF SegmentIn
<1> QED
  BY <1>1, <1>2, InitLoad, MemInvariant, PTL DEF Spec

-----------------------------------------------------------------------------
(* The stack. *)

\* f is the stack pointer before the strings and after each of them.
Pushed(top, len, f) ==
  f = [k \in 0 .. Len(len) |-> IF k = 0 THEN top ELSE f[k - 1] - len[k]]

\* The recursion of AVectorStrs defines a function.
LEMMA PushedExists ==
  ASSUME NEW top, NEW len \in Seq(Nat)
  PROVE  \E f : Pushed(top, len, f)
<1> DEFINE Upto(m, f) == f = [k \in 0 .. m |-> IF k = 0 THEN top ELSE f[k - 1] - len[k]]
           T == {m \in Nat : ~\E f : Upto(m, f)}
<1>1. ASSUME T # {} PROVE FALSE
  <2>1. PICK m \in T : \A y \in T : m <= y
    BY <1>1, LeastNatural, Zenon
  <2>2. CASE m = 0
    <3>1. Upto(0, [k \in 0 .. 0 |-> top])
      OBVIOUS
    <3> QED
      BY <2>1, <2>2, <3>1, Zenon
  <2>3. CASE m # 0
    <3>1. m \in Nat /\ m - 1 \in Nat /\ m - 1 \notin T
      <4>1. m \in Nat
        BY <2>1, Zenon
      <4> HIDE DEF T
      <4> QED
        BY <2>1, <2>3, <4>1
    <3>2. PICK f : Upto(m - 1, f)
      BY <3>1, Zenon
    <3>3. PICK g : g = [k \in 0 .. m |-> IF k = m THEN f[m - 1] - len[m] ELSE f[k]]
      BY Zenon
    <3>4. \A k \in 0 .. m - 1 : /\ g[k] = f[k]
                                /\ f[k] = IF k = 0 THEN top ELSE f[k - 1] - len[k]
      BY <3>1, <3>2, <3>3
    <3>5. g[m] = g[m - 1] - len[m]
      BY <3>1, <3>3, <3>4
    <3>6. \A k \in 0 .. m : g[k] = IF k = 0 THEN top ELSE g[k - 1] - len[k]
      <4>1. ASSUME NEW k \in 0 .. m - 1
            PROVE  g[k] = IF k = 0 THEN top ELSE g[k - 1] - len[k]
        <5>1. CASE k = 0
          BY <3>4, <5>1, Zenon
        <5>2. CASE k # 0
          <6>1. k - 1 \in 0 .. m - 1
            BY <3>1, <5>2
          <6> QED
            BY <3>4, <5>2, <6>1, Zenon
        <5> QED
          BY <5>1, <5>2, Zenon
      <4>2. \A k \in 0 .. m : k = m \/ k \in 0 .. m - 1
        BY <3>1
      <4> QED
        BY <2>3, <3>5, <4>1, <4>2, Zenon
    <3>7. Upto(m, g)
      BY <3>3, <3>6, Zenon
    <3> QED
      BY <2>1, <3>7, Zenon
  <2> QED
    BY <2>2, <2>3, Zenon
<1>2. Len(len) \in Nat
  OBVIOUS
<1>3. \E f : Upto(Len(len), f)
  BY <1>1, <1>2, Zenon
<1> QED
  BY <1>3, Zenon DEF Pushed

\* Each string lies below the ones before it.
LEMMA Descends ==
  ASSUME NEW top \in Int, NEW len \in Seq(Nat), NEW f, Pushed(top, len, f)
  PROVE  f[Len(len)] \in Int /\ \A k \in 0 .. Len(len) : f[k] \in Int /\ f[Len(len)] <= f[k]
<1> DEFINE Low(m) == f[m] \in Int /\ \A k \in 0 .. m : f[k] \in Int /\ f[m] <= f[k]
           T == {m \in Nat : m <= Len(len) /\ ~Low(m)}
<1>1. Len(len) \in Nat /\ \A k \in 1 .. Len(len) : len[k] \in Nat
  OBVIOUS
<1>2. \A k \in 0 .. Len(len) : f[k] = IF k = 0 THEN top ELSE f[k - 1] - len[k]
  BY Zenon DEF Pushed
<1>3. ASSUME T # {} PROVE FALSE
  <2>1. PICK m \in T : \A y \in T : m <= y
    BY <1>3, LeastNatural, Zenon
  <2>2. m \in Nat /\ m <= Len(len) /\ ~Low(m)
    BY <2>1, Zenon
  <2>3. CASE m = 0
    <3>1. f[0] = top
      BY <1>1, <1>2
    <3>2. Low(0)
      BY <3>1
    <3> QED
      BY <2>2, <2>3, <3>2, Zenon
  <2>4. CASE m # 0
    <3>1. /\ m - 1 \in Nat /\ m - 1 <= Len(len) /\ m \in 0 .. Len(len) /\ m \in 1 .. Len(len)
          /\ \A k \in 0 .. m : k = m \/ k \in 0 .. m - 1
      BY <1>1, <2>2, <2>4
    <3>2. m - 1 \notin T
      <4>1. ~(m <= m - 1)
        BY <2>2
      <4> QED
        BY <2>1, <4>1, Zenon
    <3>3. Low(m - 1)
      BY <3>1, <3>2, Zenon
    <3>4. f[m] = f[m - 1] - len[m] /\ len[m] \in Nat /\ f[m - 1] \in Int
      BY <1>1, <1>2, <2>4, <3>1, <3>3, Zenon
    <3>5. f[m] \in Int /\ f[m] <= f[m - 1]
      BY <3>4
    <3>6. ASSUME NEW k \in 0 .. m PROVE f[k] \in Int /\ f[m] <= f[k]
      <4>1. CASE k = m
        BY <3>5, <4>1
      <4>2. CASE k # m
        <5>1. f[k] \in Int /\ f[m - 1] <= f[k]
          BY <3>1, <3>3, <4>2, Zenon
        <5> QED
          BY <3>4, <3>5, <5>1
      <4> QED
        BY <4>1, <4>2, Zenon
    <3> QED
      BY <2>2, <3>5, <3>6, Zenon
  <2> QED
    BY <2>3, <2>4, Zenon
<1>4. Len(len) \notin T
  BY <1>3, Zenon
<1>5. Low(Len(len))
  <2>1. Len(len) <= Len(len)
    BY <1>1
  <2> QED
    BY <1>1, <1>4, <2>1, Zenon
<1> QED
  BY <1>5, Zenon

\* For arguments of every number and length, the stack pointer that InitAVectors
\* leaves is aligned, the vectors follow it without gaps, and the last of them ends
\* below every string.
THEOREM StackIsLaidOut == Spec => []StackLaidOut
<1>1. ASSUME NEW lens \in ArgLens, NEW v, v = AVectors(STACK_TOP, lens)
      PROVE  /\ v.sp % 16 = 0
             /\ v.auxv = v.sp + WORD_SIZE * (1 + Len(lens) + 1 + ENVP_N + 1)
             /\ \A k \in DOMAIN v.strs : v.auxv + WORD_SIZE * AUXV_PUSHED <= v.strs[k]
  <2>1. PICK len : len = <<12, 9, 16>> \o U16s(lens)
    BY Zenon
  <2>2. PICK L \in Nat : L = Len(lens) /\ lens \in [1 .. L -> Nat]
    <3>1. lens \in Seq(Nat)
      BY InputsAssumption, Zenon
    <3> QED
      BY <3>1
  <2>3. len \in Seq(Nat) /\ Len(len) = 3 + L
    <3>1. U16s(lens) \in [1 .. L -> Nat]
      BY <2>2 DEF U16s
    <3>2. U16s(lens) \in Seq(Nat) /\ Len(U16s(lens)) = L
      BY <2>2, <3>1
    <3>3. <<12, 9, 16>> \in Seq(Nat) /\ Len(<<12, 9, 16>>) = 3
      OBVIOUS
    <3> QED
      BY <2>1, <2>2, <3>2, <3>3
  <2>4. PICK f : f = AVectorStrs(STACK_TOP, lens)
    BY Zenon
  <2>5. Pushed(STACK_TOP, len, f)
    <3> DEFINE stk == CHOOSE g : Pushed(STACK_TOP, len, g)
    <3>1. Pushed(STACK_TOP, len, stk)
      BY <2>3, PushedExists, Zenon
    <3>2. f = stk
      BY <2>1, <2>4, Zenon DEF AVectorStrs, Pushed
    <3> QED
      BY <3>1, <3>2, Zenon
  <2>6. PICK low \in Int : low = f[3 + L] /\ \A k \in 1 .. 3 + L : f[k] \in Int /\ low <= f[k]
    <3>1. STACK_TOP \in Int
      BY DEF STACK_TOP
    <3>2. \A k \in 1 .. 3 + L : k \in 0 .. 3 + L
      BY <2>2
    <3> QED
      BY <2>3, <2>5, <3>1, <3>2, Descends, Zenon
  <2>7. PICK q \in Int, r \in Int : /\ q = ((low \div 4) * 4 - (L + 68) * 4) \div 16
                                   /\ r = low \div 4
    BY <2>2
  <2>8. r * 4 <= low
    BY <2>7
  <2>9. q * 16 <= r * 4 - (L + 68) * 4
    BY <2>7
  <2>10. /\ v.sp = q * 16 /\ v.auxv = ((q * 16 + 4) + 4 * (L + 1)) + 8
         /\ v.strs = [k \in 1 .. 3 + L |-> f[k]]
    BY <1>1, <2>2, <2>4, <2>6, <2>7 DEF AVectors, WORD_SIZE, ENVP_N, AUXV_N
  <2>11. v.sp % 16 = 0
    BY <2>10
  <2>12. v.auxv = v.sp + WORD_SIZE * (1 + Len(lens) + 1 + ENVP_N + 1)
    BY <2>2, <2>10 DEF WORD_SIZE, ENVP_N
  <2>13. v.auxv + WORD_SIZE * AUXV_PUSHED <= low /\ v.auxv + WORD_SIZE * AUXV_PUSHED \in Int
    BY <2>8, <2>9, <2>10 DEF WORD_SIZE, AUXV_PUSHED
  <2>14. \A k \in DOMAIN v.strs : v.auxv + WORD_SIZE * AUXV_PUSHED <= v.strs[k]
    BY <2>6, <2>10, <2>13
  <2> QED
    BY <2>11, <2>12, <2>14, Zenon
<1>2. StackLaidOut
  BY <1>1, Zenon DEF StackLaidOut
<1> QED
  BY <1>2, PTL

=============================================================================
