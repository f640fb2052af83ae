---------------------------- MODULE GuestMemory ----------------------------
(***************************************************************************)
(* The guest's address space: mmu (the page bitmap, the hint and the search *)
(* for a free range), the ELF loader, the initial stack, and the guest's    *)
(* brk, mmap2 and munmap.                                                   *)
(*                                                                          *)
(* An address is a byte of a space of PAGES pages of PAGE_SIZE bytes, and   *)
(* mem says what the host has mapped at each byte: nothing ("none"), bytes  *)
(* of the file that belong to the segment ("file") or are others of its     *)
(* pages ("stray"), zeros, what the guest wrote ("data"), or memory of the  *)
(* translator, placed in the space before ("host"). The guest is one thread. *)
(*                                                                          *)
(* An operator named Op_Variant is a mistaken form of Op.                   *)
(***************************************************************************)
EXTENDS Integers, Sequences, FiniteSetsExt

CONSTANTS PAGES, PAGE_SIZE,
          MIN_PAGE,    \* MIN_MMAP_ADDR >> PAGE_BITS
          LOW,         \* MIN_MMAP_ADDR
          STACK,       \* pages of the stack
          Images,      \* sequences of PT_LOAD headers
          HostPages,   \* pages the host may have taken at start
          Lens,        \* lengths, in pages, that the guest maps
          Brks,        \* addresses that the guest passes to brk
          ArgLens,     \* lengths of argument vectors' strings
          Placed,      \* pages that the guest names in mmap and munmap
          Dirtied      \* pages that the guest writes

ASSUME SpaceAssumption ==
  /\ {PAGES, PAGE_SIZE, MIN_PAGE, LOW, STACK} \subseteq Nat \ {0}
  /\ MIN_PAGE <= LOW /\ LOW < PAGES - STACK - 1

VARIABLES phase,  \* "init", "load", "loaded", "run", "crash"
          vm,     \* mem: what is mapped at each byte; used: used_pages
          hint,   \* mmap_hint_page
          brk,    \* process.brk
          image,  \* the image that is loaded, during the boot
          seg,    \* how many of its segments are loaded
          req     \* the mmap being served, or NoReq

vars == <<phase, vm, hint, brk, image, seg, req>>

ASPACE_SIZE == PAGES * PAGE_SIZE

\* Addresses and sizes are u32, an image has a segment to load, and the length
\* of an mmap is not 0.
ASSUME InputsAssumption ==
  /\ Lens \subseteq Nat \ {0}
  /\ Brks \subseteq 0 .. ASPACE_SIZE
  /\ Images \subseteq Seq([vaddr : Nat, filesz : Nat, memsz : Nat]) \ {<<>>}
  /\ ArgLens \subseteq Seq(Nat)

Bytes == 0 .. ASPACE_SIZE - 1

PageOf(b) == b \div PAGE_SIZE

NoReq == [plen |-> 0, paddr |-> 0, wrapped |-> FALSE, try |-> FALSE]

roundup(x) == ((x + PAGE_SIZE - 1) \div PAGE_SIZE) * PAGE_SIZE

rounddown(x) == (x \div PAGE_SIZE) * PAGE_SIZE

\* A u32.
U32(x) == x % ASPACE_SIZE

FreeRange(p, plen) ==
  \A b \in p * PAGE_SIZE .. (p + plen) * PAGE_SIZE - 1 : b \in Bytes /\ vm.mem[b] = "none"

-----------------------------------------------------------------------------
(* mmu. *)

\* The loop ends at plen, not at pvaddr + plen.
MarkUsedPages(u, pvaddr, plen) == u \cup pvaddr .. plen - 1

\* The first plen unmarked pages from pvaddr on; 0 if there are none.
LookupFreeRange(pvaddr, plen) ==
  LET starts == {p \in pvaddr .. PAGES - plen : (p .. p + plen - 1) \cap vm.used = {}}
  IN  IF plen = 0 \/ starts = {} THEN 0 ELSE Min(starts)

\* mmap with MAP_FIXED at a page address: it fails on a length of 0. contents says
\* what the new pages hold at each byte.
Fixed(s, vaddr, len, contents) ==
  IF len = 0 THEN s
  ELSE [mem  |-> [b \in Bytes |-> IF b \in vaddr .. vaddr + roundup(len) - 1
                                  THEN contents[b] ELSE s.mem[b]],
        used |-> MarkUsedPages(s.used, PageOf(vaddr), PageOf(roundup(len)))]

Anon == [b \in Bytes |-> "zero"]

memset(s, start, len) ==
  [s EXCEPT !.mem = [b \in Bytes |-> IF b \in start .. start + len - 1 THEN "zero" ELSE @[b]]]

Mapped(s, start, len) == \A b \in start .. start + len - 1 : b \in Bytes /\ s.mem[b] # "none"

-----------------------------------------------------------------------------
(* LoadElf. *)

Slack(ph) == roundup(ph.vaddr + ph.filesz) - (ph.vaddr + ph.filesz)

FileBytes(ph) ==
  [b \in Bytes |-> IF b \in ph.vaddr .. ph.vaddr + ph.filesz - 1 THEN "file" ELSE "stray"]

\* Mistaken: the rest of the file's last page is not cleared.
LoadBss_NoMemset(s, ph) ==
  LET bss_start == ph.vaddr + ph.filesz
      bss_end   == rounddown(ph.vaddr) + ph.memsz
      bss_len   == U32(roundup(U32(bss_end - bss_start)))
  IN  Fixed(s, roundup(bss_start), bss_len, Anon)

\* The pages after the file's and the rest of its last page; the length is
\* computed from the page of vaddr, in 32 bits.
LoadBss(s, ph) ==
  LET bss_start == ph.vaddr + ph.filesz
      bss_end   == rounddown(ph.vaddr) + ph.memsz
      bss_len   == U32(roundup(U32(bss_end - bss_start)))
  IN  memset(Fixed(s, roundup(bss_start), bss_len, Anon), bss_start, Slack(ph))

LoadSegment(s, ph) ==
  LET page == rounddown(ph.vaddr)
      po   == ph.vaddr - page
      file == Fixed(s, page, ph.filesz + po, FileBytes(ph))
  IN  CASE ph.filesz # 0 /\ ph.memsz > ph.filesz  -> LoadBss(file, ph)
        [] ph.filesz # 0 /\ ph.memsz <= ph.filesz -> file
        [] ph.filesz = 0 /\ ph.memsz # 0           -> Fixed(s, page, ph.memsz + po, Anon)
        [] OTHER                                     -> s

SegmentEnd(ph) == ph.vaddr + ph.memsz

\* Segments lie in ascending order, on pages of their own, below the guard page.
ASSUME ImagesAssumption ==
  \A img \in Images : \A k \in DOMAIN img :
    /\ SegmentEnd(img[k]) <= ASPACE_SIZE - PAGE_SIZE
    /\ \A j \in 1 .. k - 1 : SegmentEnd(img[j]) <= rounddown(img[k].vaddr)

-----------------------------------------------------------------------------
(* Init and boot. *)

\* Mistaken: MIN_MMAP_ADDR >> PAGE_BITS pages are marked.
Init_MinPage ==
  /\ phase = "init"
  /\ \E h \in SUBSET HostPages :
       vm = [mem  |-> [b \in Bytes |-> IF PageOf(b) \in h THEN "host" ELSE "none"],
             used |-> MarkUsedPages({}, 0, MIN_PAGE)]
  /\ hint = MIN_PAGE
  /\ brk = 0
  /\ image = <<>>
  /\ seg = 0
  /\ req = NoReq

Init ==
  /\ phase = "init"
  /\ \E h \in SUBSET HostPages :
       vm = [mem  |-> [b \in Bytes |-> IF PageOf(b) \in h THEN "host" ELSE "none"],
             used |-> MarkUsedPages({}, 0, LOW)]
  /\ hint = MIN_PAGE
  /\ brk = 0
  /\ image = <<>>
  /\ seg = 0
  /\ req = NoReq

LoadElf(img) ==
  /\ phase = "init"
  /\ phase' = "load"
  /\ image' = img
  /\ UNCHANGED <<vm, hint, brk, seg, req>>

\* An iteration of the loop over the headers.
LoadPhdr ==
  /\ phase = "load"
  /\ seg' = seg + 1
  /\ vm' = LoadSegment(vm, image[seg'])
  /\ brk' = Max({brk, SegmentEnd(image[seg'])})
  /\ phase' = IF seg' = Len(image) THEN "loaded" ELSE "load"
  /\ UNCHANGED <<hint, image, req>>

\* InitElfMappings: the guard is the last page, the stack is below it.
MapStack ==
  LET guard == ASPACE_SIZE - PAGE_SIZE
      stack == guard - STACK * PAGE_SIZE
  IN  /\ phase = "loaded"
      /\ phase' = "run"
      /\ vm' = Fixed(Fixed(vm, guard, PAGE_SIZE, Anon), stack, STACK * PAGE_SIZE, Anon)
      /\ image' = <<>>
      /\ seg' = 0
      /\ UNCHANGED <<hint, brk, req>>

-----------------------------------------------------------------------------
(* InitAVectors, in bytes. lens are the lengths of the argument strings, the *)
(* terminating zero included. It returns where each vector and string lies.  *)

\* A page boundary (the guard's).
STACK_TOP == 4096

WORD_SIZE == 4

ENVP_N == 1

\* Mistaken: one word is reserved for each entry.
AUXV_N_Entries == 32

AUXV_N == 64

\* Words of the auxiliary vector that are written, AT_NULL included.
AUXV_PUSHED == 2 * 17

\* AllocAVectorStr takes the length of a string as a u16.
U16s(lens) == [k \in DOMAIN lens |-> lens[k] % 65536]

\* stk after each of the strings: "__foo_str__", "LC_ALL=C", the salt and the arguments.
AVectorStrs(top, lens) ==
  LET len == <<12, 9, 16>> \o U16s(lens)
      stk[k \in 0 .. Len(len)] == IF k = 0 THEN top ELSE stk[k - 1] - len[k]
  IN  stk

AVectors(top, lens) ==
  LET strs == AVectorStrs(top, lens)
      strn == 3 + Len(lens)
      sz   == (Len(lens) + ENVP_N + AUXV_N + 3) * WORD_SIZE
      stk  == (((strs[strn] \div 4) * 4 - sz) \div 16) * 16
      argv == stk + WORD_SIZE
      envp == argv + WORD_SIZE * (Len(lens) + 1)
  IN  [sp |-> stk, argv |-> argv, envp |-> envp,
       auxv |-> envp + WORD_SIZE * (ENVP_N + 1), strs |-> [k \in 1 .. strn |-> strs[k]]]

-----------------------------------------------------------------------------
(* mmap without MAP_FIXED: the address the guest asks for is ignored. *)

Mmap(plen) ==
  /\ phase = "run" /\ req = NoReq
  /\ req' = [plen |-> plen, paddr |-> hint, wrapped |-> FALSE, try |-> FALSE]
  /\ UNCHANGED <<phase, vm, hint, brk, image, seg>>

Searching == phase = "run" /\ req # NoReq /\ ~req.try

Found == LookupFreeRange(req.paddr, req.plen)

\* Mistaken: the search never wraps.
OutOfRange_NoWrap == Found = 0

OutOfRange == req.wrapped /\ (Found = 0 \/ Found > hint)

\* "no free range in vm".
MmapFails ==
  /\ Searching
  /\ OutOfRange
  /\ req' = NoReq
  /\ UNCHANGED <<phase, vm, hint, brk, image, seg>>

MmapLookup ==
  /\ Searching
  /\ ~OutOfRange
  /\ req' = IF Found = 0 THEN [req EXCEPT !.wrapped = TRUE, !.paddr = MIN_PAGE]
                         ELSE [req EXCEPT !.paddr = Found, !.try = TRUE]
  /\ UNCHANGED <<phase, vm, hint, brk, image, seg>>

\* The page the host chooses for a range with a hint and without MAP_FIXED: the
\* hint when the range is free, or else any free range, one that does not end in
\* the guest's space included.
HostChoice(paddr, plen) ==
  IF FreeRange(paddr, plen) THEN {paddr}
  ELSE {p \in MIN_PAGE .. PAGES : p + plen > PAGES \/ FreeRange(p, plen)}

\* check_h2g of the last byte.
InGuest(p, plen) == p + plen <= PAGES

MmapHit(p) ==
  /\ InGuest(p, req.plen)
  /\ vm' = Fixed(vm, p * PAGE_SIZE, req.plen * PAGE_SIZE, Anon)
  /\ hint' = p + req.plen
  /\ req' = NoReq

\* Mistaken: the next try is at the same page.
MmapMiss_Stay(p) ==
  /\ ~InGuest(p, req.plen)
  /\ req' = [req EXCEPT !.try = FALSE]
  /\ UNCHANGED <<vm, hint>>

MmapMiss(p) ==
  /\ ~InGuest(p, req.plen)
  /\ req' = [req EXCEPT !.paddr = @ + req.plen, !.try = FALSE]
  /\ UNCHANGED <<vm, hint>>

\* Mistaken: the reservation is made with MAP_FIXED.
MmapTry_Fixed ==
  /\ phase = "run" /\ req.try
  /\ MmapHit(req.paddr) \/ MmapMiss(req.paddr)
  /\ UNCHANGED <<phase, brk, image, seg>>

MmapTry ==
  /\ phase = "run" /\ req.try
  /\ \E p \in HostChoice(req.paddr, req.plen) : MmapHit(p) \/ MmapMiss(p)
  /\ UNCHANGED <<phase, brk, image, seg>>

-----------------------------------------------------------------------------
(* The guest's other calls and its writes. *)

Idle == phase = "run" /\ req = NoReq

MmapFixed(p, plen) ==
  /\ Idle
  /\ InGuest(p, plen)
  /\ vm' = Fixed(vm, p * PAGE_SIZE, plen * PAGE_SIZE, Anon)
  /\ UNCHANGED <<phase, hint, brk, image, seg, req>>

Munmap(p, plen) ==
  /\ Idle
  /\ InGuest(p, plen)
  /\ vm' = [vm EXCEPT !.mem = [b \in Bytes |-> IF PageOf(b) \in p .. p + plen - 1
                                               THEN "none" ELSE @[b]]]
  /\ UNCHANGED <<phase, hint, brk, image, seg, req>>

Write(p) ==
  /\ Idle
  /\ vm' = [vm EXCEPT !.mem = [b \in Bytes |-> IF PageOf(b) = p /\ @[b] # "none"
                                               THEN "data" ELSE @[b]]]
  /\ UNCHANGED <<phase, hint, brk, image, seg, req>>

\* Mistaken: the bytes are not zeroed.
SetBrk_NoMemset(s, len, newbrk) ==
  IF Mapped(s, brk, len)
  THEN vm' = s /\ brk' = newbrk /\ UNCHANGED phase
  ELSE phase' = "crash" /\ vm' = s /\ UNCHANGED brk

\* The end of linux_brk: len bytes from the old break are zeroed in s; that is a
\* fault of the translator when they are not mapped.
SetBrk(s, len, newbrk) ==
  IF Mapped(s, brk, len)
  THEN vm' = memset(s, brk, len) /\ brk' = newbrk /\ UNCHANGED phase
  ELSE phase' = "crash" /\ vm' = s /\ UNCHANGED brk

\* mapped: whether the host can map the pages.
Brk(newbrk, mapped) ==
  LET brk_p == roundup(brk)
  IN  /\ Idle
      /\ newbrk > brk
      /\ CASE newbrk < brk_p              -> SetBrk(vm, newbrk - brk, newbrk)
           [] newbrk = brk_p              -> SetBrk(vm, 0, newbrk)
           [] newbrk > brk_p /\ mapped    ->
                SetBrk(Fixed(vm, brk_p, newbrk - brk_p, Anon), brk_p - brk, newbrk)
           [] newbrk > brk_p /\ ~mapped   -> UNCHANGED <<phase, vm, brk>>
      /\ UNCHANGED <<hint, image, seg, req>>

Next == \/ \E img \in Images : LoadElf(img)
        \/ LoadPhdr
        \/ MapStack
        \/ \E plen \in Lens : Mmap(plen)
        \/ MmapFails
        \/ MmapLookup
        \/ MmapTry
        \/ \E p \in Placed, plen \in Lens : MmapFixed(p, plen)
        \/ \E p \in Placed, plen \in Lens : Munmap(p, plen)
        \/ \E p \in Dirtied : Write(p)
        \/ \E newbrk \in Brks, mapped \in BOOLEAN : Brk(newbrk, mapped)

\* mmap runs to its end before the guest goes on.
Fairness == WF_vars(MmapFails) /\ WF_vars(MmapLookup) /\ WF_vars(MmapTry)

Spec == Init /\ [][Next]_vars /\ Fairness

-----------------------------------------------------------------------------
(* Properties. *)

\* A segment whose file part leaves as much of its last page as its address
\* leaves out of the first page.
Regular(ph) == ph.filesz = 0 \/ ph.vaddr - rounddown(ph.vaddr) <= Slack(ph)

\* LoadElf puts the file's bytes at the segment's address and zeros up to its
\* end in memory, for the segments whose bss length is computed right.
SegmentsLoaded ==
  phase = "loaded" =>
    \A k \in DOMAIN image : Regular(image[k]) =>
      \A b \in image[k].vaddr .. SegmentEnd(image[k]) - 1 :
        vm.mem[b] = IF b < image[k].vaddr + image[k].filesz THEN "file" ELSE "zero"

\* InitAVectors writes the vectors one after the other from a stack pointer that
\* is 16-byte aligned, and the last of them ends below every string.
StackLaidOut ==
  phase = "loaded" =>
    \A lens \in ArgLens :
      LET v == AVectors(STACK_TOP, lens)
      IN  /\ v.sp % 16 = 0
          /\ v.auxv = v.sp + WORD_SIZE * (1 + Len(lens) + 1 + ENVP_N + 1)
          /\ \A k \in DOMAIN v.strs : v.auxv + WORD_SIZE * AUXV_PUSHED <= v.strs[k]

\* An mmap without MAP_FIXED takes only pages on which nothing was mapped, of the
\* guest or of the translator, although the bitmap it searches marks hardly any.
NoClobber ==
  [][req.try => \A b \in Bytes : vm'.mem[b] # vm.mem[b] => vm.mem[b] = "none"]_vars

\* Pages that are free in the host and not marked in the bitmap.
Room(p, n) == FreeRange(p, n) /\ (p .. p + n - 1) \cap vm.used = {}

\* An mmap without MAP_FIXED fails only when no run of 2 * plen - 1 pages is both
\* free and unmarked: the search steps by plen from the hint and wraps once. Marks
\* outlive their mappings, so pages that were unmapped may still be passed over.
FailsOnlyWhenFull ==
  [][MmapFails => ~\E p \in 0 .. PAGES - 1 : Room(p, 2 * req.plen - 1)]_vars

\* The pages below LOW, where the break grows, are never offered to the host:
\* Init marks MIN_MMAP_ADDR pages, not bytes, and the wrap passes over them.
HeapNotOffered == req.try => req.paddr >= LOW

\* brk extends the heap by mapped memory that is zero, except that an extension
\* to exactly the end of the page of the old break leaves its bytes as they are.
BrkZeroes ==
  [][phase = "run" /\ brk' # brk /\ brk' # roundup(brk) =>
       \A b \in brk .. brk' - 1 : vm'.mem[b] = "zero"]_vars

\* The search of mmap ends.
MmapReturns == req # NoReq ~> req = NoReq

=============================================================================
