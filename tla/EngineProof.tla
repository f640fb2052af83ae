---------------------------- MODULE EngineProof ----------------------------
(***************************************************************************)
(* Proofs about Engine: the inductive invariant IInv and the safety        *)
(* properties that follow from it, for every set of programs and images,   *)
(* every page size and every size of the caches and pools; that the engine *)
(* marks the entries the profile must know; and that it implements the     *)
(* abstract guest machine of module Guest.                                 *)
(***************************************************************************)
EXTENDS Engine, TLAPS, SequenceTheorems

-----------------------------------------------------------------------------
(* Addresses *)

\* ip + 4 wraps, so it is an address again.
LEMMA NextIpType == \A a \in IP : NextIp(a) \in IP
  BY GuestAssumption DEF NextIp, IP

\* l1hash selects a line that both first-level caches have.
LEMMA L1HashType == \A a \in IP : l1hash(a) \in 0 .. L1_SIZE - 1
  BY GuestAssumption, EngineAssumption DEF IP, l1hash

\* A page is an interval of addresses.
LEMMA PageInterval ==
  ASSUME NEW a \in IP, NEW b \in IP, a <= b, b < (PageOf(a) + 1) * PAGE_SIZE
  PROVE  PageOf(b) = PageOf(a)
<1> DEFINE q == a \div PAGE_SIZE
           r == b \div PAGE_SIZE
<1>1. PAGE_SIZE \in Nat /\ PAGE_SIZE > 0 /\ a \in Nat /\ b \in Nat
  BY GuestAssumption DEF IP
<1>2. q \in Nat /\ r \in Nat
  BY <1>1
<1>3. q * PAGE_SIZE <= a /\ r * PAGE_SIZE <= b /\ b < (r + 1) * PAGE_SIZE
  BY <1>1
<1>4. r < q + 1
  BY <1>1, <1>2, <1>3 DEF PageOf
<1>5. q < r + 1
  BY <1>1, <1>2, <1>3
<1> QED
  BY <1>2, <1>4, <1>5 DEF PageOf

-----------------------------------------------------------------------------
(* The translation cache *)

\* The fields of an allocated TBlock.
LEMMA TBlockFields ==
  ASSUME NEW tbs \in Seq(TBlock)
  PROVE  /\ Len(tbs) \in Nat
         /\ \A t \in 1 .. Len(tbs) :
              /\ tbs[t].ip \in Mapped /\ tbs[t].ip \in IP
              /\ tbs[t].tcode \in Region
<1>1. \A t \in 1 .. Len(tbs) : tbs[t] \in TBlock
  BY ElementOfSeq
<1> QED
  BY <1>1, GuestAssumption DEF TBlock

\* l1_cache can only make Lookup faster.
LEMMA LookupIsMap ==
  ASSUME CacheTypeOK, MapCoherence, NEW a \in IP
  PROVE  /\ Lookup(a) = tcache_map[a]
         /\ Lookup(a) \in 0 .. Len(tb)
         /\ Lookup(a) # 0 => tb[Lookup(a)].ip = a
<1> DEFINE t == l1_cache[l1hash(a)]
<1>1. Len(tb) \in Nat /\ t \in 0 .. Len(tb) /\ tcache_map[a] \in 0 .. Len(tb)
  BY L1HashType DEF CacheTypeOK, Pointer
<1>2. CASE t # 0 /\ tb[t].ip = a
  <2>1. t \in 1 .. Len(tb)
    BY <1>1, <1>2
  <2>2. tcache_map[a] = t
    BY <1>2, <2>1 DEF MapCoherence
  <2> QED
    BY <1>1, <1>2, <2>2 DEF Lookup
<1>3. CASE ~(t # 0 /\ tb[t].ip = a)
  <2>1. Lookup(a) = tcache_map[a]
    BY <1>3 DEF Lookup, LookupFull
  <2> QED
    BY <1>1, <2>1 DEF MapCoherence
<1> QED
  BY <1>2, <1>3

\* tbs2 has the TBlocks of tbs, perhaps with more marks, and perhaps others.
Grows(tbs, tbs2) ==
  /\ tbs2 \in Seq(TBlock)
  /\ Len(tbs) <= Len(tbs2)
  /\ \A k \in 1 .. Len(tbs) :
       /\ tbs2[k].ip = tbs[k].ip
       /\ tbs2[k].tcode = tbs[k].tcode
       /\ tbs[k].is_brind_target => tbs2[k].is_brind_target
       /\ tbs[k].is_segment_entry => tbs2[k].is_segment_entry

\* A pool that nothing touches grows (trivially).
LEMMA GrowsRefl == \A tbs \in Seq(TBlock) : Grows(tbs, tbs)
  BY DEF Grows

\* Growing twice is growing.
LEMMA GrowsTrans ==
  ASSUME NEW x \in Seq(TBlock), NEW y, NEW z, Grows(x, y), Grows(y, z)
  PROVE  Grows(x, z)
  BY DEF Grows

\* AllocateTBlock keeps the TBlocks that are already there.
LEMMA GrowsAppend ==
  ASSUME NEW tbs \in Seq(TBlock), NEW n \in TBlock
  PROVE  /\ Grows(tbs, Append(tbs, n))
         /\ Len(Append(tbs, n)) = Len(tbs) + 1
         /\ Append(tbs, n)[Len(tbs) + 1] = n
  BY DEF Grows

\* CacheBrind only sets is_brind_target, of the block it caches.
LEMMA CacheBrindGrows ==
  ASSUME NEW tbs \in Seq(TBlock), NEW t \in 1 .. Len(tbs), CacheBrind(tbs, t)
  PROVE  Grows(tbs, tb') /\ Len(tb') = Len(tbs) /\ tb'[t].is_brind_target
<1> DEFINE n == [tbs[t] EXCEPT !.is_brind_target = TRUE]
<1>1. tbs[t] \in TBlock
  BY ElementOfSeq
<1>2. /\ n \in TBlock /\ n.ip = tbs[t].ip /\ n.tcode = tbs[t].tcode
      /\ n.is_brind_target /\ n.is_segment_entry = tbs[t].is_segment_entry
  BY <1>1 DEF TBlock
<1>3. tb' = [tbs EXCEPT ![t] = n]
  BY DEF CacheBrind
<1> HIDE DEF n
<1>4. /\ tb' \in Seq(TBlock) /\ Len(tb') = Len(tbs)
      /\ \A k \in 1 .. Len(tbs) : tb'[k] = IF k = t THEN n ELSE tbs[k]
  BY <1>2, <1>3, ExceptSeq
<1> QED
  BY <1>2, <1>4 DEF Grows

\* RecordLink only sets is_segment_entry, of the block a slot is linked to.
LEMMA LinkToGrows ==
  ASSUME NEW tbs \in Seq(TBlock), NEW t \in 1 .. Len(tbs), NEW slot \in Slot,
         LinkTo(tbs, slot, t)
  PROVE  /\ Grows(tbs, tb') /\ Len(tb') = Len(tbs)
         /\ slot.cross_segment => tb'[t].is_segment_entry
<1> DEFINE n == [tbs[t] EXCEPT !.is_segment_entry = @ \/ slot.cross_segment]
<1>1. tbs[t] \in TBlock
  BY ElementOfSeq
<1>2. /\ n \in TBlock /\ n.ip = tbs[t].ip /\ n.tcode = tbs[t].tcode
      /\ tbs[t].is_segment_entry => n.is_segment_entry
      /\ slot.cross_segment => n.is_segment_entry
      /\ tbs[t].is_brind_target => n.is_brind_target
  BY <1>1 DEF TBlock
<1>3. tb' = [tbs EXCEPT ![t] = n]
  BY DEF LinkTo
<1> HIDE DEF n
<1>4. /\ tb' \in Seq(TBlock) /\ Len(tb') = Len(tbs)
      /\ \A k \in 1 .. Len(tbs) : tb'[k] = IF k = t THEN n ELSE tbs[k]
  BY <1>2, <1>3, ExceptSeq
<1> QED
  BY <1>2, <1>4 DEF Grows

\* Marking TBlocks leaves tcache_map coherent.
LEMMA MapKept ==
  ASSUME CacheTypeOK, MapCoherence, Grows(tb, tb'), Len(tb') = Len(tb),
         tcache_map' = tcache_map
  PROVE  MapCoherence' /\ tcache_map' \in [IP -> 0 .. Len(tb')]
<1>1. Len(tb) \in Nat /\ tcache_map \in [IP -> 0 .. Len(tb)]
  BY DEF CacheTypeOK, Pointer
<1>2. \A a \in IP : tcache_map[a] # 0 => tcache_map[a] \in 1 .. Len(tb)
  BY <1>1
<1> QED
  BY <1>1, <1>2 DEF MapCoherence, Grows

\* tcache::Insert of a TBlock for an address that is not translated yet.
LEMMA MapInsert ==
  ASSUME CacheTypeOK, MapCoherence, Grows(tb, tb'), Len(tb') = Len(tb) + 1,
         NEW a \in IP, tb'[Len(tb) + 1].ip = a, tcache_map[a] = 0,
         Insert(a, Len(tb) + 1)
  PROVE  MapCoherence' /\ tcache_map' \in [IP -> 0 .. Len(tb')]
<1>1. Len(tb) \in Nat /\ tcache_map \in [IP -> 0 .. Len(tb)]
  BY DEF CacheTypeOK, Pointer
<1>2. \A t \in 1 .. Len(tb) : tb[t].ip \in IP
  BY TBlockFields DEF CacheTypeOK
<1>3. tcache_map' = [tcache_map EXCEPT ![a] = Len(tb) + 1]
  BY DEF Insert
<1>4. tcache_map' \in [IP -> 0 .. Len(tb')]
  BY <1>1, <1>3
<1>5. ASSUME NEW t \in 1 .. Len(tb') PROVE tcache_map'[tb'[t].ip] = t
  <2>1. CASE t = Len(tb) + 1
    BY <1>1, <1>3, <2>1
  <2>2. CASE t # Len(tb) + 1
    <3>1. t \in 1 .. Len(tb) /\ t # 0
      BY <1>1, <2>2
    <3>2. tb'[t].ip = tb[t].ip /\ tcache_map[tb[t].ip] = t
      BY <3>1 DEF Grows, MapCoherence
    <3>3. tb[t].ip # a /\ tb[t].ip \in IP
      BY <1>2, <3>1, <3>2
    <3> QED
      BY <1>1, <1>3, <3>2, <3>3
  <2> QED
    BY <2>1, <2>2
<1>6. ASSUME NEW x \in IP, tcache_map'[x] # 0
      PROVE  tb'[tcache_map'[x]].ip = x
  <2>1. CASE x = a
    BY <1>1, <1>3, <2>1
  <2>2. CASE x # a
    <3>1. tcache_map'[x] = tcache_map[x] /\ tcache_map[x] \in 1 .. Len(tb)
      BY <1>1, <1>3, <1>6, <2>2
    <3> QED
      BY <1>6, <3>1 DEF Grows, MapCoherence
  <2> QED
    BY <2>1, <2>2
<1> QED
  BY <1>4, <1>5, <1>6 DEF MapCoherence

\* l1_cache keeps its lines, or one of them is overwritten with its own block.
LEMMA L1Step ==
  ASSUME CacheTypeOK, L1Lines, Grows(tb, tb'),
         \/ l1_cache' = l1_cache
         \/ \E t \in 1 .. Len(tb') :
              l1_cache' = [l1_cache EXCEPT ![l1hash(tb'[t].ip)] = t]
  PROVE  L1Lines' /\ l1_cache' \in [0 .. L1_SIZE - 1 -> 0 .. Len(tb')]
<1>1. /\ Len(tb) \in Nat /\ Len(tb') \in Nat /\ Len(tb) <= Len(tb')
      /\ l1_cache \in [0 .. L1_SIZE - 1 -> 0 .. Len(tb)]
  BY DEF CacheTypeOK, Pointer, Grows
<1>2. \A h \in 0 .. L1_SIZE - 1 :
        l1_cache[h] # 0 => l1_cache[h] \in 1 .. Len(tb)
                           /\ l1hash(tb'[l1_cache[h]].ip) = h
  BY <1>1 DEF L1Lines, Grows
<1>3. CASE l1_cache' = l1_cache
  BY <1>1, <1>2, <1>3 DEF L1Lines, l1hash
<1>4. ASSUME NEW t \in 1 .. Len(tb'),
             l1_cache' = [l1_cache EXCEPT ![l1hash(tb'[t].ip)] = t]
      PROVE  L1Lines' /\ l1_cache' \in [0 .. L1_SIZE - 1 -> 0 .. Len(tb')]
  <2>0. l1hash(tb'[t].ip) \in 0 .. L1_SIZE - 1
    BY TBlockFields, L1HashType DEF Grows
  <2>1. \A h \in 0 .. L1_SIZE - 1 :
          l1_cache'[h] = IF h = l1hash(tb'[t].ip) THEN t ELSE l1_cache[h]
    BY <1>1, <1>4
  <2>2. l1_cache' \in [0 .. L1_SIZE - 1 -> 0 .. Len(tb')]
    BY <1>1, <1>4, <2>0
  <2> QED
    BY <1>2, <2>1, <2>2 DEF L1Lines, l1hash
<1> QED
  BY <1>3, <1>4

\* So does l1_brind_cache, and the block it gains is marked.
LEMMA BrindStep ==
  ASSUME CacheTypeOK, BrindLines, Grows(tb, tb'),
         \/ l1_brind_cache' = l1_brind_cache
         \/ \E t \in 1 .. Len(tb') :
              /\ tb'[t].is_brind_target
              /\ l1_brind_cache' = [l1_brind_cache EXCEPT
                   ![l1hash(tb'[t].ip)] = [gip |-> tb'[t].ip, code |-> t]]
  PROVE  /\ BrindLines'
         /\ l1_brind_cache' \in [0 .. L1_SIZE - 1 -> [gip : IP, code : 0 .. Len(tb')]]
<1> DEFINE Line(n) == [gip : IP, code : 0 .. n]
           Fine(e, h) == e.code # 0 => /\ tb'[e.code].ip = e.gip
                                       /\ l1hash(e.gip) = h
                                       /\ tb'[e.code].is_brind_target
<1>1. /\ Len(tb) \in Nat /\ Len(tb') \in Nat /\ Len(tb) <= Len(tb')
      /\ l1_brind_cache \in [0 .. L1_SIZE - 1 -> Line(Len(tb))]
  BY DEF CacheTypeOK, Pointer, Grows
<1>2. l1_brind_cache \in [0 .. L1_SIZE - 1 -> Line(Len(tb'))]
  BY <1>1
<1>3. ASSUME NEW h \in 0 .. L1_SIZE - 1
      PROVE  Fine(l1_brind_cache[h], h)
  <2>1. l1_brind_cache[h].code \in 0 .. Len(tb)
    BY <1>1
  <2>2. l1_brind_cache[h].code # 0 => l1_brind_cache[h].code \in 1 .. Len(tb)
    BY <1>1, <2>1
  <2> QED
    BY <2>2 DEF BrindLines, Grows
<1>4. CASE l1_brind_cache' = l1_brind_cache
  BY <1>2, <1>3, <1>4 DEF BrindLines, l1hash
<1>5. ASSUME NEW t \in 1 .. Len(tb'), tb'[t].is_brind_target,
             l1_brind_cache' = [l1_brind_cache EXCEPT
               ![l1hash(tb'[t].ip)] = [gip |-> tb'[t].ip, code |-> t]]
      PROVE  BrindLines' /\ l1_brind_cache' \in [0 .. L1_SIZE - 1 -> Line(Len(tb'))]
  <2> DEFINE n == [gip |-> tb'[t].ip, code |-> t]
  <2>1. l1hash(tb'[t].ip) \in 0 .. L1_SIZE - 1 /\ tb'[t].ip \in IP
    BY TBlockFields, L1HashType DEF Grows
  <2>2. n \in Line(Len(tb'))
    BY <1>1, <2>1
  <2>3. \A h \in 0 .. L1_SIZE - 1 :
          l1_brind_cache'[h] = IF h = l1hash(tb'[t].ip) THEN n ELSE l1_brind_cache[h]
    BY <1>1, <1>5
  <2>4. l1_brind_cache' \in [0 .. L1_SIZE - 1 -> Line(Len(tb'))]
    BY <1>2, <1>5, <2>1, <2>2
  <2>5. ASSUME NEW h \in 0 .. L1_SIZE - 1 PROVE Fine(l1_brind_cache'[h], h)
    BY <1>3, <1>5, <2>3
  <2> QED
    BY <2>4, <2>5 DEF BrindLines, l1hash
<1> QED
  BY <1>4, <1>5

\* A TBlock keeps its region, so a slot keeps leaving its page or not.
LEMMA CrossPageKept ==
  ASSUME CacheTypeOK, Grows(tb, tb'), NEW s, s.tb \in 1 .. Len(tb)
  PROVE  CrossPage(s)' <=> CrossPage(s)
  BY DEF CrossPage, Grows, PageOf

\* Slots stay linked to blocks that keep their address and their marks.
LEMMA LinksKept ==
  ASSUME CacheTypeOK, LinkCoherence, Grows(tb, tb'), UNCHANGED linkage
  PROVE  /\ LinkCoherence'
         /\ \A s \in DOMAIN links' :
              s \in Slot /\ s.tb \in 1 .. Len(tb') /\ links'[s] \in 1 .. Len(tb')
         /\ link_map' \subseteq Mapped \X Slot
<1>1. /\ Len(tb) \in Nat /\ Len(tb') \in Nat /\ Len(tb) <= Len(tb')
      /\ \A s \in DOMAIN links :
           s \in Slot /\ s.tb \in 1 .. Len(tb) /\ links[s] \in 1 .. Len(tb)
      /\ links' = links /\ link_map' = link_map /\ link_map \subseteq Mapped \X Slot
  BY DEF CacheTypeOK, Pointer, Grows, linkage
<1>2. \A s \in DOMAIN links : CrossPage(s)' => CrossPage(s)
  BY <1>1, CrossPageKept
<1>3. LinkCoherence'
  BY <1>1, <1>2 DEF LinkCoherence, Grows
<1> QED
  BY <1>1, <1>3

\* Link and RecordLink of one more slot, to a block of its address.
LEMMA LinksGrow ==
  ASSUME CacheTypeOK, LinkCoherence, Grows(tb, tb'),
         NEW s \in Slot, s.tb \in 1 .. Len(tb), CrossPage(s) => s.cross_segment,
         NEW t \in 1 .. Len(tb'), tb'[t].ip = s.gip,
         s.cross_segment => tb'[t].is_segment_entry,
         links' = Update(links, s, t),
         link_map' = link_map \cup {<<tb'[t].ip, s>>}
  PROVE  /\ LinkCoherence'
         /\ \A x \in DOMAIN links' :
              x \in Slot /\ x.tb \in 1 .. Len(tb') /\ links'[x] \in 1 .. Len(tb')
         /\ link_map' \subseteq Mapped \X Slot
<1>1. /\ Len(tb) \in Nat /\ Len(tb') \in Nat /\ Len(tb) <= Len(tb')
      /\ \A x \in DOMAIN links :
           x \in Slot /\ x.tb \in 1 .. Len(tb) /\ links[x] \in 1 .. Len(tb)
      /\ link_map \subseteq Mapped \X Slot
      /\ tb'[t].ip \in Mapped
  BY TBlockFields DEF CacheTypeOK, Pointer, Grows
<1>2. /\ DOMAIN links' = DOMAIN links \cup {s}
      /\ \A x \in DOMAIN links' : links'[x] = IF x = s THEN t ELSE links[x]
  BY DEF Update
<1>3. ASSUME NEW x \in DOMAIN links'
      PROVE  /\ tb'[links'[x]].ip = x.gip
             /\ <<x.gip, x>> \in link_map'
             /\ CrossPage(x)' => tb'[links'[x]].is_segment_entry
             /\ x \in Slot /\ x.tb \in 1 .. Len(tb') /\ links'[x] \in 1 .. Len(tb')
  <2>1. CASE x = s
    <3>1. CrossPage(s)' => CrossPage(s)
      BY CrossPageKept
    <3>2. links'[x] = t
      BY <1>2, <2>1
    <3> QED
      BY <1>1, <2>1, <3>1, <3>2
  <2>2. CASE x # s
    <3>1. /\ x \in DOMAIN links /\ links'[x] = links[x] /\ links[x] \in 1 .. Len(tb)
          /\ x.tb \in 1 .. Len(tb)
      BY <1>1, <1>2, <2>2
    <3>2. CrossPage(x)' => CrossPage(x)
      BY <3>1, CrossPageKept
    <3>3. /\ tb[links[x]].ip = x.gip /\ <<x.gip, x>> \in link_map
          /\ CrossPage(x) => tb[links[x]].is_segment_entry
      BY <3>1 DEF LinkCoherence
    <3>4. /\ tb'[links[x]].ip = tb[links[x]].ip
          /\ tb[links[x]].is_segment_entry => tb'[links[x]].is_segment_entry
      BY <3>1 DEF Grows
    <3>5. links[x] \in 1 .. Len(tb') /\ x.tb \in 1 .. Len(tb')
      BY <1>1, <3>1
    <3> QED
      BY <1>1, <3>1, <3>2, <3>3, <3>4, <3>5
  <2> QED
    BY <2>1, <2>2
<1>4. LinkCoherence'
  BY <1>3 DEF LinkCoherence
<1>5. <<tb'[t].ip, s>> \in Mapped \X Slot
  BY <1>1
<1>6. link_map' \subseteq Mapped \X Slot
  BY <1>1, <1>5
<1> QED
  BY <1>3, <1>4, <1>6

\* Marking TBlocks leaves their regions well formed.
LEMMA TBlocksKept ==
  ASSUME CacheTypeOK, TBlocksOk, Grows(tb, tb'), Len(tb') = Len(tb), boot' = boot
  PROVE  TBlocksOk'
<1>1. \A t \in 1 .. Len(tb) : tb'[t].ip = tb[t].ip /\ tb'[t].tcode = tb[t].tcode
  BY DEF Grows
<1>2. prog' = prog /\ image' = image
  BY DEF prog, image
<1> QED
  BY <1>1, <1>2 DEF TBlocksOk

\* A new TBlock with a well-formed region keeps all of them so.
LEMMA TBlocksGrow ==
  ASSUME CacheTypeOK, TBlocksOk, Grows(tb, tb'), Len(tb') = Len(tb) + 1, boot' = boot,
         NEW r, tb'[Len(tb) + 1].tcode = r, tb'[Len(tb) + 1].ip = r.entry,
         RegionOf(prog, image, r)
  PROVE  TBlocksOk'
<1>1. \A t \in 1 .. Len(tb) : tb'[t].ip = tb[t].ip /\ tb'[t].tcode = tb[t].tcode
  BY DEF Grows
<1>2. prog' = prog /\ image' = image
  BY DEF prog, image
<1>3. Len(tb) \in Nat
  BY DEF CacheTypeOK
<1> QED
  BY <1>1, <1>2, <1>3 DEF TBlocksOk

\* The block that the translator makes of a mapped address lies in the mapped
\* page of that address.
LEMMA JitRegionOk ==
  ASSUME CacheTypeOK, ip \in Mapped, NEW end \in ip + 1 .. ip + TB_MAX_INSNS,
         IsBlock(prog, ip, CompilationBounds, end)
  PROVE  JitRegion(end) \in Region /\ RegionOf(prog, image, JitRegion(end))
<1> DEFINE b == [start |-> ip, end |-> end]
<1>1. /\ ip \in IP /\ ip \in Nat /\ N_IPS \in Nat /\ PAGE_SIZE \in Nat /\ PAGE_SIZE > 0
      /\ TB_MAX_INSNS \in Nat /\ end \in Nat /\ ip < end /\ ip + PAGE_SIZE < N_IPS
  BY GuestAssumption DEF IP
<1>2. \A e \in ip + 1 .. end - 1 :
        /\ e < RoundUpPage(ip) /\ e - ip # TB_MAX_INSNS /\ ~EndsBlock(prog[e - 1])
  <2> SUFFICES ASSUME NEW e \in ip + 1 .. end - 1
               PROVE  /\ e < RoundUpPage(ip)
                      /\ e - ip # TB_MAX_INSNS /\ ~EndsBlock(prog[e - 1])
    OBVIOUS
  <2>1. ~StopsAt(prog, ip, CompilationBounds, e)
    BY DEF IsBlock
  <2>2. RoundUpPage(ip) \in CompilationBounds
    BY DEF CompilationBounds
  <2>3. ~(e >= RoundUpPage(ip))
    BY <2>1, <2>2 DEF StopsAt
  <2>4. RoundUpPage(ip) \in Int /\ e \in Int
    BY <1>1 DEF RoundUpPage, PageOf
  <2> QED
    BY <2>1, <2>3, <2>4 DEF StopsAt
<1>3. \A a \in ip .. end - 1 : a < (PageOf(ip) + 1) * PAGE_SIZE
  <2>1. ip < (PageOf(ip) + 1) * PAGE_SIZE /\ PageOf(ip) * PAGE_SIZE <= ip
    BY <1>1 DEF PageOf
  <2>2. RoundUpPage(ip) = ip \/ RoundUpPage(ip) = (PageOf(ip) + 1) * PAGE_SIZE
    BY DEF RoundUpPage
  <2>3. (PageOf(ip) + 1) * PAGE_SIZE \in Int
    BY <1>1 DEF PageOf
  <2> QED
    BY <1>1, <1>2, <2>1, <2>2, <2>3
<1>4. (PageOf(ip) + 1) * PAGE_SIZE <= N_IPS
  <2>1. PageOf(ip) * PAGE_SIZE <= ip /\ PageOf(ip) \in Nat
    BY <1>1 DEF PageOf
  <2>2. (PageOf(ip) + 1) * PAGE_SIZE = PageOf(ip) * PAGE_SIZE + PAGE_SIZE
    BY <1>1, <2>1
  <2>3. PageOf(ip) * PAGE_SIZE \in Int
    BY <1>1, <2>1
  <2> QED
    BY <1>1, <2>1, <2>2, <2>3
<1>5. ASSUME NEW a \in ip .. end - 1
      PROVE  a \in Mapped /\ PageOf(a) = PageOf(ip)
  <2>1. (PageOf(ip) + 1) * PAGE_SIZE \in Int
    BY <1>1 DEF PageOf
  <2>2. a \in IP /\ ip <= a
    BY <1>1, <1>3, <1>4, <2>1 DEF IP
  <2>3. PageOf(a) = PageOf(ip)
    BY <1>1, <1>3, <2>2, PageInterval
  <2> QED
    BY <1>1, <2>2, <2>3, GuestAssumption
<1>6. end \in IP
  <2>1. end - 1 \in Mapped
    BY <1>1, <1>5
  <2> QED
    BY <1>1, <2>1, GuestAssumption DEF IP
<1>7. b \in Block /\ JitRegion(end) \in Region
  BY <1>1, <1>6 DEF Block, Region, JitRegion
<1>8. BlockOf(prog, ip, b)
  <2>1. \A e \in ip + 1 .. end - 1 : ~StopsAt(prog, ip, {end}, e)
    BY <1>1, <1>2 DEF StopsAt
  <2>2. StopsAt(prog, ip, {end}, end)
    BY <1>1 DEF StopsAt
  <2> QED
    BY <1>1, <1>5, <2>1, <2>2 DEF BlockOf, IsBlock, InSegment
<1> QED
  BY <1>7, <1>8 DEF RegionOf, JitRegion, Starts

\* A region is entered at the start of its entry block.
LEMMA EnterOk ==
  ASSUME NEW tbs \in Seq(TBlock), Grows(tbs, tb'), NEW t \in 1 .. Len(tbs),
         Enter(tbs, t), TBlocksOk'
  PROVE  /\ InBlock' /\ CurOk'
         /\ mode' = "code" /\ branch_slot' = NoSlot
         /\ cur' = t /\ cur' \in 0 .. Len(tb')
         /\ bb' \in Block /\ pc' \in IP /\ pc' = tbs[t].ip
<1>1. /\ Len(tbs) \in Nat /\ Len(tb') \in Nat /\ t \in 1 .. Len(tb')
      /\ tb'[t].tcode = tbs[t].tcode /\ tb'[t].ip = tbs[t].ip
      /\ tbs[t].tcode \in Region /\ tbs[t].ip \in IP
  BY TBlockFields DEF Grows
<1> DEFINE r == tbs[t].tcode
<1>2. r.entry = tbs[t].ip /\ RegionOf(prog', image', r)
  BY <1>1 DEF TBlocksOk
<1>3. /\ mode' = "code" /\ branch_slot' = NoSlot /\ cur' = t /\ pc' = r.entry
      /\ bb' \in r.blocks /\ bb'.start = r.entry
  BY DEF Enter
<1>4. bb' \in Block
  BY <1>1, <1>3 DEF Region
<1>5. BlockOf(prog', r.entry, bb')
  BY <1>2, <1>3 DEF RegionOf
<1>6. /\ bb'.start \in Int /\ bb'.end \in Int /\ bb'.start < bb'.end
      /\ \A a \in bb'.start .. bb'.end - 1 : a \in Mapped /\ InSegment(r.entry, a)
  BY <1>4, <1>5, GuestAssumption DEF BlockOf, Block, IP
<1>7. pc' \in Mapped /\ InSegment(r.entry, pc')
  BY <1>3, <1>6
<1>8. InBlock'
  BY <1>1, <1>3, <1>6, <1>7 DEF InBlock, Code, InSegment, PageOf
<1> QED
  BY <1>1, <1>2, <1>3, <1>4, <1>8 DEF CurOk

-----------------------------------------------------------------------------
(* What the operations of the translation cache preserve *)

\* Steps that touch nothing of the translation cache keep its invariant.
LEMMA CacheKept ==
  ASSUME CacheInv, UNCHANGED <<boot, tb, caches, linkage>>
  PROVE  CacheInv'
<1> USE DEF caches, linkage
<1>1. CacheTypeOK'
  BY DEF CacheInv, CacheTypeOK, Pointer
<1>2. TBlocksOk'
  BY DEF CacheInv, TBlocksOk, prog, image
<1>3. MapCoherence' /\ L1Coherence'
  BY DEF CacheInv, MapCoherence, L1Coherence, L1Lines, BrindLines
<1>4. LinkCoherence'
  BY DEF CacheInv, LinkCoherence, CrossPage, PageOf
<1> QED
  BY <1>1, <1>2, <1>3, <1>4 DEF CacheInv

L1Changed(tbs, t) == \/ l1_cache' = l1_cache
                     \/ l1_cache' = [l1_cache EXCEPT ![l1hash(tbs[t].ip)] = t]

\* The types of the caches, put together from those of their parts.
LEMMA CacheTypeNext ==
  ASSUME boot' \in Boots, tb' \in Seq(TBlock),
         tcache_map' \in [IP -> 0 .. Len(tb')],
         l1_cache' \in [0 .. L1_SIZE - 1 -> 0 .. Len(tb')],
         l1_brind_cache' \in [0 .. L1_SIZE - 1 -> [gip : IP, code : 0 .. Len(tb')]],
         \A x \in DOMAIN links' :
           x \in Slot /\ x.tb \in 1 .. Len(tb') /\ links'[x] \in 1 .. Len(tb'),
         link_map' \subseteq Mapped \X Slot
  PROVE  CacheTypeOK'
<1>1. Len(tb') \in Nat
  OBVIOUS
<1>2. 1 .. Len(tb') \subseteq (0 .. Len(tb')) \ {0}
  BY <1>1
<1>3. \A x \in DOMAIN links' : /\ x \in Slot /\ x.tb \in (0 .. Len(tb')) \ {0}
                              /\ links'[x] \in (0 .. Len(tb')) \ {0}
  BY <1>2
<1> QED
  BY <1>3 DEF CacheTypeOK, Pointer

\* CacheBrind of a known block.
LEMMA CacheBrindOk ==
  ASSUME CacheInv, NEW t \in 1 .. Len(tb), CacheBrind(tb, t), L1Changed(tb, t),
         UNCHANGED <<boot, tcache_map, linkage>>
  PROVE  /\ CacheInv' /\ Grows(tb, tb') /\ Len(tb') = Len(tb)
         /\ tb'[t].is_brind_target
<1> USE DEF CacheInv
<1>1. tb \in Seq(TBlock) /\ boot' = boot /\ tcache_map' = tcache_map
  BY DEF CacheTypeOK
<1>2. Grows(tb, tb') /\ Len(tb') = Len(tb) /\ tb'[t].is_brind_target
  BY <1>1, CacheBrindGrows
<1>3. tb'[t].ip = tb[t].ip /\ t \in 1 .. Len(tb') /\ tb' \in Seq(TBlock)
  BY <1>2 DEF Grows
<1>4. MapCoherence' /\ tcache_map' \in [IP -> 0 .. Len(tb')]
  BY <1>1, <1>2, MapKept
<1>5. L1Lines' /\ l1_cache' \in [0 .. L1_SIZE - 1 -> 0 .. Len(tb')]
  BY <1>2, <1>3, L1Step DEF L1Changed, L1Coherence
<1>6. /\ BrindLines'
      /\ l1_brind_cache' \in [0 .. L1_SIZE - 1 -> [gip : IP, code : 0 .. Len(tb')]]
  BY <1>2, <1>3, BrindStep DEF CacheBrind, L1Coherence
<1>7. /\ LinkCoherence'
      /\ \A s \in DOMAIN links' :
           s \in Slot /\ s.tb \in 1 .. Len(tb') /\ links'[s] \in 1 .. Len(tb')
      /\ link_map' \subseteq Mapped \X Slot
  BY <1>2, LinksKept
<1>8. TBlocksOk'
  BY <1>1, <1>2, TBlocksKept
<1>9. CacheTypeOK'
  <2>1. boot' \in Boots
    BY <1>1 DEF CacheTypeOK
  <2> QED
    BY <1>3, <1>4, <1>5, <1>6, <1>7, <2>1, CacheTypeNext
<1> QED
  BY <1>2, <1>4, <1>5, <1>6, <1>7, <1>8, <1>9 DEF L1Coherence

\* What Execute and TryLinkBranch know of the slot that they resolve.
GoodSlot(s) == s \in Slot /\ SlotFits(s)

\* Link and RecordLink to a known block.
LEMMA LinkToOk ==
  ASSUME CacheInv, NEW t \in 1 .. Len(tb), NEW s, GoodSlot(s), tb[t].ip = s.gip,
         LinkTo(tb, s, t), L1Changed(tb, t),
         UNCHANGED <<boot, tcache_map, l1_brind_cache>>
  PROVE  /\ CacheInv' /\ Grows(tb, tb') /\ Len(tb') = Len(tb)
         /\ s.cross_segment => tb'[t].is_segment_entry
<1> USE DEF CacheInv, GoodSlot
<1>1. tb \in Seq(TBlock) /\ boot' = boot /\ tcache_map' = tcache_map
  BY DEF CacheTypeOK
<1>2. /\ Grows(tb, tb') /\ Len(tb') = Len(tb)
      /\ s.cross_segment => tb'[t].is_segment_entry
  BY <1>1, LinkToGrows
<1>3. tb'[t].ip = tb[t].ip /\ t \in 1 .. Len(tb') /\ tb' \in Seq(TBlock)
  BY <1>2 DEF Grows
<1>4. MapCoherence' /\ tcache_map' \in [IP -> 0 .. Len(tb')]
  BY <1>1, <1>2, MapKept
<1>5. L1Lines' /\ l1_cache' \in [0 .. L1_SIZE - 1 -> 0 .. Len(tb')]
  BY <1>2, <1>3, L1Step DEF L1Changed, L1Coherence
<1>6. /\ BrindLines'
      /\ l1_brind_cache' \in [0 .. L1_SIZE - 1 -> [gip : IP, code : 0 .. Len(tb')]]
  BY <1>2, BrindStep DEF L1Coherence
<1>7. /\ LinkCoherence'
      /\ \A x \in DOMAIN links' :
           x \in Slot /\ x.tb \in 1 .. Len(tb') /\ links'[x] \in 1 .. Len(tb')
      /\ link_map' \subseteq Mapped \X Slot
  BY <1>2, <1>3, LinksGrow DEF LinkTo, SlotFits
<1>8. TBlocksOk'
  BY <1>1, <1>2, TBlocksKept
<1>9. CacheTypeOK'
  <2>1. boot' \in Boots
    BY <1>1 DEF CacheTypeOK
  <2> QED
    BY <1>3, <1>4, <1>5, <1>6, <1>7, <2>1, CacheTypeNext
<1> QED
  BY <1>2, <1>4, <1>5, <1>6, <1>7, <1>8, <1>9 DEF L1Coherence

\* A new block is announced and, in Execute, linked or cached at once.
LEMMA NewBlockOk ==
  ASSUME CacheInv, NEW r \in Region, RegionOf(prog, image, r),
         tcache_map[r.entry] = 0, Insert(r.entry, Len(tb) + 1), boot' = boot,
         NEW tbs, tbs = Append(tb, NewTBlock(r.entry, r)),
         \/ tb' = tbs /\ UNCHANGED <<l1_brind_cache, linkage>>
         \/ CacheBrind(tbs, Len(tb) + 1) /\ UNCHANGED linkage
         \/ \E s : /\ GoodSlot(s) /\ s.gip = r.entry
                  /\ LinkTo(tbs, s, Len(tb) + 1) /\ UNCHANGED l1_brind_cache
  PROVE  /\ CacheInv' /\ Grows(tb, tb') /\ Len(tb') = Len(tb) + 1
         /\ tbs \in Seq(TBlock) /\ Grows(tbs, tb')
         /\ Len(tbs) = Len(tb) + 1 /\ tbs[Len(tb) + 1].ip = r.entry
<1> USE DEF CacheInv
<1> DEFINE n == NewTBlock(r.entry, r)
           t == Len(tb) + 1
<1>1. tb \in Seq(TBlock) /\ Len(tb) \in Nat /\ r.entry \in Mapped /\ r.entry \in IP
  BY GuestAssumption DEF CacheTypeOK, Region
<1>2. n \in TBlock /\ n.ip = r.entry /\ n.tcode = r
  BY <1>1 DEF NewTBlock, TBlock
<1> HIDE DEF n
<1>3. /\ tbs \in Seq(TBlock) /\ Grows(tb, tbs) /\ Len(tbs) = t
      /\ t \in 1 .. Len(tbs) /\ tbs[t] = n
  <2>1. tbs = Append(tb, n)
    BY DEF n
  <2> QED
    BY <1>1, <1>2, <2>1, GrowsAppend
<1>4. Grows(tbs, tb') /\ Len(tb') = t
  <2>1. CASE tb' = tbs
    BY <1>3, <2>1 DEF Grows
  <2>2. CASE CacheBrind(tbs, t)
    BY <1>3, <2>2, CacheBrindGrows
  <2>3. CASE \E s : GoodSlot(s) /\ LinkTo(tbs, s, t)
    BY <1>3, <2>3, LinkToGrows DEF GoodSlot
  <2> QED
    BY <2>1, <2>2, <2>3
<1>5. Grows(tb, tb')
  BY <1>1, <1>3, <1>4, GrowsTrans
<1>6. /\ tb'[t].ip = r.entry /\ tb'[t].tcode = r /\ tbs[t].ip = r.entry
      /\ t \in 1 .. Len(tb') /\ tb' \in Seq(TBlock)
  <2>1. tb'[t].ip = tbs[t].ip /\ tb'[t].tcode = tbs[t].tcode /\ tb' \in Seq(TBlock)
    BY <1>3, <1>4 DEF Grows
  <2>2. t \in 1 .. Len(tb')
    BY <1>3, <1>4
  <2> QED
    BY <1>2, <1>3, <2>1, <2>2
<1>7. MapCoherence' /\ tcache_map' \in [IP -> 0 .. Len(tb')]
  BY <1>1, <1>4, <1>5, <1>6, MapInsert
<1>8. L1Lines' /\ l1_cache' \in [0 .. L1_SIZE - 1 -> 0 .. Len(tb')]
  BY <1>5, <1>6, L1Step DEF Insert, L1Coherence
<1>9. /\ BrindLines'
      /\ l1_brind_cache' \in [0 .. L1_SIZE - 1 -> [gip : IP, code : 0 .. Len(tb')]]
  <2>1. CASE l1_brind_cache' = l1_brind_cache
    BY <1>5, <2>1, BrindStep DEF L1Coherence
  <2>2. CASE CacheBrind(tbs, t)
    <3>1. tb'[t].is_brind_target
      BY <1>3, <2>2, CacheBrindGrows
    <3> QED
      BY <1>5, <1>6, <2>2, <3>1, BrindStep DEF CacheBrind, L1Coherence
  <2> QED
    BY <2>1, <2>2
<1>10. /\ LinkCoherence'
       /\ \A x \in DOMAIN links' :
            x \in Slot /\ x.tb \in 1 .. Len(tb') /\ links'[x] \in 1 .. Len(tb')
       /\ link_map' \subseteq Mapped \X Slot
  <2>1. CASE UNCHANGED linkage
    BY <1>5, <2>1, LinksKept
  <2>2. ASSUME NEW s, GoodSlot(s), s.gip = r.entry, LinkTo(tbs, s, t)
        PROVE  /\ LinkCoherence'
               /\ \A x \in DOMAIN links' :
                    x \in Slot /\ x.tb \in 1 .. Len(tb') /\ links'[x] \in 1 .. Len(tb')
               /\ link_map' \subseteq Mapped \X Slot
    <3>1. s.cross_segment => tb'[t].is_segment_entry
      BY <1>3, <2>2, LinkToGrows DEF GoodSlot
    <3> QED
      BY <1>5, <1>6, <2>2, <3>1, LinksGrow DEF LinkTo, GoodSlot, SlotFits
  <2> QED
    BY <2>1, <2>2
<1>11. TBlocksOk'
  BY <1>4, <1>5, <1>6, TBlocksGrow
<1>12. CacheTypeOK'
  <2>1. boot' \in Boots
    BY DEF CacheTypeOK
  <2> QED
    BY <1>6, <1>7, <1>8, <1>9, <1>10, <2>1, CacheTypeNext
<1> QED
  BY <1>3, <1>4, <1>5, <1>6, <1>7, <1>8, <1>9, <1>10, <1>11, <1>12 DEF L1Coherence

-----------------------------------------------------------------------------
(* Steps preserve the inductive invariant *)

\* What the boot record and the pool are in every state.
LEMMA Facts ==
  ASSUME IInv
  PROVE  /\ boot \in Boots /\ tb \in Seq(TBlock) /\ Len(tb) \in Nat
         /\ image \in Seq(Region) /\ Len(image) \in Nat
         /\ prog \in [Mapped -> Insn] /\ boot.entry \in IP
         /\ \A k \in 1 .. Len(image) : RegionOf(prog, image, image[k])
         /\ \A j, k \in 1 .. Len(image) : image[j].entry = image[k].entry => j = k
<1>1. boot \in Boots /\ tb \in Seq(TBlock)
  BY DEF IInv, CacheInv, CacheTypeOK
<1>2. image \in Seq(Region)
  BY <1>1, EngineAssumption DEF image
<1> QED
  BY <1>1, <1>2, EngineAssumption DEF prog, image

\* Entering a region from the dispatcher or from a stub.
LEMMA EnterControl ==
  ASSUME IInv, CacheInv', Grows(tb, tb'), boot' = boot, mode \notin {"boot", "panic"},
         \/ Len(tb') = Len(tb)
         \/ Len(tb') = Len(tb) + 1,
         NEW tbs \in Seq(TBlock), Grows(tbs, tb'), NEW t \in 1 .. Len(tbs),
         Enter(tbs, t), ip' \in IP, trapno' = "NONE"
  PROVE  IInv'
<1>1. /\ InBlock' /\ CurOk' /\ mode' = "code" /\ branch_slot' = NoSlot
      /\ cur' \in 0 .. Len(tb') /\ bb' \in Block /\ pc' \in IP
  BY EnterOk DEF CacheInv
<1>2. image' = image /\ Len(image) \in Nat /\ Len(tb) \in Nat
  BY Facts DEF image
<1>3. Len(image) <= Len(tb) /\ Len(tb) <= Len(tb')
  BY DEF IInv, ControlInv, ImageOk, Grows
<1>4. ImageOk'
  <2>1. ASSUME NEW x \in 1 .. Len(tb'), x <= Len(image)
        PROVE  tb'[x].ip = image[x].entry
    <3>1. x \in 1 .. Len(tb)
      BY <1>2, <1>3, <2>1
    <3> QED
      BY <2>1, <3>1 DEF Grows, IInv, ControlInv, ImageOk
  <2>2. Len(tb') \in Nat
    BY DEF Grows
  <2> QED
    BY <1>1, <1>2, <1>3, <2>1, <2>2 DEF ImageOk
<1>5. ControlTypeOK'
  <2>1. NoSlot \in Slot
    BY GuestAssumption DEF NoSlot, Slot, IP
  <2> QED
    BY <1>1, <2>1 DEF ControlTypeOK, Pointer, Modes, TrapCodes
<1>6. ExecuteAssert' /\ SlotOk' /\ TrapOk'
  BY <1>1 DEF ExecuteAssert, SlotOk, TrapOk
<1> QED
  BY <1>1, <1>4, <1>5, <1>6 DEF IInv, ControlInv

\* tcache::Invalidate leaves an empty, coherent cache.
LEMMA InvalidateStep == ASSUME IInv, InvalidateAndPanic PROVE IInv'
<1> USE DEF InvalidateAndPanic, Invalidate
<1>1. /\ tb' = <<>> /\ Len(tb') = 0 /\ tb' \in Seq(TBlock) /\ Len(tb') \in Nat
      /\ boot' = boot /\ boot \in Boots
  BY Facts
<1>2. 0 \in IP /\ NoBrind \in [gip : IP, code : 0 .. 0] /\ NoBrind.code = 0
  BY GuestAssumption DEF IP, NoBrind
<1>3. /\ tcache_map' \in [IP -> 0 .. 0] /\ \A a \in IP : tcache_map'[a] = 0
      /\ l1_cache' \in [0 .. L1_SIZE - 1 -> 0 .. 0]
      /\ \A h \in 0 .. L1_SIZE - 1 : l1_cache'[h] = 0
      /\ l1_brind_cache' \in [0 .. L1_SIZE - 1 -> [gip : IP, code : 0 .. 0]]
      /\ \A h \in 0 .. L1_SIZE - 1 : l1_brind_cache'[h].code = 0
  BY <1>2
<1>4. DOMAIN links' = {} /\ link_map' = {}
  OBVIOUS
<1>5. CacheTypeOK'
  BY <1>1, <1>3, <1>4 DEF CacheTypeOK, Pointer
<1>6. TBlocksOk' /\ MapCoherence' /\ LinkCoherence'
  BY <1>1, <1>3, <1>4 DEF TBlocksOk, MapCoherence, LinkCoherence
<1>7. L1Coherence'
  BY <1>3 DEF L1Coherence, L1Lines, BrindLines
<1>8. ControlTypeOK'
  BY <1>1, <1>2 DEF ControlTypeOK, IInv, ControlInv, cpu, Pointer, Modes,
                    NoSlot, Slot, NoBlock, Block
<1>9. ExecuteAssert' /\ InBlock' /\ ImageOk' /\ SlotOk' /\ TrapOk' /\ CurOk'
  BY <1>1 DEF ExecuteAssert, InBlock, ImageOk, SlotOk, TrapOk, CurOk
<1> QED
  BY <1>5, <1>6, <1>7, <1>8, <1>9 DEF IInv, CacheInv, ControlInv

\* tcache::Init establishes the inductive invariant.
LEMMA InitOk == Init => IInv
<1> SUFFICES ASSUME Init PROVE IInv
  OBVIOUS
<1> USE DEF Init
<1>1. /\ tb = <<>> /\ Len(tb) = 0 /\ tb \in Seq(TBlock) /\ boot \in Boots
      /\ ip \in IP /\ image \in Seq(Region) /\ Len(image) \in Nat
  BY EngineAssumption DEF image
<1>2. 0 \in IP /\ NoBrind \in [gip : IP, code : 0 .. 0] /\ NoBrind.code = 0
  BY GuestAssumption DEF IP, NoBrind
<1>3. CacheTypeOK
  BY <1>1, <1>2 DEF CacheTypeOK, Pointer
<1>4. TBlocksOk /\ MapCoherence /\ LinkCoherence
  BY <1>1 DEF TBlocksOk, MapCoherence, LinkCoherence
<1>5. L1Coherence
  BY <1>2 DEF L1Coherence, L1Lines, BrindLines
<1>6. ControlTypeOK
  BY <1>1, <1>2 DEF ControlTypeOK, Pointer, Modes, TrapCodes, NoSlot, Slot,
                    NoBlock, Block
<1>7. ExecuteAssert /\ InBlock /\ ImageOk /\ SlotOk /\ TrapOk /\ CurOk
  BY <1>1 DEF ExecuteAssert, InBlock, ImageOk, SlotOk, TrapOk, CurOk
<1> QED
  BY <1>3, <1>4, <1>5, <1>6, <1>7 DEF IInv, CacheInv, ControlInv

\* BootAOTFile announces one more region of the image.
LEMMA AnnounceStep == ASSUME IInv, Announce PROVE IInv'
<1>1. CASE InvalidateAndPanic
  BY <1>1, InvalidateStep
<1>2. CASE ~InvalidateAndPanic
  <2> DEFINE r == image[Len(tb) + 1]
             tbs == Append(tb, NewTBlock(r.entry, r))
  <2>1. /\ mode = "boot" /\ Len(tb) < Len(image)
        /\ tb' = tbs /\ Insert(r.entry, Len(tb) + 1)
        /\ UNCHANGED <<boot, ip, trapno, l1_brind_cache, linkage, mode, cur, bb, pc, branch_slot>>
    BY <1>2 DEF Announce, cpu, place
  <2>2. Len(tb) \in Nat /\ Len(image) \in Nat /\ Len(tb) + 1 \in 1 .. Len(image)
    BY <2>1, Facts
  <2>3. r \in Region /\ RegionOf(prog, image, r) /\ r.entry \in IP
    <3>1. r \in Region
      BY <2>2, Facts, ElementOfSeq
    <3>2. RegionOf(prog, image, r)
      BY <2>2, Facts
    <3> QED
      BY <3>1, <3>2, GuestAssumption DEF Region
  <2>4. tcache_map[r.entry] = 0
    <3> SUFFICES ASSUME tcache_map[r.entry] # 0 PROVE FALSE
      OBVIOUS
    <3> DEFINE t == tcache_map[r.entry]
    <3>1. t \in 1 .. Len(tb) /\ tb[t].ip = r.entry
      <4>1. CacheTypeOK /\ MapCoherence
        BY DEF IInv, CacheInv
      <4>2. t \in 0 .. Len(tb)
        BY <2>3, <4>1 DEF CacheTypeOK, Pointer
      <4>3. tb[t].ip = r.entry
        BY <2>3, <4>1 DEF MapCoherence
      <4> QED
        BY <2>2, <4>2, <4>3
    <3>2. t \in 1 .. Len(image) /\ image[t].entry = r.entry
      <4>1. ImageOk
        BY DEF IInv, ControlInv
      <4>2. t \in 1 .. Len(image) /\ t <= Len(image)
        <5>1. t \in 1 .. Len(tb) /\ Len(tb) < Len(image)
          BY <2>1, <3>1
        <5> HIDE DEF t
        <5> QED
          BY <2>2, <5>1
      <4>3. tb[t].ip = image[t].entry
        BY <3>1, <4>1, <4>2 DEF ImageOk
      <4> QED
        BY <3>1, <4>2, <4>3
    <3>3. t = Len(tb) + 1
      BY <2>2, <3>2, Facts
    <3> QED
      BY <2>2, <3>1, <3>3
  <2>5. CacheInv' /\ Grows(tb, tb') /\ Len(tb') = Len(tb) + 1 /\ tb'[Len(tb) + 1].ip = r.entry
    BY <2>1, <2>3, <2>4, NewBlockOk DEF IInv
  <2>6. ImageOk'
    <3>1. image' = image
      BY <2>1 DEF image
    <3>2. ASSUME NEW t \in 1 .. Len(tb'), t <= Len(image)
          PROVE  tb'[t].ip = image[t].entry
      <4>1. CASE t = Len(tb) + 1
        BY <2>5, <4>1
      <4>2. CASE t # Len(tb) + 1
        <5>1. t \in 1 .. Len(tb)
          BY <2>2, <2>5, <4>2
        <5> QED
          BY <2>5, <3>2, <5>1 DEF Grows, IInv, ControlInv, ImageOk
      <4> QED
        BY <4>1, <4>2
    <3> QED
      BY <2>1, <2>2, <2>5, <3>1, <3>2 DEF ImageOk
  <2>7. ControlTypeOK'
    <3>1. ControlTypeOK
      BY DEF IInv, ControlInv
    <3>2. cur' \in 0 .. Len(tb')
      BY <2>1, <2>2, <2>5, <3>1 DEF ControlTypeOK, Pointer
    <3>3. bb' \in Block /\ pc' \in IP /\ branch_slot' \in Slot
      BY <2>1, <3>1 DEF ControlTypeOK
    <3>4. ip' \in IP /\ trapno' \in TrapCodes /\ mode' \in Modes
      BY <2>1, <3>1 DEF ControlTypeOK
    <3> QED
      BY <3>2, <3>3, <3>4 DEF ControlTypeOK, Pointer
  <2>8. ExecuteAssert' /\ InBlock' /\ SlotOk' /\ TrapOk' /\ CurOk'
    BY <2>1 DEF IInv, ControlInv, ExecuteAssert, InBlock, SlotOk, TrapOk, CurOk
  <2> QED
    BY <2>5, <2>6, <2>7, <2>8 DEF IInv, ControlInv
<1> QED
  BY <1>1, <1>2

\* The tail of Execute's loop with a block that Lookup found.
LEMMA ExecuteFoundStep == ASSUME IInv, ExecuteFound PROVE IInv'
<1> DEFINE t == Lookup(ip)
<1>1. /\ mode = "execute" /\ trapno = "NONE" /\ t # 0 /\ l1_cache' = L1Fill(ip, t)
      /\ Dispatch(tb, t) /\ UNCHANGED <<boot, ip, trapno, tcache_map>>
  BY DEF ExecuteFound, Dispatch, cpu
<1>2. ip \in IP /\ tb \in Seq(TBlock) /\ Len(tb) \in Nat
  BY Facts DEF IInv, ControlInv, ControlTypeOK
<1>3. t \in 1 .. Len(tb) /\ tb[t].ip = ip
  <2>1. t \in 0 .. Len(tb) /\ tb[t].ip = ip
    BY <1>1, <1>2, LookupIsMap DEF IInv, CacheInv
  <2> QED
    BY <1>1, <1>2, <2>1
<1>4. L1Changed(tb, t)
  BY <1>1, <1>3 DEF L1Changed, L1Fill
<1>5. CacheInv' /\ Grows(tb, tb') /\ Len(tb') = Len(tb)
  <2>1. CASE branch_slot # NoSlot
    <3>1. GoodSlot(branch_slot) /\ branch_slot.gip = ip
      BY <1>1, <2>1 DEF IInv, ControlInv, ControlTypeOK, SlotOk, ExecuteAssert, GoodSlot
    <3>2. LinkTo(tb, branch_slot, t) /\ UNCHANGED l1_brind_cache
      BY <1>1, <2>1 DEF Dispatch
    <3> QED
      BY <1>1, <1>3, <1>4, <3>1, <3>2, LinkToOk DEF IInv
  <2>2. CASE branch_slot = NoSlot
    <3>1. CacheBrind(tb, t) /\ UNCHANGED linkage
      BY <1>1, <2>2 DEF Dispatch
    <3> QED
      BY <1>1, <1>3, <1>4, <3>1, CacheBrindOk DEF IInv
  <2> QED
    BY <2>1, <2>2
<1>6. Enter(tb, t)
  BY <1>1 DEF Dispatch
<1> QED
  BY <1>1, <1>2, <1>3, <1>5, <1>6, EnterControl

\* Execute's loop with a block that it has just translated.
LEMMA ExecuteCompileStep == ASSUME IInv, ExecuteCompile PROVE IInv'
<1>1. /\ mode = "execute" /\ trapno = "NONE" /\ Lookup(ip) = 0 /\ ip \in Mapped
      /\ ip \in IP /\ tb \in Seq(TBlock) /\ Len(tb) \in Nat
  BY Facts DEF ExecuteCompile, IInv, ControlInv, ControlTypeOK
<1>2. PICK end \in ip + 1 .. ip + TB_MAX_INSNS :
        /\ IsBlock(prog, ip, CompilationBounds, end)
        /\ Insert(ip, Len(tb) + 1)
        /\ Dispatch(Append(tb, NewTBlock(ip, JitRegion(end))), Len(tb) + 1)
  BY DEF ExecuteCompile
<1> DEFINE r == JitRegion(end)
           tbs == Append(tb, NewTBlock(ip, r))
           t == Len(tb) + 1
<1>3. r \in Region /\ RegionOf(prog, image, r) /\ r.entry = ip
  <2>1. r.entry = ip
    BY DEF JitRegion
  <2> QED
    BY <1>1, <1>2, <2>1, JitRegionOk DEF IInv, CacheInv
<1>4. tcache_map[ip] = 0
  BY <1>1, LookupIsMap DEF IInv, CacheInv
<1> HIDE DEF r
<1>5. UNCHANGED <<boot, ip, trapno>> /\ Enter(tbs, t)
  BY <1>2 DEF Dispatch, cpu, r
<1>6. \/ CacheBrind(tbs, t) /\ UNCHANGED linkage
      \/ \E s : /\ GoodSlot(s) /\ s.gip = ip
               /\ LinkTo(tbs, s, t) /\ UNCHANGED l1_brind_cache
  <2>1. CASE branch_slot # NoSlot
    <3>1. GoodSlot(branch_slot) /\ branch_slot.gip = ip
      BY <1>1, <2>1 DEF IInv, ControlInv, ControlTypeOK, SlotOk, ExecuteAssert, GoodSlot
    <3>2. LinkTo(tbs, branch_slot, t) /\ UNCHANGED l1_brind_cache
      BY <1>2, <2>1 DEF Dispatch, r
    <3> QED
      BY <3>1, <3>2
  <2>2. CASE branch_slot = NoSlot
    BY <1>2, <2>2 DEF Dispatch, r
  <2> QED
    BY <2>1, <2>2
<1>7. /\ CacheInv' /\ Grows(tb, tb') /\ Len(tb') = Len(tb) + 1
      /\ tbs \in Seq(TBlock) /\ Grows(tbs, tb') /\ Len(tbs) = Len(tb) + 1
  BY <1>2, <1>3, <1>4, <1>5, <1>6, NewBlockOk DEF IInv
<1>8. t \in 1 .. Len(tbs) /\ ip' \in IP /\ trapno' = "NONE" /\ boot' = boot
  BY <1>1, <1>5, <1>7
<1> HIDE DEF tbs, t
<1> QED
  BY <1>1, <1>5, <1>7, <1>8, EnterControl

-----------------------------------------------------------------------------
(* Steps that leave the translation cache alone *)

\* The image's TBlocks stay where they are.
LEMMA ImageSame ==
  ASSUME IInv, UNCHANGED <<boot, tb>>, mode \notin {"boot", "panic"}, mode' # "boot"
  PROVE  ImageOk'
  BY DEF IInv, ControlInv, ImageOk, image

\* The image is announced and the main thread starts.
LEMMA BootedStep == ASSUME IInv, Booted PROVE IInv'
<1> USE DEF Booted, cpu, place, IInv, ControlInv
<1>1. CacheInv'
  BY CacheKept
<1>2. ControlTypeOK'
  BY DEF ControlTypeOK, Pointer, Modes
<1>3. ImageOk'
  BY Facts DEF ImageOk, image
<1>4. ExecuteAssert' /\ InBlock' /\ SlotOk' /\ TrapOk' /\ CurOk'
  BY DEF ExecuteAssert, InBlock, SlotOk, TrapOk, CurOk
<1> QED
  BY <1>1, <1>2, <1>3, <1>4

\* The translator reads unmapped memory.
LEMMA ExecuteFaultStep == ASSUME IInv, ExecuteFault PROVE IInv'
<1> USE DEF ExecuteFault, cpu, place, IInv, ControlInv
<1>1. CacheInv'
  BY CacheKept
<1>2. ControlTypeOK'
  BY DEF ControlTypeOK, Pointer, Modes
<1>3. ImageOk'
  BY ImageSame
<1>4. ExecuteAssert' /\ InBlock' /\ SlotOk' /\ TrapOk' /\ CurOk'
  BY DEF ExecuteAssert, InBlock, SlotOk, TrapOk, CurOk,
         SlotFits, CrossPage, PageOf
<1> QED
  BY <1>1, <1>2, <1>3, <1>4

\* dbt::Execute returns with the trap that is pending.
LEMMA ExecuteReturnStep == ASSUME IInv, ExecuteReturn PROVE IInv'
<1> USE DEF ExecuteReturn, cpu, place, IInv, ControlInv
<1>1. CacheInv'
  BY CacheKept
<1>2. NoSlot \in Slot
  BY GuestAssumption DEF NoSlot, Slot, IP
<1>3. ControlTypeOK'
  BY <1>2 DEF ControlTypeOK, Pointer, Modes
<1>4. ImageOk'
  BY ImageSame
<1>5. ExecuteAssert' /\ InBlock' /\ SlotOk' /\ TrapOk' /\ CurOk'
  BY DEF ExecuteAssert, InBlock, SlotOk, TrapOk, CurOk
<1> QED
  BY <1>1, <1>3, <1>4, <1>5

\* Where translated code is, and what it may branch to.
LEMMA CodeFacts ==
  ASSUME IInv, mode = "code"
  PROVE  /\ pc \in Mapped /\ pc \in IP /\ NextIp(pc) = pc + 1 /\ NextIp(pc) \in IP
         /\ prog[pc] \in Insn /\ prog[pc].tgts \subseteq IP
         /\ cur \in 1 .. Len(tb) /\ Code \in Region /\ RegionOf(prog, image, Code)
         /\ bb \in Code.blocks /\ BlockOf(prog, Code.entry, bb)
         /\ bb.start \in Nat /\ bb.end \in Nat /\ bb.start <= pc /\ pc < bb.end
         /\ PageOf(pc) = PageOf(Code.entry)
         /\ trapno = "NONE" /\ branch_slot = NoSlot
<1>1. /\ pc \in Mapped /\ bb \in Code.blocks /\ bb.start <= pc /\ pc < bb.end
      /\ PageOf(pc) = PageOf(Code.entry) /\ cur # 0
      /\ trapno = "NONE" /\ branch_slot = NoSlot
  BY DEF IInv, ControlInv, InBlock, InSegment, CurOk, TrapOk, SlotOk
<1>2. cur \in 1 .. Len(tb) /\ bb \in Block
  BY <1>1, Facts DEF IInv, ControlInv, ControlTypeOK, Pointer
<1>3. Code \in Region /\ RegionOf(prog, image, Code)
  BY <1>2, Facts, TBlockFields DEF Code, IInv, CacheInv, TBlocksOk
<1>4. BlockOf(prog, Code.entry, bb)
  BY <1>1, <1>3 DEF RegionOf
<1>5. pc \in IP /\ NextIp(pc) = pc + 1 /\ NextIp(pc) \in IP
  BY <1>1, GuestAssumption DEF IP, NextIp
<1>6. prog[pc] \in Insn /\ prog[pc].tgts \subseteq IP
  BY <1>1, Facts DEF Insn
<1>7. bb.start \in Nat /\ bb.end \in Nat
  BY <1>2, GuestAssumption DEF Block, IP
<1> QED
  BY <1>1, <1>2, <1>3, <1>4, <1>5, <1>6, <1>7

\* Control stays in translated code of the same region.
LEMMA StayInCode ==
  ASSUME IInv, mode = "code", ip' \in IP,
         UNCHANGED <<boot, trapno, tb, caches, linkage, mode, cur, branch_slot>>,
         bb' \in Code.blocks, bb'.start <= pc', pc' < bb'.end, pc' \in Int
  PROVE  IInv'
<1>1. BlockOf(prog, Code.entry, bb') /\ bb' \in Block
  BY CodeFacts DEF RegionOf, Region
<1>2. bb'.start \in Int /\ bb'.end \in Int
  BY <1>1, GuestAssumption DEF Block, IP
<1>3. pc' \in Mapped /\ InSegment(Code.entry, pc') /\ pc' \in IP
  BY <1>1, <1>2, GuestAssumption DEF BlockOf
<1>4. InBlock'
  BY <1>3 DEF InBlock, Code, InSegment, PageOf
<1>5. CacheInv'
  BY CacheKept DEF IInv
<1>6. ControlTypeOK'
  BY <1>1, <1>3 DEF IInv, ControlInv, ControlTypeOK, Pointer
<1>7. ImageOk'
  BY ImageSame
<1>8. ExecuteAssert' /\ SlotOk' /\ TrapOk' /\ CurOk'
  BY DEF IInv, ControlInv, ExecuteAssert, SlotOk, TrapOk, CurOk
<1> QED
  BY <1>4, <1>5, <1>6, <1>7, <1>8 DEF IInv, ControlInv

\* A tail call enters another region; a slot keeps control where it is.
LEMMA LeaveStep ==
  ASSUME IInv, mode = "code", NEW a \in IP, Leave(a), ip' \in IP,
         UNCHANGED <<boot, trapno, tb, caches, linkage>>
  PROVE  IInv'
<1>2. CASE \E k \in 1 .. Len(image) : image[k].entry = a /\ Enter(tb, k)
  <2>1. PICK k \in 1 .. Len(image) : Enter(tb, k)
    BY <1>2
  <2>2. k \in 1 .. Len(tb) /\ tb' = tb /\ boot' = boot
    <3>1. Len(image) <= Len(tb)
      BY DEF IInv, ControlInv, ImageOk
    <3>2. Len(tb) \in Nat /\ Len(image) \in Nat
      BY Facts
    <3>3. k \in 1 .. Len(tb)
      BY <3>1, <3>2
    <3> QED
      BY <3>3
  <2>3. tb \in Seq(TBlock) /\ Grows(tb, tb') /\ Len(tb') = Len(tb)
    BY <2>2, Facts, GrowsRefl
  <2>4. CacheInv' /\ trapno' = "NONE"
    BY CacheKept, CodeFacts DEF IInv
  <2> QED
    BY <2>1, <2>2, <2>3, <2>4, EnterControl
<1>3. CASE /\ mode' = "slot" /\ UNCHANGED place
           /\ \E host \in Hosts : branch_slot' = SlotTo(host, a)
  <2>1. CacheInv'
    BY CacheKept DEF IInv
  <2>2. PICK host \in Hosts : branch_slot' = SlotTo(host, a)
    BY <1>3
  <2>3. /\ host \in 1 .. Len(tb) /\ Len(tb) \in Nat
        /\ tb[host].tcode.direct = {} => host = cur
    <3>1. Len(image) <= Len(tb)
      BY DEF IInv, ControlInv, ImageOk
    <3>2. Len(tb) \in Nat /\ Len(image) \in Nat /\ cur \in 1 .. Len(tb)
      BY Facts, CodeFacts
    <3>3. 1 .. Len(image) \subseteq 1 .. Len(tb)
      BY <3>1, <3>2
    <3>4. host = cur \/ (host \in 1 .. Len(image) /\ tb[host].tcode.direct # {})
      BY <2>2 DEF Hosts
    <3> QED
      BY <3>2, <3>3, <3>4
  <2>4. pc \in IP /\ (host = cur => PageOf(pc) = PageOf(tb[host].tcode.entry))
    BY CodeFacts DEF Code
  <2>5. /\ branch_slot' \in Slot /\ branch_slot' # NoSlot /\ branch_slot'.tb = host
        /\ branch_slot'.src = pc /\ branch_slot'.gip = a
        /\ branch_slot'.cross_segment = (PageOf(a) # PageOf(tb[host].tcode.entry))
    <3>1. branch_slot' = [tb |-> host, src |-> pc, gip |-> a,
                          cross_segment |-> ~InSegment(tb[host].tcode.entry, a)]
      BY <2>2 DEF SlotTo
    <3>2. (~InSegment(tb[host].tcode.entry, a)) \in BOOLEAN
      OBVIOUS
    <3>3. host \in Nat /\ host # 0
      BY <2>3
    <3>4. branch_slot' \in Slot
      BY <2>4, <3>1, <3>2, <3>3 DEF Slot
    <3>5. branch_slot' # NoSlot /\ branch_slot'.tb = host
      BY <3>1, <3>3 DEF NoSlot
    <3> QED
      BY <3>1, <3>4, <3>5 DEF InSegment
  <2>6. SlotFits(branch_slot)'
    BY <2>3, <2>4, <2>5 DEF SlotFits, CrossPage, PageOf
  <2>7. ControlTypeOK'
    BY <1>3, <2>5 DEF IInv, ControlInv, ControlTypeOK, Pointer, place, Modes
  <2>8. ImageOk'
    BY <1>3, ImageSame
  <2>9. ExecuteAssert' /\ InBlock' /\ SlotOk' /\ TrapOk' /\ CurOk'
    BY <1>3, <2>5, <2>6, CodeFacts DEF ExecuteAssert, InBlock, SlotOk, TrapOk, CurOk
  <2> QED
    BY <2>1, <2>7, <2>8, <2>9 DEF IInv, ControlInv
<1> QED
  BY <1>2, <1>3 DEF Leave

\* Each way a direct branch can be taken.
LEMMA GBrStep ==
  ASSUME IInv, mode = "code", NEW a \in IP, GBr(a), ip' \in IP
  PROVE  IInv'
<1>0. UNCHANGED <<boot, trapno, tb, caches, linkage>>
  BY DEF GBr
<1>1. CASE /\ \E b \in Code.blocks : b.start = a /\ bb' = b
           /\ pc' = a /\ UNCHANGED <<mode, cur, branch_slot>>
  <2>1. bb' \in Code.blocks /\ bb'.start = a /\ pc' = a
    BY <1>1
  <2>2. BlockOf(prog, Code.entry, bb') /\ bb' \in Block
    BY <2>1, CodeFacts DEF RegionOf, Region
  <2>3. a \in Int /\ bb'.start <= pc' /\ pc' < bb'.end
    BY <2>1, <2>2, GuestAssumption DEF BlockOf, IP
  <2> QED
    BY <1>0, <1>1, <2>1, <2>3, StayInCode
<1>2. CASE Leave(a)
  BY <1>0, <1>2, LeaveStep
<1> QED
  BY <1>1, <1>2 DEF GBr

\* PreSideeff stores an address of the guest.
LEMMA SavedIpType ==
  ASSUME IInv, mode = "code", NEW op
  PROVE  PreSideeff(op) \subseteq IP
  BY CodeFacts DEF PreSideeff, IInv, ControlInv, ControlTypeOK

\* An instruction that falls through, inside its block or at its end.
LEMMA RunSeqStep == ASSUME IInv, RunSeq PROVE IInv'
<1>1. mode = "code" /\ ip' \in IP
  <2>1. /\ mode = "code"
        /\ \E saved \in PreSideeff(prog[pc].op) : ip' \in {saved, NextIp(saved)}
    BY DEF RunSeq, InCode
  <2>2. PreSideeff(prog[pc].op) \subseteq IP
    BY <2>1, SavedIpType
  <2> QED
    BY <2>1, <2>2, NextIpType
<1>2. CASE GBr(NextIp(pc))
  BY <1>1, <1>2, CodeFacts, GBrStep
<1>3. CASE ~GBr(NextIp(pc))
  <2>1. /\ NextIp(pc) # bb.end /\ pc' = NextIp(pc)
        /\ UNCHANGED <<boot, trapno, tb, caches, linkage, mode, cur, bb, branch_slot>>
    BY <1>3 DEF RunSeq
  <2>2. /\ bb' \in Code.blocks /\ pc' \in Int /\ bb'.start <= pc' /\ pc' < bb'.end
    <3>1. /\ pc \in Nat /\ NextIp(pc) = pc + 1 /\ bb \in Code.blocks
          /\ bb.start \in Nat /\ bb.end \in Nat /\ bb.start <= pc /\ pc < bb.end
      <4>1. IP \subseteq Nat
        BY GuestAssumption DEF IP
      <4>2. /\ pc \in IP /\ NextIp(pc) = pc + 1 /\ bb \in Code.blocks
            /\ bb.start \in Nat /\ bb.end \in Nat /\ bb.start <= pc /\ pc < bb.end
        BY <1>1, CodeFacts
      <4> QED
        BY <4>1, <4>2
    <3>2. bb' = bb /\ pc' = pc + 1 /\ pc + 1 # bb.end
      BY <2>1, <3>1
    <3> QED
      BY <3>1, <3>2
  <2> QED
    BY <1>1, <2>1, <2>2, StayInCode
<1> QED
  BY <1>2, <1>3

\* jal branches to its target.
LEMMA RunJalStep == ASSUME IInv, RunJal PROVE IInv'
<1>1. mode = "code" /\ ip' \in IP /\ \E a \in prog[pc].tgts : GBr(a)
  BY DEF RunJal, InCode, IInv, ControlInv, ControlTypeOK
<1> QED
  BY <1>1, CodeFacts, GBrStep

\* A conditional branch goes to its target or falls through.
LEMMA RunBrccStep == ASSUME IInv, RunBrcc PROVE IInv'
<1>1. mode = "code" /\ ip' \in IP /\ \E a \in prog[pc].tgts \cup {NextIp(pc)} : GBr(a)
  BY DEF RunBrcc, InCode, IInv, ControlInv, ControlTypeOK
<1> QED
  BY <1>1, CodeFacts, GBrStep

\* jalr leaves its target to the indirect-branch lookup.
LEMMA RunJalrStep == ASSUME IInv, RunJalr PROVE IInv'
<1>1. PICK a \in prog[pc].tgts :
        \/ pc' = a /\ mode' = "brind" /\ UNCHANGED <<cur, bb, branch_slot>>
        \/ Leave(a)
  BY DEF RunJalr
<1>2. mode = "code" /\ UNCHANGED <<boot, cpu, tb, caches, linkage>>
  BY DEF RunJalr, InCode
<1>3. a \in IP /\ ip' \in IP
  BY <1>2, CodeFacts DEF IInv, ControlInv, ControlTypeOK, cpu
<1>4. CASE pc' = a /\ mode' = "brind" /\ UNCHANGED <<cur, bb, branch_slot>>
  <2>2. CacheInv'
    BY <1>2, CacheKept DEF IInv
  <2>3. ControlTypeOK'
    BY <1>2, <1>3, <1>4 DEF IInv, ControlInv, ControlTypeOK, Pointer, cpu, Modes
  <2>4. ImageOk'
    BY <1>2, <1>4, ImageSame DEF IInv, ControlInv
  <2>5. ExecuteAssert' /\ InBlock' /\ SlotOk' /\ TrapOk' /\ CurOk'
    BY <1>2, <1>4, CodeFacts DEF ExecuteAssert, InBlock, SlotOk, TrapOk, CurOk, cpu
  <2> QED
    BY <2>2, <2>3, <2>4, <2>5 DEF IInv, ControlInv
<1>5. CASE Leave(a)
  BY <1>2, <1>3, <1>5, LeaveStep DEF cpu
<1> QED
  BY <1>1, <1>4, <1>5

\* A guest memory access faults.
LEMMA RunFaultStep == ASSUME IInv, RunFault PROVE IInv'
<1>1. /\ mode = "code" /\ mode' = "fault" /\ ip' \in PreSideeff(prog[pc].op)
      /\ UNCHANGED <<boot, trapno, tb, caches, linkage, cur, bb, pc, branch_slot>>
  BY DEF RunFault, InCode, place
<1>2. CacheInv'
  BY <1>1, CacheKept DEF IInv
<1>3. ControlTypeOK'
  BY <1>1, SavedIpType DEF IInv, ControlInv, ControlTypeOK, Pointer, Modes
<1>4. ImageOk'
  BY <1>1, ImageSame
<1>5. ExecuteAssert' /\ InBlock' /\ SlotOk' /\ TrapOk' /\ CurOk'
  BY <1>1, CodeFacts DEF ExecuteAssert, InBlock, SlotOk, TrapOk, CurOk
<1> QED
  BY <1>2, <1>3, <1>4, <1>5 DEF IInv, ControlInv

\* A helper raises a trap at the address of its instruction.
LEMMA RunTrapStep == ASSUME IInv, RunTrap PROVE IInv'
<1>1. /\ mode = "code" /\ mode' = "ukernel" /\ ip' = pc
      /\ prog[pc].op \in TrapOps \cup {"unimpl"}
      /\ trapno' = TrapOf(prog[pc].op)
      /\ UNCHANGED <<boot, tb, caches, linkage, cur, bb, pc, branch_slot>>
  BY DEF RunTrap, InCode, place, PreSideeff, MayTrapOps, TrapOps
<1>2. /\ trapno' \in TrapCodes /\ trapno' # "NONE"
      /\ trapno' = "ECALL" => prog[pc].op = "ecall"
      /\ trapno' = "ILLEGAL_INSN" => prog[pc].op \in IllegalOps
  BY <1>1 DEF TrapOf, TrapOps, TrapCodes, IllegalOps
<1>3. CacheInv'
  BY <1>1, CacheKept DEF IInv
<1>4. ControlTypeOK'
  BY <1>1, <1>2, CodeFacts DEF IInv, ControlInv, ControlTypeOK, Pointer, Modes
<1>5. ImageOk'
  BY <1>1, ImageSame
<1>6. ExecuteAssert' /\ InBlock' /\ SlotOk' /\ TrapOk' /\ CurOk'
  BY <1>1, <1>2, CodeFacts DEF ExecuteAssert, InBlock, SlotOk, TrapOk, CurOk, prog
<1> QED
  BY <1>3, <1>4, <1>5, <1>6 DEF IInv, ControlInv

\* A jump through a patched slot or a cache line enters a known region.
LEMMA EnterKnown ==
  ASSUME IInv, mode \in {"slot", "brind"}, UNCHANGED <<boot, cpu, tb, caches, linkage>>,
         NEW t \in 1 .. Len(tb), Enter(tb, t)
  PROVE  IInv'
<1>1. tb \in Seq(TBlock) /\ tb' = tb /\ boot' = boot /\ Len(tb') = Len(tb) /\ Grows(tb, tb')
  BY Facts, GrowsRefl
<1>2. CacheInv' /\ ip' \in IP /\ trapno' = "NONE"
  BY CacheKept DEF IInv, ControlInv, ControlTypeOK, TrapOk, cpu
<1> QED
  BY <1>1, <1>2, EnterControl

\* A patched slot jumps.
LEMMA SlotLinkedStep == ASSUME IInv, SlotLinked PROVE IInv'
<1>1. /\ mode = "slot" /\ Enter(tb, links[branch_slot])
      /\ UNCHANGED <<boot, cpu, tb, caches, linkage>> /\ branch_slot \in DOMAIN links
  BY DEF SlotLinked
<1>2. links[branch_slot] \in 1 .. Len(tb)
  <2>1. links[branch_slot] \in Pointer \ {0}
    BY <1>1 DEF IInv, CacheInv, CacheTypeOK
  <2> QED
    BY <2>1, Facts DEF Pointer
<1> QED
  BY <1>1, <1>2, EnterKnown

\* The inline lookup of l1_brind_cache hits.
LEMMA BrindHitStep == ASSUME IInv, BrindHit PROVE IInv'
<1>1. /\ mode = "brind" /\ BrindEntry.gip = pc
      /\ UNCHANGED <<boot, cpu, tb, caches, linkage>>
  BY DEF BrindHit
<1>2. CASE BrindEntry.code # 0 /\ Enter(tb, BrindEntry.code)
  <2>1. l1hash(pc) \in 0 .. L1_SIZE - 1
    BY L1HashType DEF IInv, ControlInv, ControlTypeOK
  <2>2. BrindEntry.code \in 1 .. Len(tb)
    <3>1. l1_brind_cache \in [0 .. L1_SIZE - 1 -> [gip : IP, code : Pointer]]
      BY DEF IInv, CacheInv, CacheTypeOK
    <3>2. BrindEntry \in [gip : IP, code : Pointer]
      BY <2>1, <3>1 DEF BrindEntry
    <3>3. BrindEntry.code \in Pointer
      BY <3>2
    <3> QED
      BY <1>2, <3>3, Facts DEF Pointer
  <2> QED
    BY <1>1, <1>2, <2>2, EnterKnown
<1>3. CASE mode' = "fault" /\ UNCHANGED <<place, branch_slot>>
  <2>1. CacheInv'
    BY <1>1, CacheKept DEF IInv
  <2>2. ControlTypeOK'
    BY <1>1, <1>3 DEF IInv, ControlInv, ControlTypeOK, Pointer, Modes, cpu, place
  <2>3. ImageOk'
    BY <1>1, <1>3, ImageSame
  <2>4. ExecuteAssert' /\ InBlock' /\ SlotOk' /\ TrapOk' /\ CurOk'
    BY <1>1, <1>3 DEF IInv, ControlInv, ExecuteAssert, InBlock, SlotOk, TrapOk, CurOk
  <2> QED
    BY <2>1, <2>2, <2>3, <2>4 DEF IInv, ControlInv
<1> QED
  BY <1>2, <1>3 DEF BrindHit

\* A stub that finds nothing returns to Execute; Lookup left l1_cache alone.
LEMMA EscapeStep ==
  ASSUME IInv, mode \in {"slot", "brind"}, mode' = "execute", ip' \in IP,
         branch_slot # NoSlot => branch_slot.gip = ip',
         UNCHANGED <<boot, trapno, tb, caches, linkage, place, branch_slot>>
  PROVE  IInv'
<1>1. CacheInv'
  BY CacheKept DEF IInv
<1>2. ControlTypeOK'
  BY DEF IInv, ControlInv, ControlTypeOK, Pointer, Modes, place
<1>3. ImageOk'
  BY ImageSame
<1>4. ExecuteAssert' /\ InBlock' /\ SlotOk' /\ TrapOk' /\ CurOk'
  BY DEF IInv, ControlInv, ExecuteAssert, InBlock, SlotOk, TrapOk, CurOk,
         SlotFits, CrossPage, PageOf
<1> QED
  BY <1>1, <1>2, <1>3, <1>4 DEF IInv, ControlInv

\* TryLinkBranch patches the slot, or escapes to Execute with it.
LEMMA TryLinkBranchStep == ASSUME IInv, TryLinkBranch PROVE IInv'
<1> DEFINE a == branch_slot.gip
           found == Lookup(a)
<1>1. /\ mode = "slot" /\ l1_cache' = L1Fill(a, found)
      /\ UNCHANGED <<boot, trapno, tcache_map, l1_brind_cache>>
  BY DEF TryLinkBranch
<1>2. /\ GoodSlot(branch_slot) /\ a \in IP /\ trapno = "NONE" /\ ip \in IP
      /\ tb \in Seq(TBlock) /\ Len(tb) \in Nat
  BY <1>1, Facts DEF IInv, ControlInv, ControlTypeOK, SlotOk, TrapOk, GoodSlot, Slot
<1>3. found \in 0 .. Len(tb) /\ (found # 0 => tb[found].ip = a)
  BY <1>2, LookupIsMap DEF IInv, CacheInv
<1>4. CASE found # 0 /\ LinkTo(tb, branch_slot, found) /\ Enter(tb, found) /\ UNCHANGED ip
  <2>0. found # 0
    BY <1>4
  <2> HIDE DEF found
  <2>1. found \in 1 .. Len(tb)
    BY <1>2, <1>3, <2>0
  <2>2. L1Changed(tb, found)
    BY <1>1, <1>3, <2>0 DEF L1Changed, L1Fill
  <2>3. CacheInv' /\ Grows(tb, tb') /\ Len(tb') = Len(tb)
    BY <1>1, <1>2, <1>3, <1>4, <2>1, <2>2, LinkToOk DEF IInv
  <2> QED
    BY <1>1, <1>2, <1>4, <2>1, <2>3, EnterControl
<1>5. CASE /\ found = 0 /\ ip' = a /\ mode' = "execute"
           /\ UNCHANGED <<tb, linkage, place, branch_slot>>
  <2>1. UNCHANGED caches
    BY <1>1, <1>5 DEF caches, L1Fill
  <2> QED
    BY <1>1, <1>2, <1>5, <2>1, EscapeStep
<1> QED
  BY <1>4, <1>5 DEF TryLinkBranch, EscapeLink

\* qcgstub_brind caches the target, or escapes to Execute without a slot.
LEMMA BrindSlowStep == ASSUME IInv, BrindSlow PROVE IInv'
<1> DEFINE found == Lookup(pc)
<1>1. /\ mode = "brind" /\ l1_cache' = L1Fill(pc, found) /\ ip' = pc
      /\ UNCHANGED <<boot, trapno, tcache_map, linkage>>
  BY DEF BrindSlow
<1>2. /\ pc \in IP /\ trapno = "NONE" /\ branch_slot = NoSlot
      /\ tb \in Seq(TBlock) /\ Len(tb) \in Nat
  BY <1>1, Facts DEF IInv, ControlInv, ControlTypeOK, SlotOk, TrapOk
<1>3. found \in 0 .. Len(tb) /\ (found # 0 => tb[found].ip = pc)
  BY <1>2, LookupIsMap DEF IInv, CacheInv
<1>4. CASE found # 0 /\ CacheBrind(tb, found) /\ Enter(tb, found)
  <2>0. found # 0
    BY <1>4
  <2> HIDE DEF found
  <2>1. found \in 1 .. Len(tb)
    BY <1>2, <1>3, <2>0
  <2>2. L1Changed(tb, found)
    BY <1>1, <1>3, <2>0 DEF L1Changed, L1Fill
  <2>3. CacheInv' /\ Grows(tb, tb') /\ Len(tb') = Len(tb)
    BY <1>1, <1>4, <2>1, <2>2, CacheBrindOk DEF IInv
  <2> QED
    BY <1>1, <1>2, <1>4, <2>1, <2>3, EnterControl
<1>5. CASE found = 0 /\ mode' = "execute" /\ UNCHANGED <<tb, l1_brind_cache, place, branch_slot>>
  <2>1. UNCHANGED caches
    BY <1>1, <1>5 DEF caches, L1Fill
  <2> QED
    BY <1>1, <1>2, <1>5, <2>1, EscapeStep
<1> QED
  BY <1>4, <1>5 DEF BrindSlow

\* The trap switch of ukernel::Execute touches the CPU state only.
LEMMA UkernelOk == ASSUME IInv, UkernelStep PROVE IInv'
<1>1. /\ mode = "ukernel" /\ mode' \in {"execute", "done", "panic"}
      /\ ip' \in {ip, NextIp(ip)} /\ trapno' \in {trapno, "NONE"}
      /\ mode' = "execute" => trapno' \in {"NONE", "EBREAK"}
      /\ UNCHANGED <<boot, tb, caches, linkage, place, branch_slot>>
  BY DEF UkernelStep, TrapEcall, TrapEbreak, TrapIll, cpu
<1>2. ip' \in IP /\ trapno' \in TrapCodes
  BY <1>1, NextIpType DEF IInv, ControlInv, ControlTypeOK, TrapCodes
<1>3. CacheInv'
  BY <1>1, CacheKept DEF IInv
<1>4. ControlTypeOK'
  BY <1>1, <1>2 DEF IInv, ControlInv, ControlTypeOK, Pointer, Modes, place
<1>5. ImageOk'
  BY <1>1, ImageSame
<1>6. ExecuteAssert' /\ InBlock' /\ SlotOk' /\ TrapOk' /\ CurOk'
  BY <1>1 DEF IInv, ControlInv, ExecuteAssert, InBlock, SlotOk, TrapOk, CurOk
<1> QED
  BY <1>3, <1>4, <1>5, <1>6 DEF IInv, ControlInv

\* Stuttering.
LEMMA StutterOk == ASSUME IInv, UNCHANGED vars PROVE IInv'
<1> USE DEF vars, cpu, place
<1>1. CacheInv'
  BY CacheKept DEF IInv
<1>2. ControlInv'
  BY DEF IInv, ControlInv, ControlTypeOK, Pointer, ImageOk, image, ExecuteAssert,
         InBlock, Code, SlotOk, TrapOk, prog, CurOk, SlotFits, CrossPage, PageOf
<1> QED
  BY <1>1, <1>2 DEF IInv

\* The invariant is inductive: one case for each action.
LEMMA StepOk == IInv /\ [Next]_vars => IInv'
<1> SUFFICES ASSUME IInv, [Next]_vars PROVE IInv'
  OBVIOUS
<1>1. CASE BootStep
  BY <1>1, AnnounceStep, BootedStep DEF BootStep
<1>2. CASE ExecuteStep
  <2>1. CASE ExecuteExhausted
    BY <2>1, InvalidateStep DEF ExecuteExhausted
  <2> QED
    BY <1>2, <2>1, ExecuteFoundStep, ExecuteCompileStep, ExecuteFaultStep,
       ExecuteReturnStep DEF ExecuteStep
<1>3. CASE CodeStep
  BY <1>3, RunSeqStep, RunFaultStep, RunJalStep, RunBrccStep, RunJalrStep,
     RunTrapStep DEF CodeStep
<1>4. CASE StubStep
  BY <1>4, SlotLinkedStep, TryLinkBranchStep, BrindHitStep, BrindSlowStep DEF StubStep
<1>5. CASE UkernelStep
  BY <1>5, UkernelOk
<1>6. CASE Halted
  BY <1>6, StutterOk DEF Halted
<1>7. CASE UNCHANGED vars
  BY <1>7, StutterOk
<1> QED
  BY <1>1, <1>2, <1>3, <1>4, <1>5, <1>6, <1>7 DEF Next

-----------------------------------------------------------------------------
(* Theorems *)

\* The inductive invariant holds in every reachable state of the engine.
THEOREM Invariance == Spec => []IInv
  BY InitOk, StepOk, PTL DEF Spec

\* The engine's state is well typed: no pointer leaves tb_pool.
THEOREM TypeCorrect == Spec => []TypeOK
<1>1. IInv => TypeOK
  BY DEF IInv, CacheInv, ControlInv, TypeOK
<1> QED
  BY <1>1, Invariance, PTL

\* No address is translated twice, and the map finds every translated block.
THEOREM MapCoherent == Spec => []MapCoherence
<1>1. IInv => MapCoherence
  BY DEF IInv, CacheInv
<1> QED
  BY <1>1, Invariance, PTL

\* Both first-level caches agree with the map, whatever collides in them.
THEOREM L1Coherent == Spec => []L1Coherence
<1>1. IInv => L1Coherence
  BY DEF IInv, CacheInv
<1> QED
  BY <1>1, Invariance, PTL

\* Every patched branch slot leads to the code of its guest address and has
\* left the segment-entry mark that the profile needs.
THEOREM LinksCoherent == Spec => []LinkCoherence
<1>1. IInv => LinkCoherence
  BY DEF IInv, CacheInv
<1> QED
  BY <1>1, Invariance, PTL

\* The assertion of dbt::Execute on the slot it resolves never fails.
THEOREM ExecuteAssertHolds == Spec => []ExecuteAssert
<1>1. IInv => ExecuteAssert
  BY DEF IInv, ControlInv
<1> QED
  BY <1>1, Invariance, PTL

-----------------------------------------------------------------------------
(* Entries and the guest machine *)

\* Entering a known region puts the guest at the address of its TBlock.
LEMMA EnterPc ==
  ASSUME IInv, NEW t \in 1 .. Len(tb), Enter(tb, t)
  PROVE  mode' = "code" /\ cur' = t /\ pc' = tb[t].ip
<1>1. tb[t].tcode.entry = tb[t].ip
  BY DEF IInv, CacheInv, TBlocksOk
<1> QED
  BY <1>1 DEF Enter

\* Lookup returns nullptr or the block of the address it is given.
LEMMA LookupFinds ==
  ASSUME IInv, NEW a \in IP, Lookup(a) # 0
  PROVE  Lookup(a) \in 1 .. Len(tb) /\ tb[Lookup(a)].ip = a
<1>1. Lookup(a) \in 0 .. Len(tb) /\ tb[Lookup(a)].ip = a /\ Len(tb) \in Nat
  BY LookupIsMap, Facts DEF IInv, CacheInv
<1> QED
  BY <1>1

\* A slot that is being resolved is well formed and aims at ip.
LEMMA PendingSlot ==
  ASSUME IInv, mode = "execute", trapno = "NONE", branch_slot # NoSlot
  PROVE  GoodSlot(branch_slot) /\ branch_slot.gip = ip
  BY DEF IInv, ControlInv, ControlTypeOK, SlotOk, ExecuteAssert, GoodSlot

\* The block that the translator announces is entered at ip.
LEMMA CompiledBlock ==
  ASSUME IInv, ExecuteCompile
  PROVE  \E tbs \in Seq(TBlock) :
           /\ Len(tb) + 1 \in 1 .. Len(tbs)
           /\ tbs[Len(tb) + 1].tcode.entry = ip
           /\ Dispatch(tbs, Len(tb) + 1)
<1>1. PICK end \in ip + 1 .. ip + TB_MAX_INSNS :
        /\ IsBlock(prog, ip, CompilationBounds, end)
        /\ Dispatch(Append(tb, NewTBlock(ip, JitRegion(end))), Len(tb) + 1)
  BY DEF ExecuteCompile
<1> DEFINE r == JitRegion(end)
           n == NewTBlock(ip, r)
<1>2. ip \in Mapped /\ tb \in Seq(TBlock) /\ Len(tb) \in Nat
  BY Facts DEF ExecuteCompile
<1>3. r \in Region /\ r.entry = ip
  <2>1. r.entry = ip
    BY DEF JitRegion
  <2> QED
    BY <1>1, <1>2, <2>1, JitRegionOk DEF IInv, CacheInv
<1>4. n \in TBlock /\ n.tcode.entry = ip
  BY <1>2, <1>3 DEF NewTBlock, TBlock
<1> HIDE DEF n
<1>5. /\ Append(tb, n) \in Seq(TBlock) /\ Len(Append(tb, n)) = Len(tb) + 1
      /\ Append(tb, n)[Len(tb) + 1] = n
  BY <1>2, <1>4, GrowsAppend DEF Grows
<1>6. Dispatch(Append(tb, n), Len(tb) + 1)
  BY <1>1 DEF n
<1>7. Len(tb) + 1 \in 1 .. Len(Append(tb, n))
  BY <1>2, <1>5
<1>8. Append(tb, n)[Len(tb) + 1].tcode.entry = ip
  BY <1>4, <1>5
<1> DEFINE tbs == Append(tb, n)
<1>9. /\ tbs \in Seq(TBlock) /\ Len(tb) + 1 \in 1 .. Len(tbs)
      /\ tbs[Len(tb) + 1].tcode.entry = ip /\ Dispatch(tbs, Len(tb) + 1)
  BY <1>5, <1>6, <1>7, <1>8
<1> HIDE DEF tbs
<1> QED
  BY <1>9

-----------------------------------------------------------------------------
(* Entries are marked *)

\* Execute's dispatch marks the block that it enters.
LEMMA DispatchMarks ==
  ASSUME IInv, mode = "execute", trapno = "NONE",
         NEW tbs \in Seq(TBlock), NEW t \in 1 .. Len(tbs),
         tbs[t].tcode.entry = ip, Dispatch(tbs, t)
  PROVE  EntryMarked
<1>1. cur' = t /\ pc' = ip
  BY DEF Dispatch, Enter
<1>2. CASE branch_slot # NoSlot
  <2>1. GoodSlot(branch_slot) /\ branch_slot.gip = ip
    BY <1>2, PendingSlot
  <2>2. branch_slot.cross_segment => tb'[t].is_segment_entry
    BY <1>2, <2>1, LinkToGrows DEF Dispatch, GoodSlot
  <2> QED
    BY <1>1, <1>2, <2>1, <2>2 DEF EntryMarked, GoodSlot, SlotFits
<1>3. CASE branch_slot = NoSlot
  <2>1. tb'[t].is_brind_target
    BY <1>3, CacheBrindGrows DEF Dispatch
  <2> QED
    BY <1>1, <1>3, <2>1 DEF EntryMarked
<1> QED
  BY <1>2, <1>3

\* Every step of the engine that enters translated code marks its entry.
LEMMA StepMarks == IInv /\ [Next]_vars => EntryMarked
<1> SUFFICES ASSUME IInv, [Next]_vars, mode # "code", mode' = "code"
             PROVE  EntryMarked
  BY DEF EntryMarked
<1>0. ip \in IP /\ pc \in IP /\ tb \in Seq(TBlock) /\ branch_slot \in Slot
  BY Facts DEF IInv, ControlInv, ControlTypeOK
<1>1. CASE ExecuteFound
  <2>1. Lookup(ip) \in 1 .. Len(tb) /\ tb[Lookup(ip)].ip = ip
    BY <1>0, <1>1, LookupFinds DEF ExecuteFound
  <2>2. tb[Lookup(ip)].tcode.entry = ip
    BY <2>1 DEF IInv, CacheInv, TBlocksOk
  <2> QED
    BY <1>0, <1>1, <2>1, <2>2, DispatchMarks DEF ExecuteFound
<1>2. CASE ExecuteCompile
  <2>1. mode = "execute" /\ trapno = "NONE"
    BY <1>2 DEF ExecuteCompile
  <2> QED
    BY <1>2, <2>1, CompiledBlock, DispatchMarks
<1>3. CASE SlotLinked
  <2> DEFINE t == links[branch_slot]
  <2>1. /\ Enter(tb, t) /\ tb' = tb /\ branch_slot # NoSlot
        /\ branch_slot \in DOMAIN links
    BY <1>3 DEF SlotLinked, IInv, ControlInv, SlotOk
  <2>2. t \in 1 .. Len(tb)
    <3>1. t \in Pointer \ {0}
      BY <2>1 DEF IInv, CacheInv, CacheTypeOK
    <3>2. Len(tb) \in Nat
      BY Facts
    <3> QED
      BY <3>1, <3>2 DEF Pointer
  <2>3. cur' = t /\ (CrossPage(branch_slot) => tb[t].is_segment_entry)
    BY <2>1 DEF Enter, IInv, CacheInv, LinkCoherence
  <2> QED
    BY <2>1, <2>3 DEF EntryMarked
<1>4. CASE TryLinkBranch
  <2> DEFINE a == branch_slot.gip
             t == Lookup(a)
  <2>1. /\ t # 0 /\ LinkTo(tb, branch_slot, t) /\ Enter(tb, t)
        /\ branch_slot # NoSlot /\ a \in IP
    BY <1>0, <1>4 DEF TryLinkBranch, EscapeLink, IInv, ControlInv, SlotOk, Slot
  <2>2. t \in 1 .. Len(tb) /\ tb[t].ip = a
    BY <2>1, LookupFinds
  <2>3. cur' = t /\ pc' = a
    BY <2>1, <2>2, EnterPc
  <2>4. branch_slot.cross_segment => tb'[t].is_segment_entry
    BY <1>0, <2>1, <2>2, LinkToGrows
  <2>5. CrossPage(branch_slot) => branch_slot.cross_segment
    BY <2>1 DEF IInv, ControlInv, SlotOk, SlotFits
  <2> QED
    BY <2>1, <2>3, <2>4, <2>5 DEF EntryMarked
<1>5. CASE BrindHit
  <2>1. /\ BrindEntry.code # 0 /\ Enter(tb, BrindEntry.code) /\ tb' = tb
        /\ branch_slot = NoSlot
    BY <1>5 DEF BrindHit, IInv, ControlInv, SlotOk
  <2>2. l1hash(pc) \in 0 .. L1_SIZE - 1
    BY <1>0, L1HashType
  <2>3. tb[BrindEntry.code].is_brind_target
    BY <2>1, <2>2 DEF BrindEntry, IInv, CacheInv, L1Coherence, BrindLines
  <2> QED
    BY <2>1, <2>3 DEF EntryMarked, Enter
<1>6. CASE BrindSlow
  <2>1. /\ Lookup(pc) # 0 /\ CacheBrind(tb, Lookup(pc)) /\ Enter(tb, Lookup(pc))
        /\ branch_slot = NoSlot
    BY <1>6 DEF BrindSlow, IInv, ControlInv, SlotOk
  <2>2. Lookup(pc) \in 1 .. Len(tb)
    BY <1>0, <2>1, LookupFinds
  <2>3. tb'[Lookup(pc)].is_brind_target
    BY <1>0, <2>1, <2>2, CacheBrindGrows
  <2> QED
    BY <2>1, <2>3 DEF EntryMarked, Enter
<1>7. CASE ~(ExecuteFound \/ ExecuteCompile \/ StubStep)
  BY <1>7 DEF Next, BootStep, Announce, InvalidateAndPanic, Booted, ExecuteStep,
     ExecuteExhausted, ExecuteFault, ExecuteReturn, CodeStep, RunSeq, RunJal, RunBrcc,
     RunJalr, RunTrap, RunFault, InCode, UkernelStep, TrapEcall, TrapEbreak, TrapIll,
     Halted, vars, StubStep
<1> QED
  BY <1>1, <1>2, <1>3, <1>4, <1>5, <1>6, <1>7 DEF StubStep

\* Whatever was cached, patched or collided before, a region entered by an
\* indirect branch or from another page through a slot is marked for the profile.
THEOREM EntriesAreMarked == Spec => EntriesMarked
<1>1. IInv /\ [Next]_vars => [EntryMarked]_vars
  BY StepMarks
<1> QED
  BY <1>1, Invariance, PTL DEF Spec, EntriesMarked

-----------------------------------------------------------------------------
(* The engine implements the guest machine *)

\* No program has an ebreak: ukernel::Execute never clears trapno after one.
NoEbreak == \A b \in Boots : \A a \in Mapped : b.prog[a].op # "ebreak"

\* An empty line of l1_brind_cache matches guest address 0 only.
NullLines == \A h \in 0 .. L1_SIZE - 1 :
               l1_brind_cache[h].code = 0 => l1_brind_cache[h].gip = 0

RInv == IInv /\ trapno # "EBREAK" /\ NullLines

\* CacheBrind never empties a line.
LEMMA CacheBrindNull ==
  ASSUME IInv, NullLines, NEW tbs \in Seq(TBlock), NEW t \in 1 .. Len(tbs),
         CacheBrind(tbs, t)
  PROVE  NullLines'
<1>1. t # 0 /\ l1hash(tbs[t].ip) \in 0 .. L1_SIZE - 1
  BY TBlockFields, L1HashType
<1>2. DOMAIN l1_brind_cache = 0 .. L1_SIZE - 1
  BY DEF IInv, CacheInv, CacheTypeOK
<1> QED
  BY <1>1, <1>2 DEF NullLines, CacheBrind

\* Empty lines stay empty or become entries of a block.
LEMMA NullLinesStep == IInv /\ NullLines /\ [Next]_vars => NullLines'
<1> SUFFICES ASSUME IInv, NullLines, [Next]_vars PROVE NullLines'
  OBVIOUS
<1>0. ip \in IP /\ pc \in IP /\ tb \in Seq(TBlock)
  BY Facts DEF IInv, ControlInv, ControlTypeOK
<1>1. CASE UNCHANGED l1_brind_cache
  BY <1>0, <1>1 DEF NullLines
<1>2. CASE InvalidateAndPanic
  BY <1>2 DEF NullLines, InvalidateAndPanic, Invalidate, NoBrind
<1>3. CASE ExecuteFound
  <2>1. Lookup(ip) \in 1 .. Len(tb) /\ Dispatch(tb, Lookup(ip))
    BY <1>0, <1>3, LookupFinds DEF ExecuteFound
  <2> QED
    BY <1>0, <1>1, <2>1, CacheBrindNull DEF Dispatch
<1>4. CASE ExecuteCompile
  BY <1>0, <1>1, <1>4, CompiledBlock, CacheBrindNull DEF Dispatch
<1>5. CASE BrindSlow
  <2>1. CASE Lookup(pc) # 0
    BY <1>0, <1>5, <2>1, LookupFinds, CacheBrindNull DEF BrindSlow
  <2>2. CASE Lookup(pc) = 0
    BY <1>1, <1>5, <2>2 DEF BrindSlow
  <2> QED
    BY <2>1, <2>2
<1>6. CASE BootStep \/ UkernelStep \/ Halted \/ UNCHANGED vars
  BY <1>1, <1>2, <1>6 DEF BootStep, Announce, Booted, UkernelStep, TrapEcall,
     TrapEbreak, TrapIll, Halted, vars, caches
<1>7. CASE ExecuteExhausted \/ ExecuteFault \/ ExecuteReturn
  BY <1>1, <1>2, <1>7 DEF ExecuteExhausted, ExecuteFault, ExecuteReturn, caches
<1>8. CASE CodeStep
  BY <1>1, <1>8 DEF CodeStep, RunSeq, RunJal, RunBrcc, RunJalr, RunTrap,
     RunFault, GBr, caches
<1>9. CASE SlotLinked \/ TryLinkBranch \/ BrindHit
  BY <1>1, <1>9 DEF SlotLinked, TryLinkBranch, EscapeLink, BrindHit, caches
<1> QED
  BY <1>3, <1>4, <1>5, <1>6, <1>7, <1>8, <1>9 DEF Next, ExecuteStep, StubStep

\* Without an ebreak instruction no EBREAK is ever raised.
LEMMA NoEbreakStep == NoEbreak /\ RInv /\ [Next]_vars => trapno' # "EBREAK"
<1> SUFFICES ASSUME NoEbreak, RInv, [Next]_vars PROVE trapno' # "EBREAK"
  OBVIOUS
<1>1. CASE UNCHANGED trapno
  BY <1>1 DEF RInv
<1>2. CASE RunTrap
  <2>1. pc \in Mapped /\ boot \in Boots /\ prog[pc].op \in TrapOps \cup {"unimpl"}
    BY <1>2, CodeFacts, Facts DEF RInv, RunTrap, InCode
  <2>2. prog[pc].op # "ebreak"
    BY <2>1 DEF NoEbreak, prog
  <2> QED
    BY <1>2, <2>1, <2>2 DEF RunTrap, TrapOf, TrapOps, IllegalOps
<1>3. CASE BootStep \/ UkernelStep \/ Halted \/ UNCHANGED vars
  BY <1>1, <1>3 DEF BootStep, Announce, InvalidateAndPanic, Booted, UkernelStep,
     TrapEcall, TrapEbreak, TrapIll, Halted, vars, cpu
<1>4. CASE ExecuteStep
  BY <1>1, <1>4 DEF ExecuteStep, ExecuteFound, ExecuteCompile, ExecuteExhausted,
     InvalidateAndPanic, ExecuteFault, ExecuteReturn, Dispatch, cpu
<1>5. CASE RunSeq \/ RunFault \/ RunJal \/ RunBrcc \/ RunJalr
  BY <1>1, <1>5 DEF RunSeq, RunFault, RunJal, RunBrcc, RunJalr, GBr, cpu
<1>6. CASE StubStep
  BY <1>1, <1>6 DEF StubStep, SlotLinked, TryLinkBranch, EscapeLink, BrindHit, BrindSlow, cpu
<1> QED
  BY <1>2, <1>3, <1>4, <1>5, <1>6 DEF Next, CodeStep

\* A step of the engine that the guest does not see.
Invisible == prog' = prog /\ GuestIp' = GuestIp /\ GuestStatus' = GuestStatus

\* The initial states of the engine are initial states of the guest machine.
LEMMA InitRefines == Init => G!Init
<1> SUFFICES ASSUME Init PROVE G!Init
  OBVIOUS
<1>1. GuestIp = boot.entry /\ GuestStatus = "run" /\ boot \in Boots
  BY DEF Init, GuestIp, GuestStatus
<1> DEFINE p == [prog |-> boot.prog, entry |-> boot.entry]
<1>2. p \in {[prog |-> b.prog, entry |-> b.entry] : b \in Boots}
  BY <1>1
<1> QED
  BY <1>1, <1>2 DEF G!Init, prog

\* Entering translated code at the address that the guest has reached.
LEMMA EnterInvisible ==
  ASSUME mode \in {"execute", "slot", "brind"}, mode' = "code", boot' = boot,
         pc' = GuestIp
  PROVE  Invisible
  BY DEF Invisible, GuestIp, GuestStatus, prog

\* Leaving a region, by a tail call or a slot, takes the guest to the target.
LEMMA LeaveGoes ==
  ASSUME RInv, mode = "code", NEW a \in IP, Leave(a), UNCHANGED <<boot, tb>>
  PROVE  GuestIp' = a /\ UNCHANGED <<prog, GuestStatus>>
<1>1. CASE \E k \in 1 .. Len(image) : image[k].entry = a /\ Enter(tb, k)
  <2>1. PICK k \in 1 .. Len(image) : image[k].entry = a /\ Enter(tb, k)
    BY <1>1
  <2>2. k \in 1 .. Len(tb) /\ tb[k].ip = a
    <3>1. Len(tb) \in Nat /\ Len(image) \in Nat
      BY Facts DEF RInv
    <3>2. /\ Len(image) <= Len(tb)
          /\ \A i \in 1 .. Len(tb) : i <= Len(image) => tb[i].ip = image[i].entry
      BY DEF RInv, IInv, ControlInv, ImageOk
    <3> QED
      BY <2>1, <3>1, <3>2
  <2>3. mode' = "code" /\ pc' = a
    BY <2>1, <2>2, EnterPc DEF RInv
  <2> QED
    BY <2>3 DEF GuestIp, GuestStatus, prog
<1>2. CASE mode' = "slot" /\ \E host \in Hosts : branch_slot' = SlotTo(host, a)
  <2>1. mode' = "slot" /\ branch_slot'.gip = a
    BY <1>2 DEF SlotTo
  <2> QED
    BY <2>1 DEF GuestIp, GuestStatus, prog
<1> QED
  BY <1>1, <1>2 DEF Leave

\* A resolved branch leaves the guest at its target.
LEMMA GBrGoes ==
  ASSUME RInv, mode = "code", NEW a \in IP, GBr(a)
  PROVE  GuestIp' = a /\ UNCHANGED <<prog, GuestStatus>>
<1>0. UNCHANGED <<boot, tb>>
  BY DEF GBr
<1>1. CASE pc' = a /\ UNCHANGED mode
  BY <1>0, <1>1 DEF GuestIp, GuestStatus, prog
<1>2. CASE Leave(a)
  BY <1>0, <1>2, LeaveGoes
<1> QED
  BY <1>1, <1>2 DEF GBr

\* The instructions that translated code executes.
LEMMA CodeRefines == ASSUME RInv, CodeStep PROVE G!Next \/ Invisible
<1>0. mode = "code"
  BY DEF CodeStep, RunSeq, RunJal, RunBrcc, RunJalr, RunTrap, RunFault, InCode
<1>1. /\ GuestIp = pc /\ GuestStatus = "run" /\ pc \in Mapped /\ NextIp(pc) \in IP
      /\ prog[pc].tgts \subseteq IP
  BY <1>0, CodeFacts DEF RInv, GuestIp, GuestStatus
<1>2. CASE RunSeq
  <2>1. GuestIp' = NextIp(pc) /\ UNCHANGED <<prog, GuestStatus>>
    <3>1. CASE pc' = NextIp(pc) /\ UNCHANGED <<boot, mode>>
      BY <1>0, <3>1 DEF GuestIp, GuestStatus, prog
    <3>2. CASE GBr(NextIp(pc))
      BY <1>0, <1>1, <3>2, GBrGoes
    <3> QED
      BY <1>2, <3>1, <3>2 DEF RunSeq
  <2>2. G!Seq
    BY <1>1, <1>2, <2>1 DEF RunSeq, InCode, G!Seq, G!At, G!Goto, G!NextIp, NextIp,
       G!SeqOps, SeqOps
  <2> QED
    BY <2>2 DEF G!Next
<1>3. CASE RunJal
  <2>1. PICK a \in prog[pc].tgts : GBr(a)
    BY <1>3 DEF RunJal
  <2>2. GuestIp' = a /\ UNCHANGED <<prog, GuestStatus>>
    BY <1>0, <1>1, <2>1, GBrGoes
  <2>3. G!Jal
    BY <1>1, <1>3, <2>1, <2>2 DEF RunJal, InCode, G!Jal, G!At, G!Goto
  <2> QED
    BY <2>3 DEF G!Next
<1>4. CASE RunBrcc
  <2>1. PICK a \in prog[pc].tgts \cup {NextIp(pc)} : GBr(a)
    BY <1>4 DEF RunBrcc
  <2>2. GuestIp' = a /\ UNCHANGED <<prog, GuestStatus>>
    BY <1>0, <1>1, <2>1, GBrGoes
  <2>3. G!Brcc
    BY <1>1, <1>4, <2>1, <2>2 DEF RunBrcc, InCode, G!Brcc, G!At, G!Goto, G!NextIp, NextIp
  <2> QED
    BY <2>3 DEF G!Next
<1>5. CASE RunJalr
  <2>1. PICK a \in prog[pc].tgts : (pc' = a /\ mode' = "brind") \/ Leave(a)
    BY <1>5 DEF RunJalr
  <2>2. UNCHANGED <<boot, tb>> /\ prog[pc].op = "jalr"
    BY <1>5 DEF RunJalr, InCode
  <2>3. GuestIp' = a /\ UNCHANGED <<prog, GuestStatus>>
    <3>1. CASE pc' = a /\ mode' = "brind"
      BY <1>0, <2>2, <3>1 DEF GuestIp, GuestStatus, prog
    <3>2. CASE Leave(a)
      BY <1>0, <1>1, <2>2, <3>2, LeaveGoes
    <3> QED
      BY <2>1, <3>1, <3>2
  <2>4. G!Jalr
    BY <1>1, <2>1, <2>2, <2>3 DEF G!Jalr, G!At, G!Goto
  <2> QED
    BY <2>4 DEF G!Next
<1>6. CASE RunTrap
  <2>1. ip' = pc /\ mode' = "ukernel" /\ boot' = boot
    BY <1>6 DEF RunTrap, InCode, PreSideeff, MayTrapOps, TrapOps
  <2> QED
    BY <1>0, <2>1 DEF Invisible, GuestIp, GuestStatus, prog
<1>7. CASE RunFault
  <2>1. /\ prog[pc].op \in {"mem", "amo"} /\ ip' \in IP /\ mode' = "fault"
        /\ boot' = boot
    BY <1>0, <1>7, SavedIpType DEF RunFault, InCode, RInv
  <2>2. GuestIp' \in IP /\ GuestStatus' = "fault" /\ prog' = prog
    BY <2>1 DEF GuestIp, GuestStatus, prog
  <2>3. G!Fault
    BY <1>1, <2>1, <2>2 DEF G!Fault, G!At, G!IP, IP
  <2> QED
    BY <2>3 DEF G!Next
<1> QED
  BY <1>2, <1>3, <1>4, <1>5, <1>6, <1>7 DEF CodeStep

\* Dispatching, announcing and faulting.
LEMMA ExecuteRefines ==
  ASSUME RInv, BootStep \/ ExecuteStep
  PROVE  G!Next \/ Invisible
<1>0. ip \in IP /\ IInv /\ tb \in Seq(TBlock)
  BY Facts DEF RInv, IInv, ControlInv, ControlTypeOK
<1>1. CASE mode \in {"boot", "execute"} /\ InvalidateAndPanic
  <2>1. GuestStatus = "run" /\ GuestStatus' = "panic" /\ GuestIp' = ip /\ prog' = prog
    BY <1>1 DEF InvalidateAndPanic, cpu, GuestStatus, GuestIp, prog
  <2> QED
    BY <1>0, <2>1 DEF G!Next, G!Panic, G!IP, IP
<1>2. CASE mode = "boot" /\ mode' \in {"boot", "execute"} /\ UNCHANGED <<boot, ip>>
  BY <1>2 DEF Invisible, GuestIp, GuestStatus, prog
<1>3. CASE ExecuteFound
  <2>1. Lookup(ip) \in 1 .. Len(tb) /\ tb[Lookup(ip)].ip = ip
    BY <1>0, <1>3, LookupFinds DEF ExecuteFound
  <2>2. mode' = "code" /\ pc' = ip /\ boot' = boot /\ mode = "execute"
    BY <1>0, <1>3, <2>1, EnterPc DEF ExecuteFound, Dispatch
  <2> QED
    BY <2>2, EnterInvisible DEF GuestIp
<1>4. CASE ExecuteCompile
  <2>1. mode' = "code" /\ pc' = ip /\ boot' = boot /\ mode = "execute"
    BY <1>0, <1>4, CompiledBlock DEF ExecuteCompile, Dispatch, Enter
  <2> QED
    BY <2>1, EnterInvisible DEF GuestIp
<1>5. CASE ExecuteFault
  <2>1. /\ GuestStatus = "run" /\ GuestStatus' = "fault" /\ GuestIp = ip
        /\ GuestIp' = ip /\ prog' = prog /\ ip \notin Mapped
    BY <1>5 DEF ExecuteFault, cpu, GuestStatus, GuestIp, prog
  <2> QED
    BY <1>0, <2>1 DEF G!Next, G!Fault, G!IP, IP
<1>6. CASE ExecuteReturn
  BY <1>6 DEF ExecuteReturn, RInv, IInv, ControlInv, TrapOk
<1> QED
  BY <1>1, <1>2, <1>3, <1>4, <1>5, <1>6 DEF BootStep, Announce, Booted, ExecuteStep,
     ExecuteExhausted, cpu

\* The stubs between two regions.
LEMMA StubRefines == ASSUME RInv, StubStep PROVE G!Next \/ Invisible
<1>0. pc \in IP /\ branch_slot \in Slot /\ branch_slot.gip \in IP /\ IInv
  BY DEF RInv, IInv, ControlInv, ControlTypeOK, Slot
<1>1. CASE SlotLinked
  <2> DEFINE t == links[branch_slot]
  <2>1. /\ Enter(tb, t) /\ branch_slot \in DOMAIN links /\ mode = "slot" /\ boot' = boot
    BY <1>1 DEF SlotLinked
  <2>2. t \in 1 .. Len(tb)
    <3>1. CacheTypeOK /\ Len(tb) \in Nat
      BY <1>0, Facts DEF IInv, CacheInv
    <3>2. t \in (0 .. Len(tb)) \ {0}
      BY <2>1, <3>1 DEF CacheTypeOK, Pointer
    <3> QED
      BY <3>1, <3>2
  <2>3. mode' = "code" /\ pc' = branch_slot.gip
    <3>1. tb[t].ip = branch_slot.gip
      BY <1>0, <2>1 DEF IInv, CacheInv, LinkCoherence
    <3> QED
      BY <1>0, <2>1, <2>2, <3>1, EnterPc
  <2> QED
    BY <2>1, <2>3, EnterInvisible DEF GuestIp
<1>2. CASE TryLinkBranch
  <2> DEFINE t == Lookup(branch_slot.gip)
  <2>1. mode = "slot" /\ boot' = boot
    BY <1>2 DEF TryLinkBranch, EscapeLink
  <2>2. CASE t # 0 /\ Enter(tb, t)
    <3>1. mode' = "code" /\ pc' = branch_slot.gip
      BY <1>0, <2>2, LookupFinds, EnterPc
    <3> QED
      BY <2>1, <3>1, EnterInvisible DEF GuestIp
  <2>3. CASE ip' = branch_slot.gip /\ mode' = "execute"
    BY <2>1, <2>3 DEF Invisible, GuestIp, GuestStatus, prog
  <2> QED
    BY <1>2, <2>2, <2>3 DEF TryLinkBranch, EscapeLink
<1>3. CASE BrindHit
  <2>1. /\ mode = "brind" /\ boot' = boot /\ BrindEntry.gip = pc
        /\ l1hash(pc) \in 0 .. L1_SIZE - 1
    BY <1>0, <1>3, L1HashType DEF BrindHit
  <2>2. CASE BrindEntry.code # 0 /\ Enter(tb, BrindEntry.code)
    <3>1. BrindEntry.code \in 1 .. Len(tb) /\ tb[BrindEntry.code].ip = pc
      <4>1. CacheTypeOK /\ BrindLines /\ Len(tb) \in Nat
        BY <1>0, Facts DEF IInv, CacheInv, L1Coherence
      <4>2. BrindEntry.code \in 0 .. Len(tb)
        BY <2>1, <4>1 DEF BrindEntry, CacheTypeOK, Pointer
      <4>3. tb[BrindEntry.code].ip = pc
        BY <2>1, <2>2, <4>1 DEF BrindEntry, BrindLines
      <4> QED
        BY <2>2, <4>1, <4>2, <4>3
    <3>2. mode' = "code" /\ pc' = pc
      BY <1>0, <2>2, <3>1, EnterPc
    <3> QED
      BY <2>1, <3>2, EnterInvisible DEF GuestIp
  <2>3. CASE BrindEntry.code = 0 /\ mode' = "fault" /\ UNCHANGED ip
    <3>1. pc = 0 /\ pc \notin Mapped
      BY <2>1, <2>3, GuestAssumption DEF BrindEntry, RInv, NullLines
    <3>2. GuestIp = pc /\ GuestIp' = ip /\ GuestStatus = "run" /\ GuestStatus' = "fault"
          /\ prog' = prog /\ ip \in IP
      BY <2>1, <2>3 DEF GuestIp, GuestStatus, prog, RInv, IInv, ControlInv, ControlTypeOK
    <3> QED
      BY <3>1, <3>2 DEF G!Next, G!Fault, G!IP, IP
  <2> QED
    BY <1>3, <2>2, <2>3 DEF BrindHit, cpu
<1>4. CASE BrindSlow
  <2>1. mode = "brind" /\ boot' = boot /\ ip' = pc
    BY <1>4 DEF BrindSlow
  <2>2. CASE Lookup(pc) # 0 /\ Enter(tb, Lookup(pc))
    <3>1. mode' = "code" /\ pc' = pc
      BY <1>0, <2>2, LookupFinds, EnterPc
    <3> QED
      BY <2>1, <3>1, EnterInvisible DEF GuestIp
  <2>3. CASE mode' = "execute"
    BY <2>1, <2>3 DEF Invisible, GuestIp, GuestStatus, prog
  <2> QED
    BY <1>4, <2>2, <2>3 DEF BrindSlow
<1> QED
  BY <1>1, <1>2, <1>3, <1>4 DEF StubStep

\* Traps that reach the ukernel.
LEMMA UkernelRefines == ASSUME RInv, UkernelStep PROVE G!Next \/ Invisible
<1>0. /\ mode = "ukernel" /\ GuestIp = ip /\ GuestStatus = "run" /\ ip \in IP
      /\ NextIp(ip) \in IP
  BY NextIpType DEF RInv, IInv, ControlInv, ControlTypeOK, UkernelStep, TrapEcall,
     TrapEbreak, TrapIll, GuestIp, GuestStatus
<1>1. CASE TrapEcall
  <2>1. /\ ip \in Mapped /\ prog[ip].op = "ecall" /\ ip' = NextIp(ip) /\ boot' = boot
        /\ mode' \in {"execute", "done", "panic"}
    BY <1>0, <1>1 DEF TrapEcall, RInv, IInv, ControlInv, TrapOk
  <2>2. /\ GuestIp' = NextIp(ip) /\ prog' = prog
        /\ GuestStatus' \in {"run", "exited", "panic"}
    BY <2>1 DEF GuestIp, GuestStatus, prog
  <2>3. G!Ecall \/ G!Panic
    BY <1>0, <2>1, <2>2 DEF G!Ecall, G!Panic, G!At, G!NextIp, NextIp, G!IP, IP
  <2> QED
    BY <2>3 DEF G!Next
<1>2. CASE TrapEbreak
  BY <1>2 DEF TrapEbreak, RInv
<1>3. CASE TrapIll
  <2>1. ip \in Mapped /\ prog[ip].op \in IllegalOps /\ UNCHANGED <<boot, ip>> /\ mode' = "done"
    BY <1>0, <1>3 DEF TrapIll, RInv, IInv, ControlInv, TrapOk, cpu
  <2>2. GuestIp' = ip /\ prog' = prog /\ GuestStatus' = "exited"
    BY <2>1 DEF GuestIp, GuestStatus, prog
  <2>3. G!Ill
    BY <1>0, <2>1, <2>2 DEF G!Ill, G!At, G!IllegalOps, IllegalOps
  <2> QED
    BY <2>3 DEF G!Next
<1> QED
  BY <1>1, <1>2, <1>3 DEF UkernelStep

\* Every step of the engine is a step of the guest machine or invisible to it.
LEMMA StepRefines == RInv /\ [Next]_vars => [G!Next]_(G!vars)
<1> SUFFICES ASSUME RInv, [Next]_vars PROVE G!Next \/ Invisible
  BY DEF Invisible, G!vars
<1>1. CASE Halted \/ UNCHANGED vars
  BY <1>1 DEF Halted, vars, cpu, place, Invisible, GuestIp, GuestStatus, prog
<1> QED
  BY <1>1, ExecuteRefines, CodeRefines, StubRefines, UkernelRefines DEF Next

\* Translation is invisible: for every program without ebreak, every AOT image
\* of it, every page size and every size of the caches and pools, the engine
\* executes the guest as the interpreter's instruction handlers do.
THEOREM Refinement == ASSUME NoEbreak PROVE Spec => RunsGuest
<1>1. Init => RInv
  <2>1. Init => trapno # "EBREAK" /\ NullLines
    BY DEF Init, NullLines, NoBrind
  <2> QED
    BY <2>1, InitOk DEF RInv
<1>2. RInv /\ [Next]_vars => RInv'
  BY StepOk, NullLinesStep, NoEbreakStep DEF RInv
<1> QED
  BY <1>1, <1>2, InitRefines, StepRefines, PTL DEF Spec, RunsGuest, G!Spec

=============================================================================
