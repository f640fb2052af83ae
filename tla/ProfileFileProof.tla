-------------------------- MODULE ProfileFileProof --------------------------
(***************************************************************************)
(* For any number of processes, runs, pages and blocks: the profile has one *)
(* writer, its checksum is stored before anyone reads it, it never loses a  *)
(* page or a mark, it holds what was recorded and nothing else, a page has  *)
(* one entry, and elfrun --aot boots from a finished image or from none.    *)
(*                                                                          *)
(* The invariant is built in layers, each on the ones before it: what the   *)
(* variables hold (TypeOK), who holds which lock at which step (LockInv),   *)
(* how the file comes into being (CreateInv), the entries of the file and   *)
(* the writer's index of them (PagesInv), the marks (MarksInv, ExactInv),   *)
(* and the image (ImageInv), which needs only the locks.                    *)
(***************************************************************************)
EXTENDS ProfileFile, WellFoundedInduction, TLAPS

-----------------------------------------------------------------------------
(* The invariant *)

Blocks == (UNION Sessions) \cup {ZeroBlock}

PageData == [pageno : Nat, executed : SUBSET Nat, brind_target : SUBSET Nat,
             segment_entry : SUBSET Nat]

\* What page2idx may be: entries by page number.
PageIndex == UNION {[G -> Nat] : G \in SUBSET Nat}

FileType == [exists : BOOLEAN, sized : BOOLEAN, csum : BOOLEAN, n_pages : Nat,
             pages : [Indices -> PageData]]

\* Where a process can be.
Places == Ended \cup
  {"open", "create", "lockex", "truncate", "lock", "stat", "csum", "n_pages", "announce",
   "boot", "guest", "page", "pageno", "executed", "brind_target", "segment_entry",
   "compile", "ld", "linking", "load", "open_so", "header", "symbols", "patch"}

\* The variables that are indexed by processes.
SlotsOK ==
  /\ flock \in [Procs -> {"none", "SH", "EX"}]
  /\ pc \in [Procs -> Places]
  /\ kind \in [Procs -> Kinds]
  /\ fmap \in [Procs -> {"none", "RDONLY", "RDWR"}]
  /\ page2idx \in [Procs -> PageIndex]
  /\ todo \in [Procs -> SUBSET Blocks]

TypeOK == file \in FileType /\ SlotsOK

Creating == {"lockex", "truncate"}

\* Before the process has a lock, and after it has gone.
Unlocked == Ended \cup {"open", "create", "lockex", "lock"}

\* What p holds at each of its steps.
LockOf(p) ==
  /\ fmap[p] = "RDWR" => flock[p] = "EX" /\ MayWrite(p)
  /\ fmap[p] = "RDONLY" => flock[p] = "SH" /\ ~MayWrite(p)
  /\ pc[p] \in Unlocked => flock[p] = "none" /\ fmap[p] = "none"
  /\ pc[p] \in {"create", "lockex", "truncate", "guest", "page"} => MayWrite(p)
  /\ pc[p] = "compile" => ~MayWrite(p)
  /\ pc[p] = "truncate" => flock[p] = "EX" /\ fmap[p] = "none"
  /\ pc[p] = "stat" => /\ flock[p] = IF MayWrite(p) THEN "EX" ELSE "SH"
                       /\ fmap[p] = "none"
  /\ pc[p] = "announce" => fmap[p] # "none"
  /\ pc[p] \in {"csum", "n_pages", "boot"} \/ Updating(p) => fmap[p] = "RDWR"
  /\ pc[p] \in {"ld"} \cup Linking => fmap[p] = "RDONLY"

LockInv ==
  /\ \A p \in Procs : LockOf(p)
  /\ \A p, q \in Procs : p # q /\ flock[p] = "EX" => flock[q] = "none"

\* The creator of the file is alone until it has stored the checksum.
CreateInv ==
  /\ ~file.exists => ~file.sized
  /\ ~file.sized => /\ ~file.csum /\ file.n_pages = 0
                    /\ \A q \in Procs : fmap[q] = "none"
  /\ \A p \in Procs : pc[p] \in Creating => file.exists /\ ~file.sized
  /\ \A p, q \in Procs : pc[p] \in Creating /\ pc[q] \in Creating => p = q
  /\ \A p \in Procs : pc[p] \in {"csum", "n_pages"} => file.sized /\ file.n_pages = 0
  /\ file.sized /\ ~file.csum => (\E p \in Procs : pc[p] = "csum") \/ "create" \in killed
  /\ ChecksumStored

\* Entry i is counted by n_pages and lies in the file.
InFile(i) == i \in Indices /\ i < file.n_pages

\* The index of a writer finds every entry of the file but the ones in New, and
\* it finds nothing else.
IndexExcept(p, New) ==
  /\ \A i \in Indices : InFile(i) /\ i \notin New =>
       \E g \in DOMAIN page2idx[p] : page2idx[p][g] \notin New /\ file.pages[i].pageno = g
  /\ \A g \in DOMAIN page2idx[p] :
       /\ InFile(page2idx[p][g])
       /\ page2idx[p][g] \notin New => file.pages[page2idx[p][g]].pageno = g

IndexOf(p) ==
  /\ pc[p] \in Ended \cup {"open", "create", "lockex", "truncate", "csum", "n_pages"} =>
       page2idx[p] = Empty
  /\ fmap[p] = "RDWR" /\ pc[p] \in {"boot", "guest", "page"} => IndexExcept(p, {})
  /\ Updating(p) => todo[p] # {} /\ FirstBlock(p).page \in DOMAIN page2idx[p]
  /\ pc[p] \in {"executed", "brind_target", "segment_entry"} => IndexExcept(p, {})
  /\ pc[p] = "pageno" =>
       /\ IndexExcept(p, {Entry(p)})
       /\ file.pages[Entry(p)] = NoData
       /\ \A g \in DOMAIN page2idx[p] : page2idx[p][g] = Entry(p) => g = FirstBlock(p).page

\* One entry per page, counted entries apart; what is not counted is untouched.
PagesInv ==
  /\ \A i \in Indices : i >= file.n_pages => file.pages[i] = NoData
  /\ OneEntryPerPage
  /\ \A p \in Procs : IndexOf(p)

\* The marks of the block at hand that p has set so far.
MarksOf(p) ==
  /\ pc[p] \in {"brind_target", "segment_entry"} =>
       FirstBlock(p).po \in file.pages[Entry(p)].executed
  /\ pc[p] = "segment_entry" /\ FirstBlock(p).brind =>
       FirstBlock(p).po \in file.pages[Entry(p)].brind_target

MarksInv ==
  /\ Durable
  /\ \A p \in Procs : MarksOf(p)

\* p is about to record a block of page offset po in entry i.
AtHand(p, i, po) ==
  /\ pc[p] \in {"brind_target", "segment_entry"}
  /\ i = Entry(p) /\ po = FirstBlock(p).po

\* A mark is that of a recorded block or of the block at hand.
MarksFrom(i) ==
  LET e == file.pages[i]
  IN  /\ \A po \in e.executed :
           \/ \E b \in recorded : b.page = e.pageno /\ b.po = po
           \/ \E p \in Procs : AtHand(p, i, po)
      /\ \A po \in e.brind_target :
           \/ \E b \in recorded : b.page = e.pageno /\ b.po = po /\ b.brind
           \/ \E p \in Procs : AtHand(p, i, po) /\ pc[p] = "segment_entry" /\ FirstBlock(p).brind
      /\ \A po \in e.segment_entry :
           \E b \in recorded : b.page = e.pageno /\ b.po = po /\ b.seg

ExactInv == "update" \notin killed => \A i \in Indices : MarksFrom(i)

\* p will finish the image of link t: it has yet to read the symbols, or it has
\* read those of t, and nothing that it wrote is lost.
Finishes(p, t) ==
  \/ pc[p] = "load"
  \/ /\ pc[p] \in {"open_so"} \cup Writing
     /\ out[p].of = t /\ ~out[p].gone
     /\ pc[p] \in {"symbols", "patch"} => <<"header", t>> \in image
     /\ pc[p] = "patch" => <<"symbols", t>> \in image

OneLink == \A t, u \in Linked : t = u

\* What ld has linked is finished, or someone will finish it.
Finished ==
  \A t \in Linked : Whole(t) \subseteq image \/ \E p \in Procs : Finishes(p, t)

\* Without a link the image is empty, and who has a descriptor writes elsewhere.
NothingLinked ==
  Linked = {} => \/ \E p \in Procs : pc[p] = "linking"
                 \/ image = {} /\ \A p \in Procs : pc[p] \in Writing => out[p].gone

\* An elfaot that links alone writes the table of its own link.
OneTable ==
  /\ \A p, q \in Procs : pc[p] \in Linking /\ pc[q] \in Linking => p = q
  /\ \A p \in Procs : pc[p] = "linking" => image = {}
  /\ \A p \in Procs : pc[p] \in {"open_so"} \cup Writing => out[p].of \in Linked
  /\ \A t \in Linked : image \subseteq Whole(t)

\* What a process may know of the image that it opened.
Outs == [of : Procs \cup {"none"}, gone : BOOLEAN]

ImageInv ==
  /\ out \in [Procs -> Outs]
  /\ OneLink
  /\ "link" \notin killed => Finished /\ NothingLinked /\ (~raced => OneTable)

Inv == TypeOK /\ LockInv /\ CreateInv /\ PagesInv /\ MarksInv /\ ExactInv /\ ImageInv

-----------------------------------------------------------------------------
(* The least elements that CHOOSE picks *)

\* A non-empty set of naturals has a least element.
LEMMA LeastNatural ==
  ASSUME NEW T, T \subseteq Nat, T # {}
  PROVE  \E x \in T : \A y \in T : x <= y
<1> DEFINE R == OpToRel(<, Nat)
<1>1. IsWellFoundedOn(R, Nat)
  BY NatLessThanWellFounded, Zenon
<1>2. \A a, b \in Nat : a < b => <<a, b>> \in R
  BY Zenon DEF OpToRel
<1> HIDE DEF R
<1>3. PICK x \in T : \A y \in T : ~(<<y, x>> \in R)
  BY <1>1, WFMin, Zenon
<1>4. ASSUME NEW y \in T PROVE x <= y
  <2>1. ~(y < x)
    BY <1>2, <1>3, Zenon
  <2> QED
    BY <2>1
<1> QED
  BY <1>4

\* The fields of a block, ZeroBlock included.
LEMMA BlockFields == \A b \in Blocks : b.page \in Nat /\ b.po \in Nat
  BY ProfileAssumption DEF Blocks, ZeroBlock

\* The walk over the tcache is at a block of the tcache.
LEMMA FirstBlockIn ==
  ASSUME NEW p \in Procs, todo[p] \in SUBSET Blocks, todo[p] # {}
  PROVE  /\ FirstBlock(p) \in todo[p]
         /\ FirstBlock(p).page \in Nat /\ FirstBlock(p).po \in Nat
<1> DEFINE S == todo[p]
           pages == {b.page : b \in S}
<1>1. \A b \in S : b.page \in Nat /\ b.po \in Nat
  BY BlockFields, Zenon
<1>2. PICK g \in pages : \A h \in pages : g <= h
  <2>1. pages \subseteq Nat /\ pages # {}
    BY <1>1, Zenon
  <2> HIDE DEF pages
  <2> QED
    BY <2>1, LeastNatural, Zenon
<1> DEFINE pos == {b.po : b \in {c \in S : c.page = g}}
<1>3. PICK o \in pos : \A q \in pos : o <= q
  <2>1. pos \subseteq Nat /\ pos # {}
    BY <1>1, <1>2, Zenon
  <2> HIDE DEF pos
  <2> QED
    BY <2>1, LeastNatural, Zenon
<1>4. PICK b \in S : b.page = g /\ b.po = o
  BY <1>3, Zenon
<1>5. ASSUME NEW c \in S
      PROVE  b.page < c.page \/ (b.page = c.page /\ b.po <= c.po)
  <2>1. g <= c.page
    BY <1>2, Zenon
  <2>2. c.page = g => o <= c.po
    BY <1>3, Zenon
  <2>3. g \in Nat /\ c.page \in Nat
    BY <1>1, <1>4, Zenon
  <2> QED
    BY <1>4, <2>1, <2>2, <2>3
<1>6. FirstBlock(p) \in S
  BY <1>5, Zenon DEF FirstBlock
<1> QED
  BY <1>1, <1>6, Zenon

\* FirstIdx is an entry of the page, in the file.
LEMMA FirstIdxIn ==
  ASSUME file.n_pages \in Nat, NEW i \in Announced
  PROVE  /\ FirstIdx(file.pages[i].pageno) \in Announced
         /\ file.pages[FirstIdx(file.pages[i].pageno)].pageno = file.pages[i].pageno
<1> DEFINE g == file.pages[i].pageno
           T == {j \in Announced : file.pages[j].pageno = g}
<1>1. PICK x \in T : \A y \in T : x <= y
  <2>1. T \subseteq Nat /\ T # {}
    BY DEF Announced
  <2> HIDE DEF T
  <2> QED
    BY <2>1, LeastNatural, Zenon
<1>2. ASSUME NEW j \in 0 .. x - 1 PROVE file.pages[j].pageno # g
  <2>1. j \in Announced /\ ~(x <= j)
    BY <1>1 DEF Announced
  <2> QED
    BY <1>1, <2>1, Zenon
<1>3. x \in Announced /\ file.pages[x].pageno = g
  BY <1>1, Zenon
<1> HIDE DEF g
<1>4. /\ FirstIdx(g) \in Announced /\ file.pages[FirstIdx(g)].pageno = g
  BY <1>2, <1>3, Zenon DEF FirstIdx
<1> QED
  BY <1>4, Zenon DEF g

-----------------------------------------------------------------------------
(* A step of p is a step of p alone *)

\* The slots of the other processes.
OnlyMoves(p) ==
  \A q \in Procs \ {p} :
    /\ pc'[q] = pc[q] /\ kind'[q] = kind[q] /\ flock'[q] = flock[q] /\ fmap'[q] = fmap[q]
    /\ page2idx'[q] = page2idx[q] /\ todo'[q] = todo[q]

Slots(p) == SlotsOK' /\ OnlyMoves(p)

\* std::unordered_map<u32, u32> page2idx{}
LEMMA EmptyIndex == Empty \in PageIndex
<1>1. Empty \in [{} -> Nat]
  BY Zenon DEF Empty
<1>2. {} \in SUBSET Nat
  BY Zenon
<1> QED
  BY <1>1, <1>2, Zenon DEF PageIndex

\* The index that Announce builds.
LEMMA AnnouncedIndex ==
  ASSUME file \in FileType, file.n_pages <= MAX_PAGES + 1
  PROVE  [g \in {file.pages[i].pageno : i \in Announced} |-> FirstIdx(g)] \in PageIndex
<1> DEFINE G == {file.pages[i].pageno : i \in Announced}
           idx == [g \in G |-> FirstIdx(g)]
<1>1. file.n_pages \in Nat /\ Announced \subseteq Indices /\ Announced \subseteq Nat
  BY ProfileAssumption DEF FileType, Announced, Indices
<1>2. G \in SUBSET Nat
  BY <1>1 DEF FileType, PageData
<1>3. \A g \in G : FirstIdx(g) \in Nat
  BY <1>1, FirstIdxIn, Zenon
<1> HIDE DEF G
<1>4. idx \in [G -> Nat]
  BY <1>3, Zenon
<1> HIDE DEF idx
<1>5. idx \in PageIndex
  BY <1>2, <1>4, Zenon DEF PageIndex
<1> QED
  BY <1>5, Zenon DEF idx, G

\* One lemma for each group of steps.
LEMMA OpenStepSlots ==
  ASSUME TypeOK, NEW p \in Procs, OpenStep(p)
  PROVE  Slots(p)
<1> USE EmptyIndex DEF Slots, TypeOK, SlotsOK, OnlyMoves, Goto, Lock
<1>1. CASE Open(p)
  BY <1>1 DEF Open, NoFile, mem, shared, Places
<1>2. CASE Create(p)
  BY <1>2 DEF Create, NoFile, mem, Places
<1>3. CASE LockCreated(p)
  BY <1>3 DEF LockCreated, mem, Places
<1>4. CASE Truncate(p)
  BY <1>4 DEF Truncate, Places
<1>5. CASE LockExisting(p)
  BY <1>5 DEF LockExisting, NoFile, mem, Places
<1>6. CASE StatExisting(p)
  BY <1>6 DEF StatExisting, NoFile, MapExisting, Places
<1> QED
  BY <1>1, <1>2, <1>3, <1>4, <1>5, <1>6, Zenon DEF OpenStep

\* What BootAOTFile does to the process, whatever it finds.
LEMMA BootIs ==
  ASSUME NEW p \in Procs, Boot(p)
  PROVE  /\ pc[p] = "boot" /\ file' = file /\ UNCHANGED ghost
         /\ \/ End(p, "null_image") \/ End(p, "fault")
            \/ /\ \E x \in {{}, {ZeroBlock}} : todo' = [todo EXCEPT ![p] = x]
               /\ Goto(p, "guest") /\ UNCHANGED <<flock, kind, fmap, page2idx>>
<1>1. \A t : \E x \in {{}, {ZeroBlock}} :
        x = IF <<"header", t>> \in image /\ <<"symbols", t>> \notin image THEN {ZeroBlock} ELSE {}
  BY Zenon
<1> QED
  BY <1>1, Zenon DEF Boot, At

\* The steps of objprof::Announce and BootAOTFile.
LEMMA AnnounceStepSlots ==
  ASSUME TypeOK, NEW p \in Procs, AnnounceStep(p)
  PROVE  Slots(p)
<1> USE EmptyIndex DEF Slots, TypeOK, SlotsOK, OnlyMoves, Goto, Lock
<1>1. CASE StoreChecksum(p)
  BY <1>1, Zenon DEF StoreChecksum, Continue, mem, Places
<1>2. CASE StoreNPages(p)
  BY <1>2, Zenon DEF StoreNPages, Continue, mem, Places
<1>3. CASE Announce(p)
  <2> DEFINE idx == [g \in {file.pages[i].pageno : i \in Announced} |-> FirstIdx(g)]
  <2>1. CASE End(p, "bad_checksum") \/ End(p, "fault")
    BY <2>1 DEF End, Places, Ended
  <2>2. CASE /\ file.n_pages <= MAX_PAGES + 1
             /\ page2idx' = [page2idx EXCEPT ![p] = idx]
             /\ \E l \in {"guest", "boot", "compile"} : Goto(p, l)
             /\ UNCHANGED <<flock, kind, fmap, todo>>
    <3>1. idx \in PageIndex
      BY <2>2, AnnouncedIndex, Zenon
    <3> HIDE DEF idx
    <3> QED
      BY <2>2, <3>1 DEF Places
  <2> HIDE DEF idx
  <2> QED
    BY <1>3, <2>1, <2>2, Zenon DEF Announce, idx
<1>4. CASE Boot(p)
  <2>1. CASE End(p, "null_image") \/ End(p, "fault")
    BY <2>1 DEF End, Places, Ended
  <2>2. CASE /\ \E x \in {{}, {ZeroBlock}} : todo' = [todo EXCEPT ![p] = x]
             /\ Goto(p, "guest") /\ UNCHANGED <<flock, kind, fmap, page2idx>>
    <3>1. PICK x \in {{}, {ZeroBlock}} : todo' = [todo EXCEPT ![p] = x]
      BY <2>2, Zenon
    <3>2. x \in SUBSET Blocks
      BY <3>1, Zenon DEF Blocks
    <3> QED
      BY <2>2, <3>1, <3>2 DEF Places
  <2> QED
    BY <1>4, <2>1, <2>2, BootIs, Zenon
<1> QED
  BY <1>1, <1>2, <1>3, <1>4, Zenon DEF AnnounceStep

\* The steps of objprof::UpdateProfile.
LEMMA UpdateStepSlots ==
  ASSUME TypeOK, NEW p \in Procs, UpdateStep(p)
  PROVE  Slots(p)
<1> USE EmptyIndex DEF Slots, TypeOK, SlotsOK, OnlyMoves, Goto, Lock
<1>1. CASE AllocatePageData(p)
  <2> DEFINE b == FirstBlock(p)
             f == page2idx[p]
             idx == [g \in DOMAIN f \cup {b.page} |-> IF g \in DOMAIN f THEN f[g] ELSE file.n_pages]
  <2>1. CASE End(p, "panic")
    BY <2>1, Zenon DEF End, Places, Ended
  <2>2. CASE /\ page2idx' = [page2idx EXCEPT ![p] = idx]
             /\ Goto(p, "pageno")
             /\ UNCHANGED <<flock, kind, fmap, todo>>
    <3>1. b.page \in Nat
      BY <1>1, FirstBlockIn, Zenon DEF AllocatePageData
    <3>2. file.n_pages \in Nat /\ f \in PageIndex
      BY Zenon DEF FileType
    <3> HIDE DEF b, f
    <3>3. PICK G \in SUBSET Nat : f \in [G -> Nat]
      BY <3>2, Zenon DEF PageIndex
    <3>4. G \cup {b.page} \in SUBSET Nat /\ idx \in [G \cup {b.page} -> Nat]
      BY <3>1, <3>2, <3>3, Zenon
    <3> HIDE DEF idx
    <3>5. idx \in PageIndex
      BY <3>4, Zenon DEF PageIndex
    <3> QED
      BY <2>2, <3>5, Zenon DEF Places
  <2> QED
    BY <1>1, <2>1, <2>2, Zenon DEF AllocatePageData
<1>2. CASE StorePageno(p)
  BY <1>2 DEF StorePageno, StoreEntry, Continue, mem, Places
<1>3. CASE FindPageData(p)
  BY <1>3, Zenon DEF FindPageData, Continue, mem, Places
<1>4. CASE SetExecuted(p)
  BY <1>4, Zenon DEF SetExecuted, StoreEntry, Continue, mem, Places
<1>5. CASE SetBrindTarget(p)
  BY <1>5, Zenon DEF SetBrindTarget, StoreEntry, Continue, mem, Places
<1>6. CASE SetSegmentEntry(p)
  BY <1>6, Zenon DEF SetSegmentEntry, Places
<1>7. CASE UpdateNull(p)
  BY <1>7 DEF UpdateNull, End, Places, Ended
<1>8. CASE UpdateDone(p)
  BY <1>8, Zenon DEF UpdateDone, End, Places, Ended
<1> QED
  BY <1>1, <1>2, <1>3, <1>4, <1>5, <1>6, <1>7, <1>8, Zenon DEF UpdateStep

\* The steps of elfaot.
LEMMA CompileStepSlots ==
  ASSUME TypeOK, NEW p \in Procs, CompileStep(p)
  PROVE  Slots(p)
<1> USE EmptyIndex DEF Slots, TypeOK, SlotsOK, OnlyMoves, Goto, Lock
<1>1. CASE Compile(p)
  BY <1>1 DEF Compile, Continue, End, mem, Places, Ended
<1>2. CASE LinkStart(p)
  BY <1>2, Zenon DEF LinkStart, Continue, mem, Places
<1>3. CASE LinkEnd(p)
  BY <1>3, Zenon DEF LinkEnd, Continue, mem, Places
<1>4. CASE LoadLinked(p)
  BY <1>4 DEF LoadLinked, Continue, End, mem, Places, Ended
<1>5. CASE WriteHeader(p)
  BY <1>5, Zenon DEF WriteHeader, WriteImage, Continue, mem, Places
<1>6. CASE WriteSymbols(p)
  BY <1>6, Zenon DEF WriteSymbols, WriteImage, Continue, mem, Places
<1>7. CASE PatchHeaders(p)
  BY <1>7 DEF PatchHeaders, End, Places, Ended
<1>8. CASE LinkFail(p)
  BY <1>8, Zenon DEF LinkFail, Continue, mem, Places
<1>9. CASE OpenImage(p)
  BY <1>9 DEF OpenImage, Continue, End, mem, Places, Ended
<1> QED
  BY <1>1, <1>2, <1>3, <1>4, <1>5, <1>6, <1>7, <1>8, <1>9, Zenon DEF CompileStep

\* A step of any kind.
LEMMA StepSlots ==
  ASSUME TypeOK, NEW p \in Procs, Start(p) \/ Step(p) \/ Kill(p)
  PROVE  Slots(p)
<1>1. CASE Start(p)
  BY <1>1 DEF Start, Slots, TypeOK, SlotsOK, OnlyMoves, Goto, shared, Places
<1>2. CASE RunGuest(p)
  BY <1>2 DEF RunGuest, Slots, TypeOK, SlotsOK, OnlyMoves, Goto, shared, Places, Blocks
<1>3. CASE Kill(p)
  BY <1>3, EmptyIndex
     DEF Kill, End, Lock, Slots, TypeOK, SlotsOK, OnlyMoves, Goto, Places, Ended
<1> QED
  BY <1>1, <1>2, <1>3, OpenStepSlots, AnnounceStepSlots, UpdateStepSlots, CompileStepSlots, Zenon
     DEF Step

-----------------------------------------------------------------------------
(* Locks *)

\* A lock is kept, dropped, or taken where no other lock conflicts with it.
LockTaken(p) ==
  flock'[p] = flock[p] \/ flock'[p] = "none" \/ Lockable(p, flock'[p])

\* Task_OpenCacheFile takes a lock only where it conflicts with no other.
LEMMA OpenStepLocks ==
  ASSUME TypeOK, NEW p \in Procs, LockOf(p), OpenStep(p)
  PROVE  LockOf(p)' /\ LockTaken(p)
<1> USE DEF TypeOK, SlotsOK, LockOf, LockTaken, MayWrite, Updating, Unlocked, Ended, Linking, Writing,
            Goto, At, Lock
<1>1. CASE Open(p)
  BY <1>1 DEF Open, NoFile, mem, shared
<1>2. CASE Create(p)
  BY <1>2 DEF Create, NoFile, mem
<1>3. CASE LockCreated(p)
  BY <1>3, Zenon DEF LockCreated, mem
<1>4. CASE Truncate(p)
  BY <1>4, Zenon DEF Truncate
<1>5. CASE LockExisting(p)
  BY <1>5 DEF LockExisting, NoFile, mem
<1>6. CASE StatExisting(p)
  BY <1>6 DEF StatExisting, NoFile, MapExisting
<1> QED
  BY <1>1, <1>2, <1>3, <1>4, <1>5, <1>6, Zenon DEF OpenStep

\* objprof::Announce and BootAOTFile take no lock.
LEMMA AnnounceStepLocks ==
  ASSUME TypeOK, NEW p \in Procs, LockOf(p), AnnounceStep(p)
  PROVE  LockOf(p)' /\ LockTaken(p)
<1> USE DEF TypeOK, SlotsOK, LockOf, LockTaken, MayWrite, Updating, Unlocked, Ended, Linking, Writing,
            Goto, At, Lock
<1>1. CASE StoreChecksum(p)
  BY <1>1 DEF StoreChecksum, Continue, mem
<1>2. CASE StoreNPages(p)
  BY <1>2 DEF StoreNPages, Continue, mem
<1>3. CASE Announce(p)
  BY <1>3 DEF Announce, End
<1>4. CASE Boot(p)
  <2>1. CASE End(p, "null_image") \/ End(p, "fault")
    BY <2>1 DEF End
  <2>2. CASE Goto(p, "guest") /\ UNCHANGED <<flock, kind, fmap>>
    <3>1. MayWrite(p)
      BY <1>4, BootIs, Zenon
    <3> QED
      BY <1>4, <2>2, <3>1, BootIs, Zenon
  <2> QED
    BY <1>4, <2>1, <2>2, BootIs, Zenon
<1> QED
  BY <1>1, <1>2, <1>3, <1>4, Zenon DEF AnnounceStep

\* objprof::UpdateProfile takes no lock.
LEMMA UpdateStepLocks ==
  ASSUME TypeOK, NEW p \in Procs, LockOf(p), UpdateStep(p)
  PROVE  LockOf(p)' /\ LockTaken(p)
<1> USE DEF TypeOK, SlotsOK, LockOf, LockTaken, MayWrite, Updating, Unlocked, Ended, Linking, Writing,
            Goto, At, Lock
<1>1. CASE AllocatePageData(p)
  BY <1>1 DEF AllocatePageData, End
<1>2. CASE StorePageno(p)
  BY <1>2, Zenon DEF StorePageno, StoreEntry, Continue, mem
<1>3. CASE FindPageData(p)
  BY <1>3, Zenon DEF FindPageData, Continue, mem
<1>4. CASE SetExecuted(p)
  BY <1>4, Zenon DEF SetExecuted, StoreEntry, Continue, mem
<1>5. CASE SetBrindTarget(p)
  BY <1>5, Zenon DEF SetBrindTarget, StoreEntry, Continue, mem
<1>6. CASE SetSegmentEntry(p)
  BY <1>6, Zenon DEF SetSegmentEntry
<1>7. CASE UpdateNull(p)
  BY <1>7, Zenon DEF UpdateNull, End
<1>8. CASE UpdateDone(p)
  BY <1>8, Zenon DEF UpdateDone, End
<1> QED
  BY <1>1, <1>2, <1>3, <1>4, <1>5, <1>6, <1>7, <1>8, Zenon DEF UpdateStep

\* elfaot takes no lock.
LEMMA CompileStepLocks ==
  ASSUME TypeOK, NEW p \in Procs, LockOf(p), CompileStep(p)
  PROVE  LockOf(p)' /\ LockTaken(p)
<1> USE DEF TypeOK, SlotsOK, LockOf, LockTaken, MayWrite, Updating, Unlocked, Ended, Linking, Writing,
            Goto, At, Lock
<1>1. CASE Compile(p)
  BY <1>1 DEF Compile, Continue, End, mem
<1>2. CASE LinkStart(p)
  BY <1>2, Zenon DEF LinkStart, Continue, mem
<1>3. CASE LinkEnd(p)
  BY <1>3, Zenon DEF LinkEnd, Continue, mem
<1>4. CASE LoadLinked(p)
  BY <1>4 DEF LoadLinked, Continue, End, mem
<1>5. CASE WriteHeader(p)
  BY <1>5, Zenon DEF WriteHeader, WriteImage, Continue, mem
<1>6. CASE WriteSymbols(p)
  BY <1>6, Zenon DEF WriteSymbols, WriteImage, Continue, mem
<1>7. CASE PatchHeaders(p)
  <2>1. pc[p] = "patch" /\ (End(p, "done") \/ End(p, "panic")) /\ file' = file /\ UNCHANGED ghost
    BY <1>7, Zenon DEF PatchHeaders, WriteImage
  <2>2. CASE End(p, "done")
    BY <2>1, <2>2, Zenon DEF End
  <2>3. CASE End(p, "panic")
    BY <2>1, <2>3, Zenon DEF End
  <2> QED
    BY <2>1, <2>2, <2>3, Zenon
<1>8. CASE LinkFail(p)
  BY <1>8, Zenon DEF LinkFail, Continue, mem
<1>9. CASE OpenImage(p)
  BY <1>9 DEF OpenImage, Continue, End, mem
<1> QED
  BY <1>1, <1>2, <1>3, <1>4, <1>5, <1>6, <1>7, <1>8, <1>9, Zenon DEF CompileStep

\* The locks after a step of any kind.
LEMMA LockStep ==
  ASSUME TypeOK, LockInv, NEW p \in Procs, Start(p) \/ Step(p) \/ Kill(p)
  PROVE  LockInv'
<1>1. LockOf(p)
  BY Zenon DEF LockInv
<1>2. LockOf(p)' /\ LockTaken(p)
  <2> USE DEF TypeOK, SlotsOK, LockOf, LockTaken, MayWrite, Updating, Unlocked, Ended, Linking, Writing,
              Goto, At, Lock
  <2>1. CASE Start(p)
    BY <1>1, <2>1, Zenon DEF Start, shared
  <2>2. CASE RunGuest(p)
    BY <1>1, <2>2, Zenon DEF RunGuest, shared
  <2>3. CASE Kill(p)
    BY <1>1, <2>3, Zenon DEF Kill, End
  <2> QED
    BY <1>1, <2>1, <2>2, <2>3, OpenStepLocks, AnnounceStepLocks, UpdateStepLocks,
       CompileStepLocks, Zenon DEF Step
<1>3. SlotsOK' /\ OnlyMoves(p)
  BY StepSlots, Zenon DEF Slots
<1>4. ASSUME NEW q \in Procs PROVE LockOf(q)'
  <2>1. CASE q = p
    BY <1>2, <2>1, Zenon
  <2>2. CASE q # p
    <3>1. LockOf(q)
      BY Zenon DEF LockInv
    <3> QED
      BY <1>3, <2>2, <3>1, Zenon DEF LockOf, OnlyMoves, MayWrite, Updating
  <2> QED
    BY <2>1, <2>2, Zenon
<1>5. ASSUME NEW q \in Procs, NEW r \in Procs, q # r, flock'[q] = "EX"
      PROVE  flock'[r] = "none"
  <2>1. CASE q = p
    BY <1>2, <1>3, <1>5, <2>1 DEF LockTaken, Lockable, OnlyMoves, LockInv
  <2>2. CASE r = p
    BY <1>2, <1>3, <1>5, <2>2 DEF LockTaken, Lockable, OnlyMoves, LockInv
  <2>3. CASE q # p /\ r # p
    BY <1>3, <1>5, <2>3 DEF OnlyMoves, LockInv
  <2> QED
    BY <2>1, <2>2, <2>3, Zenon
<1> QED
  BY <1>4, <1>5, Zenon DEF LockInv

\* A process with the exclusive lock is the only one at the file.
LEMMA LockedAlone ==
  ASSUME TypeOK, LockInv, NEW p \in Procs, flock[p] = "EX", NEW q \in Procs, q # p
  PROVE  /\ flock[q] = "none" /\ fmap[q] = "none" /\ ~Updating(q)
         /\ pc[q] \notin {"truncate", "stat", "csum", "n_pages", "announce", "boot", "ld"} \cup Linking
<1>1. LockOf(q) /\ flock[q] = "none"
  BY Zenon DEF LockInv
<1>2. fmap[q] = "none"
  BY <1>1, Zenon DEF LockOf, TypeOK, SlotsOK
<1> QED
  BY <1>1, <1>2, Zenon DEF LockOf

\* A process that has the profile mapped for writing holds that lock.
LEMMA WriterLocked ==
  ASSUME LockInv, NEW p \in Procs,
         fmap[p] = "RDWR" \/ Updating(p) \/ pc[p] \in {"truncate", "csum", "n_pages", "boot"}
  PROVE  flock[p] = "EX"
  BY Zenon DEF LockInv, LockOf

-----------------------------------------------------------------------------
(* The file *)

\* The block and the entry that an update is at.
LEMMA EntryIn ==
  ASSUME TypeOK, NEW p \in Procs, IndexOf(p), Updating(p)
  PROVE  /\ FirstBlock(p) \in todo[p]
         /\ FirstBlock(p).page \in Nat /\ FirstBlock(p).po \in Nat
         /\ Entry(p) \in Indices /\ Entry(p) < file.n_pages
         /\ file.pages[Entry(p)] \in PageData
<1>1. todo[p] # {} /\ FirstBlock(p).page \in DOMAIN page2idx[p]
  BY Zenon DEF IndexOf
<1>2. PICK New : IndexExcept(p, New)
  BY Zenon DEF IndexOf, Updating
<1>3. InFile(Entry(p))
  BY <1>1, <1>2, Zenon DEF IndexExcept, Entry
<1>4. Entry(p) \in Indices /\ Entry(p) < file.n_pages
  BY <1>3, Zenon DEF InFile
<1> QED
  BY <1>1, <1>4, FirstBlockIn, Zenon DEF TypeOK, SlotsOK, FileType

\* What a store of d to entry e does to the file.
Stored(e, d) ==
  /\ file'.exists = file.exists /\ file'.sized = file.sized /\ file'.csum = file.csum
  /\ file'.n_pages = file.n_pages
  /\ file'.pages = [file.pages EXCEPT ![e] = d]
  /\ file'.pages[e] = d
  /\ \A i \in Indices \ {e} : file'.pages[i] = file.pages[i]

\* A store to an entry of the file is one to that entry alone.
LEMMA StoreIn ==
  ASSUME file \in FileType, NEW e \in Indices, NEW d \in PageData,
         file' = [file EXCEPT !.pages[e] = d]
  PROVE  file' \in FileType /\ Stored(e, d)
<1>1. file'.pages = [file.pages EXCEPT ![e] = d] /\ file.pages \in [Indices -> PageData]
  BY Zenon DEF FileType
<1> QED
  BY <1>1, Zenon DEF FileType, Stored

\* The stores of an update, each to the entry of the block at hand.
StoresPageno(p) ==
  /\ pc[p] = "pageno" /\ pc'[p] = "executed"
  /\ Stored(Entry(p), [file.pages[Entry(p)] EXCEPT !.pageno = FirstBlock(p).page])
  /\ UNCHANGED recorded

StoresExecuted(p) ==
  /\ pc[p] = "executed" /\ pc'[p] = "brind_target"
  /\ Stored(Entry(p), [file.pages[Entry(p)] EXCEPT !.executed = @ \cup {FirstBlock(p).po}])
  /\ UNCHANGED recorded

StoresBrindTarget(p) ==
  /\ pc[p] = "brind_target" /\ pc'[p] = "segment_entry"
  /\ Stored(Entry(p), [file.pages[Entry(p)] EXCEPT !.brind_target =
                         Observed(@, FirstBlock(p).po, FirstBlock(p).brind)])
  /\ UNCHANGED recorded

StoresSegmentEntry(p) ==
  /\ pc[p] = "segment_entry" /\ pc'[p] = "page"
  /\ Stored(Entry(p), [file.pages[Entry(p)] EXCEPT !.segment_entry =
                         Observed(@, FirstBlock(p).po, FirstBlock(p).seg)])
  /\ recorded' = recorded \cup {FirstBlock(p)}

\* What the four of them share.
UpdateKept(p) ==
  /\ file' \in FileType
  /\ UNCHANGED <<so, flock, kind, fmap, page2idx, runs, killed>>

\* StorePageno is StoresPageno.
LEMMA StorePagenoIs ==
  ASSUME TypeOK, NEW p \in Procs, IndexOf(p), StorePageno(p)
  PROVE  StoresPageno(p) /\ UpdateKept(p) /\ UNCHANGED todo
<1>1. Updating(p) /\ pc[p] = "pageno"
  BY Zenon DEF StorePageno, At, Updating
<1> DEFINE e == Entry(p)
           d == [file.pages[Entry(p)] EXCEPT !.pageno = FirstBlock(p).page]
<1>2. e \in Indices /\ d \in PageData
  BY <1>1, EntryIn, Zenon DEF PageData
<1>3. /\ file' = [file EXCEPT !.pages[e] = d] /\ pc' = [pc EXCEPT ![p] = "executed"]
      /\ UNCHANGED <<so, flock, mem, ghost>>
  BY Zenon DEF StorePageno, StoreEntry, Continue, Goto
<1> HIDE DEF e, d
<1>4. file' \in FileType /\ Stored(e, d)
  BY <1>2, <1>3, StoreIn, Zenon DEF TypeOK
<1> QED
  BY <1>1, <1>3, <1>4, Zenon DEF e, d, StoresPageno, UpdateKept, mem, ghost, TypeOK, SlotsOK

\* SetExecuted is StoresExecuted.
LEMMA SetExecutedIs ==
  ASSUME TypeOK, NEW p \in Procs, IndexOf(p), SetExecuted(p)
  PROVE  StoresExecuted(p) /\ UpdateKept(p) /\ UNCHANGED todo
<1>1. Updating(p) /\ pc[p] = "executed"
  BY Zenon DEF SetExecuted, At, Updating
<1> DEFINE e == Entry(p)
           d == [file.pages[Entry(p)] EXCEPT !.executed = @ \cup {FirstBlock(p).po}]
<1>2. e \in Indices /\ d \in PageData
  BY <1>1, EntryIn, Zenon DEF PageData
<1>3. /\ file' = [file EXCEPT !.pages[e] = d] /\ pc' = [pc EXCEPT ![p] = "brind_target"]
      /\ UNCHANGED <<so, flock, mem, ghost>>
  BY Zenon DEF SetExecuted, StoreEntry, Continue, Goto
<1> HIDE DEF e, d
<1>4. file' \in FileType /\ Stored(e, d)
  BY <1>2, <1>3, StoreIn, Zenon DEF TypeOK
<1> QED
  BY <1>1, <1>3, <1>4, Zenon DEF e, d, StoresExecuted, UpdateKept, mem, ghost, TypeOK, SlotsOK

\* SetBrindTarget is StoresBrindTarget.
LEMMA SetBrindTargetIs ==
  ASSUME TypeOK, NEW p \in Procs, IndexOf(p), SetBrindTarget(p)
  PROVE  StoresBrindTarget(p) /\ UpdateKept(p) /\ UNCHANGED todo
<1>1. Updating(p) /\ pc[p] = "brind_target"
  BY Zenon DEF SetBrindTarget, At, Updating
<1> DEFINE e == Entry(p)
           b == FirstBlock(p)
           d == [file.pages[e] EXCEPT !.brind_target = Observed(@, b.po, b.brind)]
<1>2. e \in Indices /\ d \in PageData
  BY <1>1, EntryIn, Zenon DEF PageData, Observed
<1>3. /\ file' = [file EXCEPT !.pages[e] = d] /\ pc' = [pc EXCEPT ![p] = "segment_entry"]
      /\ UNCHANGED <<so, flock, mem, ghost>>
  BY Zenon DEF SetBrindTarget, StoreEntry, Continue, Goto
<1>4. d = [file.pages[Entry(p)] EXCEPT !.brind_target =
             Observed(@, FirstBlock(p).po, FirstBlock(p).brind)]
  BY Zenon
<1> HIDE DEF e, d, b
<1>5. file' \in FileType /\ Stored(e, d)
  BY <1>2, <1>3, StoreIn, Zenon DEF TypeOK
<1> QED
  BY <1>1, <1>3, <1>4, <1>5, Zenon DEF e, StoresBrindTarget, UpdateKept, mem, ghost, TypeOK, SlotsOK

\* SetSegmentEntry is StoresSegmentEntry; the block is done.
LEMMA SetSegmentEntryIs ==
  ASSUME TypeOK, NEW p \in Procs, IndexOf(p), SetSegmentEntry(p)
  PROVE  /\ StoresSegmentEntry(p) /\ UpdateKept(p)
         /\ todo' = [todo EXCEPT ![p] = @ \ {FirstBlock(p)}]
<1>1. Updating(p) /\ pc[p] = "segment_entry"
  BY Zenon DEF SetSegmentEntry, At, Updating
<1> DEFINE e == Entry(p)
           b == FirstBlock(p)
           bits == Observed(file.pages[e].segment_entry, b.po, b.seg)
           d == [file.pages[e] EXCEPT !.segment_entry = bits]
<1>2. e \in Indices /\ d \in PageData
  BY <1>1, EntryIn DEF PageData, Observed
<1>3. /\ file' = [file EXCEPT !.pages[e].segment_entry = Observed(@, b.po, b.seg)]
      /\ pc' = [pc EXCEPT ![p] = "page"] /\ recorded' = recorded \cup {b}
      /\ todo' = [todo EXCEPT ![p] = @ \ {b}]
      /\ UNCHANGED <<so, flock, kind, fmap, page2idx, runs, killed>>
  BY Zenon DEF SetSegmentEntry, Goto
<1>4. d = [file.pages[Entry(p)] EXCEPT !.segment_entry =
             Observed(@, FirstBlock(p).po, FirstBlock(p).seg)]
  BY Zenon
<1>5. file' = [file EXCEPT !.pages[e] = d]
  BY <1>3, Zenon
<1> HIDE DEF e, d, b, bits
<1>6. file' \in FileType /\ Stored(e, d)
  BY <1>2, <1>5, StoreIn, Zenon DEF TypeOK
<1> QED
  BY <1>1, <1>3, <1>4, <1>6, Zenon DEF e, b, StoresSegmentEntry, UpdateKept, TypeOK, SlotsOK

\* The entries and their number.
PagesKept ==
  file' \in FileType /\ file'.n_pages = file.n_pages /\ file'.pages = file.pages

SameFile ==
  /\ PagesKept
  /\ file'.exists = file.exists /\ file'.sized = file.sized /\ file'.csum = file.csum

\* open(O_CREAT) makes the file or fails.
LEMMA CreateIs ==
  ASSUME TypeOK, NEW p \in Procs, Create(p)
  PROVE  \/ SameFile /\ pc'[p] # "lockex"
         \/ /\ PagesKept /\ file'.exists /\ ~file.exists /\ pc'[p] = "lockex"
            /\ file'.sized = file.sized /\ file'.csum = file.csum
  BY Zenon DEF Create, NoFile, Goto, TypeOK, SlotsOK, FileType, SameFile, PagesKept

\* ftruncate() sizes the file.
LEMMA TruncateIs ==
  ASSUME TypeOK, NEW p \in Procs, Truncate(p)
  PROVE  /\ PagesKept /\ file'.sized
         /\ file'.exists = file.exists /\ file'.csum = file.csum
  BY Zenon DEF Truncate, TypeOK, FileType, PagesKept

\* The checksum is stored.
LEMMA StoreChecksumIs ==
  ASSUME TypeOK, NEW p \in Procs, StoreChecksum(p)
  PROVE  /\ PagesKept /\ file'.csum
         /\ file'.exists = file.exists /\ file'.sized = file.sized
  BY Zenon DEF StoreChecksum, TypeOK, FileType, PagesKept

\* The creator's n_pages = 0 changes nothing.
LEMMA StoreNPagesIs ==
  ASSUME TypeOK, NEW p \in Procs, StoreNPages(p), file.n_pages = 0
  PROVE  SameFile
  BY Zenon DEF StoreNPages, TypeOK, FileType, SameFile, PagesKept

\* Another entry is counted, and nothing is stored to it.
LEMMA AllocatePageDataIs ==
  ASSUME TypeOK, NEW p \in Procs, AllocatePageData(p)
  PROVE  /\ file' \in FileType /\ file'.n_pages = file.n_pages + 1 /\ file'.pages = file.pages
         /\ file'.exists = file.exists /\ file'.sized = file.sized /\ file'.csum = file.csum
  BY DEF AllocatePageData, TypeOK, FileType

-----------------------------------------------------------------------------
(* The creation of the file *)

\* p neither creates the file nor stores its checksum.
CreatesNothing(p) ==
  /\ pc'[p] \in Creating => pc[p] \in Creating
  /\ pc'[p] \notin {"csum", "n_pages"}
  /\ pc[p] = "csum" => "create" \in killed'
  /\ fmap'[p] # "none" => file.sized
  /\ pc'[p] = "bad_checksum" => "create" \in killed'
  /\ killed \subseteq killed'

\* Entries are counted only in a file that has its checksum and its n_pages.
HeadKept ==
  /\ file'.exists = file.exists /\ file'.sized = file.sized /\ file'.csum = file.csum
  /\ \/ file'.n_pages = file.n_pages
     \/ file.sized /\ \A q \in Procs : pc[q] \notin {"csum", "n_pages"}

\* Such steps keep what is known of the creation.
LEMMA CreationKept ==
  ASSUME TypeOK, CreateInv, NEW p \in Procs, OnlyMoves(p), HeadKept, CreatesNothing(p)
  PROVE  CreateInv'
<1>1. \A q \in Procs : q # p => pc'[q] = pc[q] /\ fmap'[q] = fmap[q]
  BY Zenon DEF OnlyMoves
<1>2. ~file'.exists => ~file'.sized
  BY Zenon DEF CreateInv, HeadKept
<1>3. ~file'.sized => /\ ~file'.csum /\ file'.n_pages = 0
                      /\ \A q \in Procs : fmap'[q] = "none"
  BY <1>1, Zenon DEF CreateInv, HeadKept, CreatesNothing
<1>4. \A q \in Procs : pc'[q] \in Creating => file'.exists /\ ~file'.sized
  BY <1>1, Zenon DEF CreateInv, HeadKept, CreatesNothing
<1>5. \A q, r \in Procs : pc'[q] \in Creating /\ pc'[r] \in Creating => q = r
  BY <1>1, Zenon DEF CreateInv, CreatesNothing
<1>6. \A q \in Procs : pc'[q] \in {"csum", "n_pages"} => file'.sized /\ file'.n_pages = 0
  BY <1>1, Zenon DEF CreateInv, HeadKept, CreatesNothing
<1>7. file'.sized /\ ~file'.csum => (\E q \in Procs : pc'[q] = "csum") \/ "create" \in killed'
  BY <1>1, Zenon DEF CreateInv, HeadKept, CreatesNothing
<1>8. ChecksumStored'
  BY <1>1, Zenon DEF CreateInv, ChecksumStored, CreatesNothing
<1> QED
  BY <1>2, <1>3, <1>4, <1>5, <1>6, <1>7, <1>8, Zenon DEF CreateInv

\* Of the steps that open the profile, these create nothing.
LEMMA OpeningCreatesNothing ==
  ASSUME TypeOK, CreateInv, NEW p \in Procs,
         Open(p) \/ LockCreated(p) \/ LockExisting(p) \/ StatExisting(p)
  PROVE  CreatesNothing(p)
<1> USE DEF TypeOK, SlotsOK, CreatesNothing, Creating, CreateInv, At, Goto, ghost
<1>1. CASE Open(p)
  BY <1>1 DEF Open, NoFile, mem
<1>2. CASE LockCreated(p)
  BY <1>2, Zenon DEF LockCreated, mem
<1>3. CASE LockExisting(p)
  BY <1>3 DEF LockExisting, NoFile, mem
<1>4. CASE StatExisting(p)
  BY <1>4 DEF StatExisting, NoFile, MapExisting
<1> QED
  BY <1>1, <1>2, <1>3, <1>4, Zenon

\* An update creates nothing.
LEMMA UpdatesCreatesNothing ==
  ASSUME TypeOK, CreateInv, NEW p \in Procs,
         UpdateStep(p)
  PROVE  CreatesNothing(p)
<1> USE DEF TypeOK, SlotsOK, CreatesNothing, Creating, CreateInv, At, Goto, ghost
<1>1. CASE AllocatePageData(p)
  BY <1>1 DEF AllocatePageData, End
<1>2. CASE StorePageno(p)
  BY <1>2, Zenon DEF StorePageno, StoreEntry, Continue, mem
<1>3. CASE FindPageData(p)
  BY <1>3, Zenon DEF FindPageData, Continue, mem
<1>4. CASE SetExecuted(p)
  BY <1>4, Zenon DEF SetExecuted, StoreEntry, Continue, mem
<1>5. CASE SetBrindTarget(p)
  BY <1>5 DEF SetBrindTarget, StoreEntry, Continue, mem
<1>6. CASE SetSegmentEntry(p)
  BY <1>6, Zenon DEF SetSegmentEntry
<1>7. CASE UpdateNull(p)
  BY <1>7, Zenon DEF UpdateNull, End
<1>8. CASE UpdateDone(p)
  BY <1>8, Zenon DEF UpdateDone, End
<1> QED
  BY <1>1, <1>2, <1>3, <1>4, <1>5, <1>6, <1>7, <1>8, Zenon DEF UpdateStep

\* elfaot creates nothing.
LEMMA CompilingCreatesNothing ==
  ASSUME TypeOK, CreateInv, NEW p \in Procs,
         CompileStep(p)
  PROVE  CreatesNothing(p)
<1> USE DEF TypeOK, SlotsOK, CreatesNothing, Creating, CreateInv, At, Goto, ghost
<1>1. CASE Compile(p)
  BY <1>1 DEF Compile, Continue, End, mem
<1>2. CASE LinkStart(p)
  BY <1>2, Zenon DEF LinkStart, Continue, mem
<1>3. CASE LinkEnd(p)
  BY <1>3, Zenon DEF LinkEnd, Continue, mem
<1>4. CASE LoadLinked(p)
  BY <1>4 DEF LoadLinked, Continue, End, mem
<1>5. CASE WriteHeader(p)
  BY <1>5, Zenon DEF WriteHeader, WriteImage, Continue, mem
<1>6. CASE WriteSymbols(p)
  BY <1>6, Zenon DEF WriteSymbols, WriteImage, Continue, mem
<1>7. CASE PatchHeaders(p)
  <2>1. pc[p] = "patch" /\ (End(p, "done") \/ End(p, "panic")) /\ file' = file /\ UNCHANGED ghost
    BY <1>7, Zenon DEF PatchHeaders, WriteImage
  <2>2. CASE End(p, "done")
    BY <2>1, <2>2, Zenon DEF End
  <2>3. CASE End(p, "panic")
    BY <2>1, <2>3, Zenon DEF End
  <2> QED
    BY <2>1, <2>2, <2>3, Zenon
<1>8. CASE LinkFail(p)
  BY <1>8, Zenon DEF LinkFail, Continue, mem
<1>9. CASE OpenImage(p)
  BY <1>9 DEF OpenImage, Continue, End, mem
<1> QED
  BY <1>1, <1>2, <1>3, <1>4, <1>5, <1>6, <1>7, <1>8, <1>9, Zenon DEF CompileStep

\* The steps that leave the file alone.
Quiet(p) ==
  \/ Start(p) \/ Open(p) \/ LockCreated(p) \/ LockExisting(p) \/ StatExisting(p)
  \/ Announce(p) \/ Boot(p) \/ RunGuest(p)
  \/ FindPageData(p) \/ UpdateNull(p) \/ UpdateDone(p)
  \/ CompileStep(p) \/ Kill(p)

\* They leave all of it alone.
LEMMA QuietFile ==
  ASSUME TypeOK, NEW p \in Procs, Quiet(p)
  PROVE  file' = file
<1>1. CASE CompileStep(p)
  BY <1>1, Zenon DEF CompileStep, Compile, LinkStart, LinkEnd, LinkFail, LoadLinked, OpenImage, WriteHeader, WriteSymbols,
     WriteImage, PatchHeaders
<1>2. CASE ~CompileStep(p)
  BY <1>2, Zenon DEF Quiet, Start, Open, LockCreated, LockExisting, StatExisting, Announce, Boot, RunGuest,
     FindPageData, UpdateNull, UpdateDone, Kill, shared
<1> QED
  BY <1>1, <1>2, Zenon

\* They create nothing: objprof::Announce meets no file without a checksum.
LEMMA QuietCreatesNothing ==
  ASSUME TypeOK, LockInv, CreateInv, NEW p \in Procs, Quiet(p)
  PROVE  CreatesNothing(p)
<1> USE DEF TypeOK, SlotsOK, CreatesNothing, Creating, CreateInv, At, Goto, ghost
<1>1. CASE Start(p)
  BY <1>1, Zenon DEF Start, Ended
<1>2. CASE Announce(p)
  <2>1. CASE End(p, "bad_checksum") /\ ~file.csum
    <3>1. fmap[p] # "none" /\ file.sized
      BY <1>2, Zenon DEF Announce, LockInv, LockOf
    <3>2. ASSUME NEW q \in Procs, pc[q] = "csum" PROVE FALSE
      <4>1. flock[q] = "EX" /\ q # p
        BY <1>2, <3>2, WriterLocked, Zenon DEF Announce
      <4> QED
        BY <3>1, <4>1, LockedAlone, Zenon
    <3>3. "create" \in killed
      BY <2>1, <3>1, <3>2, Zenon
    <3> QED
      BY <1>2, <2>1, <3>3, Zenon DEF Announce, End
  <2>2. CASE ~(End(p, "bad_checksum") /\ ~file.csum)
    BY <1>2, <2>2, Zenon DEF Announce, End
  <2> QED
    BY <2>1, <2>2, Zenon
<1>3. CASE Boot(p)
  <2>1. pc[p] = "boot" /\ file' = file /\ UNCHANGED ghost
    BY <1>3, BootIs, Zenon
  <2>2. CASE End(p, "null_image")
    BY <2>1, <2>2, Zenon DEF End
  <2>3. CASE End(p, "fault")
    BY <2>1, <2>3, Zenon DEF End
  <2>4. CASE Goto(p, "guest") /\ UNCHANGED fmap
    BY <2>1, <2>4, Zenon
  <2> QED
    BY <1>3, <2>2, <2>3, <2>4, BootIs, Zenon
<1>4. CASE RunGuest(p)
  BY <1>4, Zenon DEF RunGuest
<1>5. CASE Kill(p)
  BY <1>5, Zenon DEF Kill, End, CutShort
<1> QED
  BY <1>1, <1>2, <1>3, <1>4, <1>5, OpeningCreatesNothing, UpdatesCreatesNothing,
     CompilingCreatesNothing, Zenon DEF Quiet, UpdateStep

\* The creation of the file after a step of any kind.
LEMMA CreateStep ==
  ASSUME TypeOK, LockInv, CreateInv, NEW p \in Procs, IndexOf(p),
         Start(p) \/ Step(p) \/ Kill(p)
  PROVE  CreateInv' /\ file' \in FileType
<1>1. OnlyMoves(p) /\ SlotsOK'
  BY StepSlots, Zenon DEF Slots
<1>2. CASE Quiet(p)
  <2>1. HeadKept /\ file' \in FileType
    BY <1>2, QuietFile, Zenon DEF HeadKept, TypeOK
  <2> QED
    BY <1>1, <1>2, <2>1, QuietCreatesNothing, CreationKept, Zenon
<1>3. CASE UpdateStep(p)
  <2>1. CreatesNothing(p)
    BY <1>3, UpdatesCreatesNothing, Zenon
  <2>2. HeadKept /\ file' \in FileType
    <3>1. CASE AllocatePageData(p)
      <4>1. pc[p] = "page" /\ fmap[p] # "none"
        BY <3>1, Zenon DEF AllocatePageData, At
      <4>2. fmap[p] = "RDWR" /\ file.sized
        BY <4>1, Zenon DEF LockInv, LockOf, CreateInv, TypeOK, SlotsOK
      <4>3. \A q \in Procs : pc[q] \notin {"csum", "n_pages"}
        BY <4>1, <4>2, WriterLocked, LockedAlone, Zenon
      <4> QED
        BY <3>1, <4>2, <4>3, AllocatePageDataIs, Zenon DEF HeadKept
    <3>2. CASE StorePageno(p)
      BY <3>2, StorePagenoIs, Zenon DEF StoresPageno, Stored, UpdateKept, HeadKept
    <3>3. CASE SetExecuted(p)
      BY <3>3, SetExecutedIs, Zenon DEF StoresExecuted, Stored, UpdateKept, HeadKept
    <3>4. CASE SetBrindTarget(p)
      BY <3>4, SetBrindTargetIs, Zenon DEF StoresBrindTarget, Stored, UpdateKept, HeadKept
    <3>5. CASE SetSegmentEntry(p)
      BY <3>5, SetSegmentEntryIs, Zenon DEF StoresSegmentEntry, Stored, UpdateKept, HeadKept
    <3>6. CASE FindPageData(p) \/ UpdateNull(p) \/ UpdateDone(p)
      BY <3>6, QuietFile, Zenon DEF Quiet, HeadKept, TypeOK
    <3> QED
      BY <1>3, <3>1, <3>2, <3>3, <3>4, <3>5, <3>6, Zenon DEF UpdateStep
  <2> QED
    BY <1>1, <2>1, <2>2, CreationKept, Zenon
<1>4. CASE StoreNPages(p)
  <2>1. pc[p] = "n_pages" /\ file.n_pages = 0 /\ file.sized
    BY <1>4, Zenon DEF StoreNPages, At, CreateInv
  <2>2. HeadKept /\ file' \in FileType
    BY <1>4, <2>1, StoreNPagesIs, Zenon DEF SameFile, PagesKept, HeadKept
  <2>3. CreatesNothing(p)
    BY <1>4, <2>1, Zenon DEF StoreNPages, Continue, Goto, mem, ghost, CreatesNothing, Creating, TypeOK,
       SlotsOK
  <2> QED
    BY <1>1, <2>2, <2>3, CreationKept, Zenon
<1>5. CASE Create(p)
  <2>1. /\ pc[p] = "create" /\ fmap' = fmap /\ killed' = killed
    BY <1>5, Zenon DEF Create, At, mem, ghost
  <2>2. CASE SameFile /\ pc'[p] # "lockex"
    <3>1. CreatesNothing(p)
      BY <1>5, <2>1, <2>2
         DEF Create, NoFile, Goto, CreatesNothing, Creating, TypeOK, SlotsOK, CreateInv
    <3>2. HeadKept /\ file' \in FileType
      BY <2>2, Zenon DEF SameFile, PagesKept, HeadKept
    <3> QED
      BY <1>1, <3>1, <3>2, CreationKept, Zenon
  <2>3. CASE /\ PagesKept /\ file'.exists /\ ~file.exists /\ pc'[p] = "lockex"
             /\ file'.sized = file.sized /\ file'.csum = file.csum
    <3>1. /\ ~file'.sized /\ ~file'.csum /\ file'.n_pages = 0
          /\ \A q \in Procs : fmap'[q] = "none"
          /\ \A q \in Procs : pc[q] \notin Creating /\ pc[q] \notin {"csum", "n_pages"}
      BY <2>1, <2>3, Zenon DEF CreateInv, PagesKept
    <3>2. \A q \in Procs : q # p => pc'[q] = pc[q]
      BY <1>1, Zenon DEF OnlyMoves
    <3>3. ChecksumStored'
      BY <2>1, <2>3, <3>2, Zenon DEF ChecksumStored, CreateInv
    <3>4. \A q, r \in Procs : pc'[q] \in Creating /\ pc'[r] \in Creating => q = r
      BY <3>1, <3>2, Zenon
    <3>5. \A q \in Procs : pc'[q] \notin {"csum", "n_pages"}
      BY <2>3, <3>1, <3>2, Zenon
    <3> QED
      BY <2>3, <3>1, <3>3, <3>4, <3>5, Zenon DEF CreateInv, PagesKept
  <2> QED
    BY <1>5, <2>2, <2>3, CreateIs, Zenon
<1>6. CASE Truncate(p)
  <2>1. /\ pc[p] = "truncate" /\ pc'[p] = "csum" /\ killed' = killed
    BY <1>6, Zenon DEF Truncate, At, Goto, ghost, TypeOK, SlotsOK
  <2>2. PagesKept /\ file'.sized /\ file'.exists = file.exists /\ file'.csum = file.csum
    BY <1>6, TruncateIs, Zenon
  <2>3. file.exists /\ file.n_pages = 0 /\ \A q \in Procs : q # p => pc[q] \notin Creating
    BY <2>1, Zenon DEF CreateInv, Creating
  <2>4. \A q \in Procs : q # p => pc'[q] = pc[q]
    BY <1>1, Zenon DEF OnlyMoves
  <2>5. ChecksumStored'
    BY <2>1, <2>4, Zenon DEF ChecksumStored, CreateInv
  <2>6. \A q \in Procs : pc'[q] \notin Creating
    BY <2>1, <2>3, <2>4, Zenon DEF Creating
  <2> QED
    BY <2>1, <2>2, <2>3, <2>5, <2>6, Zenon DEF CreateInv, PagesKept
<1>7. CASE StoreChecksum(p)
  <2>1. /\ pc[p] = "csum" /\ pc'[p] = "n_pages" /\ killed' = killed
    BY <1>7, Zenon DEF StoreChecksum, Continue, At, Goto, ghost, TypeOK, SlotsOK
  <2>2. PagesKept /\ file'.csum /\ file'.exists = file.exists /\ file'.sized = file.sized
    BY <1>7, StoreChecksumIs, Zenon
  <2>3. file.sized /\ file.exists /\ file.n_pages = 0
    BY <2>1, Zenon DEF CreateInv
  <2>4. \A q \in Procs : q # p => pc'[q] = pc[q]
    BY <1>1, Zenon DEF OnlyMoves
  <2>5. ChecksumStored'
    BY <2>1, <2>4, Zenon DEF ChecksumStored, CreateInv
  <2>6. \A q \in Procs : pc'[q] \notin Creating
    BY <2>1, <2>3, <2>4, Zenon DEF CreateInv, Creating
  <2> QED
    BY <2>2, <2>3, <2>5, <2>6, Zenon DEF CreateInv, PagesKept
<1> QED
  BY <1>2, <1>3, <1>4, <1>5, <1>6, <1>7, Zenon DEF Quiet, Step, OpenStep, AnnounceStep

-----------------------------------------------------------------------------
(* The entries and the writer's index *)

\* FirstBlock and Entry depend on the tcache and on the index alone.
LEMMA SameEntry ==
  ASSUME NEW q \in Procs, todo'[q] = todo[q]
  PROVE  /\ FirstBlock(q)' = FirstBlock(q)
         /\ page2idx'[q] = page2idx[q] => Entry(q)' = Entry(q)
<1>1. FirstBlock(q)' = FirstBlock(q)
  BY Zenon DEF FirstBlock
<1> QED
  BY <1>1, Zenon DEF Entry

\* An index stays what it is as long as neither it nor the entries change.
LEMMA IndexKept ==
  ASSUME NEW q \in Procs, IndexOf(q), PagesKept,
         pc'[q] = pc[q], fmap'[q] = fmap[q], page2idx'[q] = page2idx[q], todo'[q] = todo[q]
  PROVE  IndexOf(q)'
<1>1. FirstBlock(q)' = FirstBlock(q) /\ Entry(q)' = Entry(q)
  BY SameEntry, Zenon
<1>2. IndexExcept(q, {}) => IndexExcept(q, {})'
  BY DEF IndexExcept, InFile, PagesKept
<1>3. IndexExcept(q, {Entry(q)}) => IndexExcept(q, {Entry(q)})'
  BY <1>1, Zenon DEF IndexExcept, InFile, PagesKept
<1>4. Updating(q)' = Updating(q)
  BY Zenon DEF Updating
<1>5. file'.pages[Entry(q)'] = file.pages[Entry(q)]
  BY <1>1, Zenon DEF PagesKept
<1> QED
  BY <1>1, <1>2, <1>3, <1>4, <1>5, Zenon DEF IndexOf

\* A process that has nothing mapped has no index to keep.
LEMMA IndexIdle ==
  ASSUME NEW q \in Procs, IndexOf(q), fmap[q] = "none", ~Updating(q), pc[q] # "boot",
         pc'[q] = pc[q], fmap'[q] = fmap[q], page2idx'[q] = page2idx[q]
  PROVE  IndexOf(q)'
<1>1. ~Updating(q)'
  BY Zenon DEF Updating
<1>2. pc'[q] \notin {"pageno", "executed", "brind_target", "segment_entry"}
  BY Zenon DEF Updating
<1> QED
  BY <1>1, <1>2, Zenon DEF IndexOf

\* The index of a file that counts no entries.
LEMMA EmptyIndexOk ==
  ASSUME NEW p \in Procs, file' \in FileType, file'.n_pages = 0, page2idx'[p] = Empty
  PROVE  IndexExcept(p, {})'
<1>1. \A i \in Indices : ~(i < file'.n_pages)
  BY ProfileAssumption DEF Indices
<1>2. DOMAIN page2idx'[p] = {}
  BY Zenon DEF Empty
<1> QED
  BY <1>1, <1>2, Zenon DEF IndexExcept, InFile

\* The index that objprof::Announce builds is that of the file.
LEMMA AnnouncedIndexOk ==
  ASSUME TypeOK, NEW p \in Procs, file' = file, file.n_pages <= MAX_PAGES + 1,
         page2idx' = [page2idx EXCEPT ![p] =
             [g \in {file.pages[i].pageno : i \in Announced} |-> FirstIdx(g)]]
  PROVE  IndexExcept(p, {})'
<1> DEFINE G == {file.pages[i].pageno : i \in Announced}
           idx == [g \in G |-> FirstIdx(g)]
<1>1. file.n_pages \in Nat /\ \A i : i \in Announced <=> InFile(i)
  BY ProfileAssumption DEF TypeOK, FileType, Announced, Indices, InFile
<1>2. page2idx'[p] = idx
  BY Zenon DEF TypeOK, SlotsOK
<1>3. ASSUME NEW g \in G PROVE InFile(FirstIdx(g)) /\ file.pages[FirstIdx(g)].pageno = g
  <2>1. PICK i \in Announced : g = file.pages[i].pageno
    BY Zenon
  <2> QED
    BY <1>1, <2>1, FirstIdxIn, Zenon
<1>4. \A i \in Indices : InFile(i) => file.pages[i].pageno \in G
  BY <1>1, Zenon
<1>5. DOMAIN idx = G /\ \A g \in G : idx[g] = FirstIdx(g)
  BY Zenon
<1> HIDE DEF idx, G
<1>6. /\ \A i \in Indices : InFile(i) => \E g \in DOMAIN idx : file.pages[i].pageno = g
      /\ \A g \in DOMAIN idx : InFile(idx[g]) /\ file.pages[idx[g]].pageno = g
  BY <1>3, <1>4, <1>5, Zenon
<1>7. \A i : InFile(i)' <=> InFile(i)
  BY Zenon DEF InFile
<1> QED
  BY <1>2, <1>6, <1>7, Zenon DEF IndexExcept

\* A process that is not at an update needs no more than this.
LEMMA IndexNotUpdating ==
  ASSUME NEW p \in Procs, ~Updating(p)',
         pc'[p] \in Ended \cup {"open", "create", "lockex", "truncate", "csum", "n_pages"} =>
           page2idx'[p] = Empty,
         fmap'[p] = "RDWR" /\ pc'[p] \in {"boot", "guest", "page"} => IndexExcept(p, {})'
  PROVE  IndexOf(p)'
<1>1. pc'[p] \notin {"pageno", "executed", "brind_target", "segment_entry"}
  BY Zenon DEF Updating
<1> QED
  BY <1>1, Zenon DEF IndexOf

\* The index goes with the process.
LEMMA IndexEnded ==
  ASSUME TypeOK, NEW p \in Procs, NEW l \in Ended, End(p, l)
  PROVE  IndexOf(p)'
<1>1. pc'[p] = l /\ page2idx'[p] = Empty
  BY Zenon DEF End, Goto, TypeOK, SlotsOK
<1>2. ~Updating(p)' /\ pc'[p] \notin {"boot", "guest", "page"}
  BY <1>1, Zenon DEF Updating, Ended
<1> QED
  BY <1>1, <1>2, IndexNotUpdating, Zenon

\* Neither the index nor the entries change.
LEMMA IndexExceptKept ==
  ASSUME NEW p \in Procs, IndexExcept(p, {}), PagesKept, page2idx'[p] = page2idx[p]
  PROVE  IndexExcept(p, {})'
  BY DEF IndexExcept, InFile, PagesKept

\* The index of a process that starts and opens the profile.
LEMMA OpeningIndex ==
  ASSUME TypeOK, LockInv, NEW p \in Procs, IndexOf(p),
         Start(p) \/ Open(p) \/ Create(p) \/ LockCreated(p) \/ Truncate(p) \/ LockExisting(p)
           \/ StatExisting(p) \/ StoreChecksum(p)
  PROVE  IndexOf(p)'
<1>1. page2idx' = page2idx
  BY Zenon DEF Start, Open, Create, LockCreated, Truncate, LockExisting, StatExisting, StoreChecksum,
     Continue, mem
<1>2. ~Updating(p)'
  BY DEF Start, Open, Create, LockCreated, Truncate, LockExisting, StatExisting, StoreChecksum,
     Continue, NoFile, MapExisting, Goto, Updating, TypeOK, SlotsOK
<1>3. pc'[p] \in {"boot", "guest", "page"} => fmap'[p] = "none"
  <2> USE DEF LockInv, LockOf, Unlocked, TypeOK, SlotsOK, At, Goto
  <2>1. CASE Open(p) \/ Create(p) \/ LockExisting(p)
    BY <2>1, Zenon DEF Open, Create, LockExisting, NoFile, mem
  <2>2. CASE StatExisting(p)
    BY <2>2 DEF StatExisting, NoFile, MapExisting
  <2> QED
    BY <2>1, <2>2 DEF Start, LockCreated, Truncate, StoreChecksum, Continue
<1>4. pc'[p] \in Ended \cup {"open", "create", "lockex", "truncate", "csum", "n_pages"} =>
        pc[p] \in Ended \cup {"open", "create", "lockex", "truncate", "csum", "n_pages"}
  BY DEF Start, Open, Create, LockCreated, Truncate, LockExisting, StatExisting, StoreChecksum,
     Continue, NoFile, MapExisting, Goto, At, Ended, TypeOK, SlotsOK
<1>5. pc'[p] \in Ended \cup {"open", "create", "lockex", "truncate", "csum", "n_pages"} =>
        page2idx'[p] = Empty
  BY <1>1, <1>4, Zenon DEF IndexOf
<1> QED
  BY <1>2, <1>3, <1>5, IndexNotUpdating, Zenon

\* The index of a process that announces the profile, boots and runs its guest.
LEMMA AnnouncingIndex ==
  ASSUME TypeOK, LockInv, CreateInv, NEW p \in Procs, IndexOf(p),
         StoreNPages(p) \/ Announce(p) \/ Boot(p) \/ RunGuest(p)
  PROVE  IndexOf(p)'
<1>1. CASE StoreNPages(p)
  <2>1. pc[p] = "n_pages" /\ pc'[p] = "guest" /\ page2idx' = page2idx
    BY <1>1, Zenon DEF StoreNPages, Continue, At, Goto, mem, TypeOK, SlotsOK
  <2>2. file.n_pages = 0 /\ page2idx'[p] = Empty
    BY <2>1, Zenon DEF CreateInv, IndexOf
  <2>3. file' \in FileType /\ file'.n_pages = 0
    BY <1>1, <2>2, StoreNPagesIs, Zenon DEF SameFile, PagesKept
  <2>4. IndexExcept(p, {})'
    BY <2>2, <2>3, EmptyIndexOk, Zenon
  <2> QED
    BY <2>1, <2>4, IndexNotUpdating, Zenon DEF Updating, Ended
<1>2. CASE Announce(p)
  <2>1. CASE End(p, "bad_checksum") \/ End(p, "fault")
    BY <2>1, IndexEnded, Zenon DEF Ended
  <2>2. CASE /\ file.n_pages <= MAX_PAGES + 1
             /\ page2idx' = [page2idx EXCEPT ![p] =
                  [g \in {file.pages[i].pageno : i \in Announced} |-> FirstIdx(g)]]
             /\ Goto(p, "guest") \/ Goto(p, "boot") \/ Goto(p, "compile")
             /\ file' = file
    <3>1. IndexExcept(p, {})'
      BY <2>2, AnnouncedIndexOk, Zenon
    <3>2. pc'[p] \in {"guest", "boot", "compile"}
      BY <2>2, Zenon DEF Goto, TypeOK, SlotsOK
    <3> QED
      BY <3>1, <3>2, IndexNotUpdating, Zenon DEF Updating, Ended
  <2> QED
    BY <1>2, <2>1, <2>2, Zenon DEF Announce
<1>3. CASE Boot(p)
  <2>1. CASE End(p, "null_image") \/ End(p, "fault")
    BY <2>1, IndexEnded, Zenon DEF Ended
  <2>2. CASE Goto(p, "guest") /\ UNCHANGED <<flock, kind, fmap, page2idx>>
    <3>1. pc[p] = "boot" /\ pc'[p] = "guest" /\ fmap[p] = "RDWR" /\ PagesKept
      BY <1>3, <2>2, Zenon DEF Boot, At, Goto, TypeOK, SlotsOK, LockInv, LockOf, PagesKept
    <3>2. IndexExcept(p, {})'
      BY <2>2, <3>1, IndexExceptKept, Zenon DEF IndexOf
    <3> QED
      BY <3>1, <3>2, IndexNotUpdating, Zenon DEF Updating, Ended
  <2> QED
    BY <1>3, <2>1, <2>2, Zenon DEF Boot
<1>4. CASE RunGuest(p)
  <2>1. /\ pc[p] = "guest" /\ pc'[p] = "page" /\ fmap' = fmap /\ page2idx' = page2idx
        /\ PagesKept
    BY <1>4, Zenon DEF RunGuest, At, Goto, TypeOK, SlotsOK, shared, PagesKept
  <2>2. fmap'[p] = "RDWR" => IndexExcept(p, {})'
    BY <2>1, IndexExceptKept, Zenon DEF IndexOf
  <2> QED
    BY <2>1, <2>2, IndexNotUpdating, Zenon DEF Updating, Ended
<1> QED
  BY <1>1, <1>2, <1>3, <1>4, Zenon

\* The index of a process that compiles, or that is killed.
LEMMA CompilingIndex ==
  ASSUME TypeOK, NEW p \in Procs, CompileStep(p) \/ Kill(p)
  PROVE  IndexOf(p)'
<1>1. CASE Kill(p)
  BY <1>1, IndexEnded, Zenon DEF Kill, Ended
<1>2. CASE CompileStep(p)
  <2>1. \/ End(p, "done") \/ End(p, "panic") \/ End(p, "assert") \/ End(p, "fault")
        \/ \E l \in {"ld", "linking", "load", "open_so", "header", "symbols", "patch"} : Goto(p, l)
    BY <1>2, Zenon DEF CompileStep, Compile, LinkStart, LinkEnd, LinkFail, LoadLinked, OpenImage, WriteHeader, WriteSymbols,
       WriteImage, PatchHeaders, Continue
  <2>2. CASE \E l \in {"ld", "linking", "load", "open_so", "header", "symbols", "patch"} : Goto(p, l)
    <3>1. pc'[p] \in {"ld", "linking", "load", "open_so", "header", "symbols", "patch"}
      BY <2>2, Zenon DEF Goto, TypeOK, SlotsOK
    <3> QED
      BY <3>1, IndexNotUpdating, Zenon DEF Updating, Ended
  <2> QED
    BY <2>1, <2>2, IndexEnded, Zenon DEF Ended
<1> QED
  BY <1>1, <1>2, Zenon

\* The page numbers of the entries, and how many count, stay.
PagenosKept ==
  /\ file'.n_pages = file.n_pages
  /\ \A i \in Indices : file'.pages[i].pageno = file.pages[i].pageno

\* A mark is stored to the entry of the block at hand and to no page number.
LEMMA MarkKeepsPagenos ==
  ASSUME TypeOK, NEW p \in Procs, IndexOf(p), Updating(p),
         StoresExecuted(p) \/ StoresBrindTarget(p) \/ StoresSegmentEntry(p)
  PROVE  /\ PagenosKept
         /\ \A i \in Indices : i # Entry(p) => file'.pages[i] = file.pages[i]
         /\ Entry(p) \in Indices /\ Entry(p) < file.n_pages
<1>1. Entry(p) \in Indices /\ Entry(p) < file.n_pages /\ file.pages[Entry(p)] \in PageData
  BY EntryIn, Zenon
<1>2. PICK d : Stored(Entry(p), d) /\ d.pageno = file.pages[Entry(p)].pageno
  <2>1. CASE StoresExecuted(p)
    BY <1>1, <2>1 DEF StoresExecuted, PageData
  <2>2. CASE StoresBrindTarget(p)
    BY <1>1, <2>2 DEF StoresBrindTarget, PageData
  <2>3. CASE StoresSegmentEntry(p)
    BY <1>1, <2>3 DEF StoresSegmentEntry, PageData
  <2> QED
    BY <2>1, <2>2, <2>3, Zenon
<1>3. /\ file'.n_pages = file.n_pages /\ file'.pages[Entry(p)] = d
      /\ \A i \in Indices \ {Entry(p)} : file'.pages[i] = file.pages[i]
  BY <1>2, Zenon DEF Stored
<1> QED
  BY <1>1, <1>2, <1>3, Zenon DEF PagenosKept

\* An index depends on the page numbers alone.
LEMMA IndexByPagenos ==
  ASSUME NEW p \in Procs, IndexExcept(p, {}), PagenosKept, page2idx'[p] = page2idx[p]
  PROVE  IndexExcept(p, {})'
<1>1. \A i : InFile(i)' <=> InFile(i)
  BY Zenon DEF InFile, PagenosKept
<1>2. \A i \in Indices : file'.pages[i].pageno = file.pages[i].pageno
  BY Zenon DEF PagenosKept
<1>3. \A g \in DOMAIN page2idx[p] : page2idx[p][g] \in Indices
  BY Zenon DEF IndexExcept, InFile
<1> QED
  BY <1>1, <1>2, <1>3, Zenon DEF IndexExcept

\* The index when a mark was set.
LEMMA MarkingIndex ==
  ASSUME TypeOK, NEW p \in Procs, IndexOf(p),
         SetExecuted(p) \/ SetBrindTarget(p) \/ SetSegmentEntry(p)
  PROVE  /\ IndexOf(p)' /\ PagenosKept
         /\ \A i \in Indices : i # Entry(p) => file'.pages[i] = file.pages[i]
         /\ Entry(p) \in Indices /\ Entry(p) < file.n_pages
<1>1. /\ StoresExecuted(p) \/ StoresBrindTarget(p) \/ StoresSegmentEntry(p)
      /\ page2idx' = page2idx
      /\ StoresSegmentEntry(p) \/ todo' = todo
  BY SetExecutedIs, SetBrindTargetIs, SetSegmentEntryIs, Zenon DEF UpdateKept
<1>2. /\ pc[p] \in {"executed", "brind_target", "segment_entry"}
      /\ pc'[p] \in {"brind_target", "segment_entry", "page"}
      /\ pc'[p] \in {"brind_target", "segment_entry"} => todo' = todo
  BY <1>1, Zenon DEF StoresExecuted, StoresBrindTarget, StoresSegmentEntry
<1>3. Updating(p) /\ IndexExcept(p, {})
  BY <1>2, Zenon DEF Updating, IndexOf
<1>4. /\ PagenosKept /\ Entry(p) \in Indices /\ Entry(p) < file.n_pages
      /\ \A i \in Indices : i # Entry(p) => file'.pages[i] = file.pages[i]
  BY <1>1, <1>3, MarkKeepsPagenos, Zenon
<1>5. IndexExcept(p, {})'
  BY <1>1, <1>3, <1>4, IndexByPagenos, Zenon
<1>6. pc'[p] \in {"brind_target", "segment_entry"} =>
        todo'[p] # {} /\ FirstBlock(p)'.page \in DOMAIN page2idx'[p]
  BY <1>1, <1>2, <1>3, SameEntry, Zenon DEF IndexOf
<1>7. IndexOf(p)'
  BY <1>2, <1>5, <1>6, Zenon DEF IndexOf, Updating, Ended
<1> QED
  BY <1>4, <1>7, Zenon

\* The index when the page's number was stored: it finds the new entry too.
LEMMA PagenoIndex ==
  ASSUME TypeOK, NEW p \in Procs, IndexOf(p), StorePageno(p)
  PROVE  IndexOf(p)'
<1> DEFINE e == Entry(p)
           h == FirstBlock(p).page
<1>1. StoresPageno(p) /\ UpdateKept(p) /\ UNCHANGED todo
  BY StorePagenoIs, Zenon
<1>2. pc[p] = "pageno" /\ pc'[p] = "executed" /\ page2idx' = page2idx
  BY <1>1, Zenon DEF StoresPageno, UpdateKept
<1>3. /\ todo[p] # {} /\ h \in DOMAIN page2idx[p] /\ page2idx[p][h] = e
      /\ IndexExcept(p, {e})
      /\ \A g \in DOMAIN page2idx[p] : page2idx[p][g] = e => g = h
  BY <1>2, Zenon DEF IndexOf, Updating, Entry
<1>4. e \in Indices /\ file.pages[e] \in PageData
  BY <1>2, EntryIn, Zenon DEF Updating
<1>5. /\ file'.n_pages = file.n_pages /\ file'.pages[e].pageno = h
      /\ \A i \in Indices \ {e} : file'.pages[i] = file.pages[i]
  BY <1>1, <1>4, Zenon DEF StoresPageno, Stored, PageData
<1>6. FirstBlock(p)'.page = h
  BY <1>1, SameEntry, Zenon
<1> HIDE DEF e, h
<1>7. \A i : InFile(i)' <=> InFile(i)
  BY <1>5, Zenon DEF InFile
<1>8. \A i \in Indices : InFile(i) =>
        \E g \in DOMAIN page2idx[p] : file'.pages[i].pageno = g
  BY <1>3, <1>5 DEF IndexExcept
<1>9. ASSUME NEW g \in DOMAIN page2idx[p]
      PROVE  InFile(page2idx[p][g]) /\ file'.pages[page2idx[p][g]].pageno = g
  <2>1. InFile(page2idx[p][g]) /\ page2idx[p][g] \in Indices
    BY <1>3, Zenon DEF IndexExcept, InFile
  <2>2. CASE page2idx[p][g] = e
    BY <1>3, <1>5, <2>1, <2>2, Zenon
  <2>3. CASE page2idx[p][g] # e
    BY <1>3, <1>5, <2>1, <2>3 DEF IndexExcept
  <2> QED
    BY <2>1, <2>2, <2>3, Zenon
<1>10. IndexExcept(p, {})'
  BY <1>2, <1>7, <1>8, <1>9, Zenon DEF IndexExcept
<1> QED
  BY <1>1, <1>2, <1>3, <1>6, <1>10, Zenon DEF IndexOf, Updating, Ended

\* The index when an entry was allocated: it finds the entry, which has no number.
LEMMA AllocatedIndex ==
  ASSUME TypeOK, PagesInv, LockInv, NEW p \in Procs, AllocatePageData(p)
  PROVE  IndexOf(p)'
<1>1. CASE End(p, "panic")
  BY <1>1, IndexEnded, Zenon DEF Ended
<1>2. CASE ~End(p, "panic")
  <2> DEFINE n == file.n_pages
             h == FirstBlock(p).page
             idx == page2idx[p]
             new == [g \in DOMAIN idx \cup {h} |-> IF g \in DOMAIN idx THEN idx[g] ELSE n]
  <2>1. /\ pc[p] = "page" /\ todo[p] # {} /\ fmap[p] # "none" /\ h \notin DOMAIN idx
        /\ n + 1 <= MAX_PAGES /\ page2idx' = [page2idx EXCEPT ![p] = new]
        /\ pc' = [pc EXCEPT ![p] = "pageno"] /\ todo' = todo
    BY <1>2, Zenon DEF AllocatePageData, At, Goto
  <2>2. fmap[p] = "RDWR" /\ IndexExcept(p, {})
    BY <2>1, Zenon DEF LockInv, LockOf, PagesInv, IndexOf, TypeOK, SlotsOK
  <2>3. page2idx'[p] = new /\ pc'[p] = "pageno"
    BY <2>1, Zenon DEF TypeOK, SlotsOK
  <2>4. FirstBlock(p)' = FirstBlock(p) /\ FirstBlock(p)'.page = h
    BY <2>1, SameEntry, Zenon
  <2>5. /\ DOMAIN new = DOMAIN idx \cup {h} /\ new[h] = n
        /\ \A g \in DOMAIN idx : new[g] = idx[g]
    BY <2>1, Zenon
  <2>6. Entry(p)' = n
    BY <2>3, <2>4, <2>5, Zenon DEF Entry
  <2>7. n \in Indices /\ n \in Nat
    BY <2>1, ProfileAssumption DEF Indices, TypeOK, FileType
  <2>8. file'.n_pages = n + 1 /\ file'.pages = file.pages
    BY AllocatePageDataIs, Zenon
  <2>9. file'.pages[n] = NoData
    BY <2>7, <2>8 DEF PagesInv
  <2> HIDE DEF n, h, idx, new
  <2>10. \A i : InFile(i)' <=> InFile(i) \/ i = n
    BY <2>7, <2>8, ProfileAssumption DEF InFile, Indices, n
  <2>11. ~InFile(n)
    BY <2>7 DEF InFile, n
  <2>12. /\ \A i \in Indices : InFile(i) => \E g \in DOMAIN idx : file.pages[i].pageno = g
         /\ \A g \in DOMAIN idx : InFile(idx[g]) /\ file.pages[idx[g]].pageno = g
    BY <2>2, Zenon DEF IndexExcept, idx
  <2>13. \A g \in DOMAIN idx : new[g] # n
    BY <2>5, <2>11, <2>12, Zenon
  <2>14. \A g \in DOMAIN new : new[g] = n => g = h
    BY <2>5, <2>13, Zenon
  <2>15. \A i \in Indices : InFile(i)' /\ i # n =>
           \E g \in DOMAIN new : new[g] # n /\ file'.pages[i].pageno = g
    BY <2>5, <2>8, <2>10, <2>12, <2>13
  <2>16. ASSUME NEW g \in DOMAIN new
         PROVE  /\ new[g] \in Indices /\ new[g] < file'.n_pages
                /\ new[g] # n => file'.pages[new[g]].pageno = g
    <3>1. PICK i : i = new[g]
      BY Zenon
    <3>2. i = n \/ (InFile(i) /\ file.pages[i].pageno = g)
      BY <2>5, <2>12, <3>1, Zenon
    <3>3. InFile(i)'
      BY <2>10, <3>2, Zenon
    <3> QED
      BY <2>8, <3>1, <3>2, <3>3, Zenon DEF InFile
  <2>17. IndexExcept(p, {Entry(p)})'
    BY <2>3, <2>6, <2>15, <2>16, Zenon DEF IndexExcept, InFile
  <2>18. h \in DOMAIN page2idx'[p] /\ todo'[p] # {}
    BY <2>1, <2>3, <2>5, Zenon
  <2>19. file'.pages[Entry(p)'] = NoData
    BY <2>6, <2>9, Zenon
  <2>20. \A g \in DOMAIN page2idx'[p] : page2idx'[p][g] = Entry(p)' => g = FirstBlock(p)'.page
    BY <2>3, <2>4, <2>6, <2>14, Zenon
  <2> QED
    BY <2>3, <2>4, <2>17, <2>18, <2>19, <2>20, Zenon DEF IndexOf, Ended
<1> QED
  BY <1>1, <1>2, Zenon

\* The index of a process that has found the page, or that has nothing to record.
LEMMA FoundIndex ==
  ASSUME TypeOK, LockInv, NEW p \in Procs, IndexOf(p),
         FindPageData(p) \/ UpdateNull(p) \/ UpdateDone(p)
  PROVE  IndexOf(p)'
<1>1. CASE UpdateNull(p) \/ UpdateDone(p)
  BY <1>1, IndexEnded, Zenon DEF UpdateNull, UpdateDone, Ended
<1>2. CASE FindPageData(p)
  <2>1. /\ pc[p] = "page" /\ fmap[p] # "none" /\ pc'[p] = "executed" /\ PagesKept
        /\ page2idx' = page2idx /\ todo' = todo
        /\ todo[p] # {} /\ FirstBlock(p).page \in DOMAIN page2idx[p]
    BY <1>2, Zenon DEF FindPageData, At, Continue, Goto, mem, TypeOK, SlotsOK, PagesKept
  <2>2. fmap[p] = "RDWR"
    BY <2>1, Zenon DEF LockInv, LockOf, TypeOK, SlotsOK
  <2>3. IndexExcept(p, {})'
    BY <2>1, <2>2, IndexExceptKept, Zenon DEF IndexOf
  <2>4. FirstBlock(p)' = FirstBlock(p)
    BY <2>1, SameEntry, Zenon
  <2> QED
    BY <2>1, <2>3, <2>4, Zenon DEF IndexOf, Updating, Ended
<1> QED
  BY <1>1, <1>2, Zenon

\* The steps that change entries, or count another one.
Writes(p) == \/ AllocatePageData(p) \/ StorePageno(p) \/ SetExecuted(p) \/ SetBrindTarget(p)
             \/ SetSegmentEntry(p)

\* All others keep the entries and what is recorded.
LEMMA OtherStepsKeepPages ==
  ASSUME TypeOK, CreateInv, NEW p \in Procs, Start(p) \/ Step(p) \/ Kill(p), ~Writes(p)
  PROVE  PagesKept /\ recorded' = recorded /\ killed \subseteq killed'
<1>1. CASE Quiet(p)
  <2>1. PagesKept
    BY <1>1, QuietFile, Zenon DEF PagesKept, TypeOK
  <2>2. CASE CompileStep(p)
    BY <2>1, <2>2, Zenon DEF CompileStep, Compile, LinkStart, LinkEnd, LinkFail, LoadLinked, OpenImage, WriteHeader,
       WriteSymbols, WriteImage, PatchHeaders, ghost
  <2>3. CASE ~CompileStep(p)
    BY <1>1, <2>1, <2>3, Zenon DEF Quiet, Start, Open, LockCreated, LockExisting, StatExisting, Announce,
       Boot, RunGuest, FindPageData, UpdateNull, UpdateDone, Kill, ghost
  <2> QED
    BY <2>2, <2>3, Zenon
<1>2. CASE Create(p)
  BY <1>2, CreateIs, Zenon DEF SameFile, Create, ghost
<1>3. CASE Truncate(p)
  BY <1>3, TruncateIs, Zenon DEF Truncate, ghost
<1>4. CASE StoreChecksum(p)
  BY <1>4, StoreChecksumIs, Zenon DEF StoreChecksum, ghost
<1>5. CASE StoreNPages(p)
  <2>1. file.n_pages = 0
    BY <1>5, Zenon DEF StoreNPages, At, CreateInv
  <2> QED
    BY <1>5, <2>1, StoreNPagesIs, Zenon DEF SameFile, StoreNPages, ghost
<1> QED
  BY <1>1, <1>2, <1>3, <1>4, <1>5, Zenon
     DEF Quiet, Writes, Step, OpenStep, AnnounceStep, UpdateStep

\* Who writes has the profile mapped for writing, and everyone else is idle.
LEMMA WriterAlone ==
  ASSUME TypeOK, LockInv, NEW p \in Procs, Writes(p)
  PROVE  /\ fmap[p] = "RDWR"
         /\ \A q \in Procs : q # p => fmap[q] = "none" /\ ~Updating(q) /\ pc[q] # "boot"
<1>1. (pc[p] = "page" /\ fmap[p] # "none") \/ Updating(p)
  BY Zenon DEF Writes, AllocatePageData, StorePageno, SetExecuted, SetBrindTarget, SetSegmentEntry, At,
     Updating
<1>2. fmap[p] = "RDWR"
  BY <1>1, Zenon DEF LockInv, LockOf, TypeOK, SlotsOK
<1>3. flock[p] = "EX"
  BY <1>2, WriterLocked, Zenon
<1> QED
  BY <1>2, <1>3, LockedAlone, Zenon

\* The index of the process that takes a step.
LEMMA OwnIndex ==
  ASSUME TypeOK, LockInv, CreateInv, PagesInv, NEW p \in Procs, Start(p) \/ Step(p) \/ Kill(p)
  PROVE  IndexOf(p)'
<1>1. IndexOf(p)
  BY Zenon DEF PagesInv
<1>2. CASE \/ Start(p) \/ Open(p) \/ Create(p) \/ LockCreated(p) \/ Truncate(p)
           \/ LockExisting(p) \/ StatExisting(p) \/ StoreChecksum(p)
  BY <1>1, <1>2, OpeningIndex, Zenon
<1>3. CASE StoreNPages(p) \/ Announce(p) \/ Boot(p) \/ RunGuest(p)
  BY <1>1, <1>3, AnnouncingIndex, Zenon
<1>4. CASE CompileStep(p) \/ Kill(p)
  BY <1>4, CompilingIndex, Zenon
<1>5. CASE UpdateStep(p)
  BY <1>1, <1>5, AllocatedIndex, PagenoIndex, MarkingIndex, FoundIndex, Zenon DEF UpdateStep
<1> QED
  BY <1>2, <1>3, <1>4, <1>5, Zenon DEF Step, OpenStep, AnnounceStep

\* The number that is stored to a new entry is that of no other entry.
LEMMA PagenoNew ==
  ASSUME TypeOK, PagesInv, NEW p \in Procs, StorePageno(p)
  PROVE  /\ \A i \in Indices : i >= file'.n_pages => file'.pages[i] = NoData
         /\ OneEntryPerPage'
<1> DEFINE e == Entry(p)
           h == FirstBlock(p).page
<1>1. IndexOf(p) /\ pc[p] = "pageno" /\ Updating(p)
  BY Zenon DEF PagesInv, StorePageno, At, Updating
<1>2. StoresPageno(p)
  BY <1>1, StorePagenoIs, Zenon
<1>3. e \in Indices /\ e < file.n_pages /\ file.pages[e] \in PageData
  BY <1>1, EntryIn, Zenon
<1>4. /\ file'.n_pages = file.n_pages /\ file'.pages[e].pageno = h
      /\ \A i \in Indices \ {e} : file'.pages[i] = file.pages[i]
  BY <1>2, <1>3, Zenon DEF StoresPageno, Stored, PageData
<1>5. IndexExcept(p, {e}) /\ page2idx[p][h] = e
  BY <1>1, Zenon DEF IndexOf, Entry
<1> HIDE DEF e, h
<1>6. \A i \in Indices : i >= file.n_pages => file.pages[i] = NoData
  BY Zenon DEF PagesInv
<1>7. \A i \in Indices : i >= file'.n_pages => file'.pages[i] = NoData
  <2>1. \A i \in Indices : i >= file.n_pages => i # e
    BY <1>3, ProfileAssumption DEF Indices, TypeOK, FileType
  <2> QED
    BY <1>4, <1>6, <2>1, Zenon
<1>8. ASSUME NEW j \in Indices, j # e, file.pages[j].pageno = h PROVE h = 0
  <2>1. CASE InFile(j)
    BY <1>5, <1>8, <2>1, Zenon DEF IndexExcept
  <2>2. CASE ~InFile(j)
    <3>1. j >= file.n_pages
      BY <2>2, ProfileAssumption DEF InFile, Indices, TypeOK, FileType
    <3> QED
      BY <1>6, <1>8, <3>1 DEF NoData
  <2> QED
    BY <2>1, <2>2, Zenon
<1>9. ASSUME NEW i \in Indices, NEW j \in Indices, i # j,
             file'.pages[i].pageno = file'.pages[j].pageno
      PROVE  file'.pages[i].pageno = 0
  <2>1. CASE i = e
    BY <1>4, <1>8, <1>9, <2>1, Zenon
  <2>2. CASE j = e
    BY <1>4, <1>8, <1>9, <2>2, Zenon
  <2>3. CASE i # e /\ j # e
    BY <1>4, <1>9, <2>3, Zenon DEF PagesInv, OneEntryPerPage
  <2> QED
    BY <2>1, <2>2, <2>3, Zenon
<1> QED
  BY <1>7, <1>9, Zenon DEF OneEntryPerPage

\* The entries after a step of any kind.
LEMMA PagesStep ==
  ASSUME TypeOK, LockInv, CreateInv, PagesInv, NEW p \in Procs, Start(p) \/ Step(p) \/ Kill(p)
  PROVE  PagesInv'
<1>1. OnlyMoves(p)
  BY StepSlots, Zenon DEF Slots
<1>2. IndexOf(p)'
  BY OwnIndex, Zenon
<1>3. ASSUME NEW q \in Procs, q # p PROVE IndexOf(q)'
  <2>1. /\ pc'[q] = pc[q] /\ fmap'[q] = fmap[q] /\ page2idx'[q] = page2idx[q]
        /\ todo'[q] = todo[q] /\ IndexOf(q)
    BY <1>1, <1>3, Zenon DEF OnlyMoves, PagesInv
  <2>2. CASE Writes(p)
    BY <1>3, <2>1, <2>2, WriterAlone, IndexIdle, Zenon
  <2>3. CASE ~Writes(p)
    BY <2>1, <2>3, OtherStepsKeepPages, IndexKept, Zenon
  <2> QED
    BY <2>2, <2>3, Zenon
<1>4. (\A i \in Indices : i >= file.n_pages => file.pages[i] = NoData) /\ OneEntryPerPage
  BY Zenon DEF PagesInv
<1>5. (\A i \in Indices : i >= file'.n_pages => file'.pages[i] = NoData) /\ OneEntryPerPage'
  <2>1. CASE ~Writes(p)
    <3>1. file'.n_pages = file.n_pages /\ file'.pages = file.pages
      BY <2>1, OtherStepsKeepPages, Zenon DEF PagesKept
    <3> QED
      BY <1>4, <3>1, Zenon DEF OneEntryPerPage
  <2>2. CASE AllocatePageData(p)
    <3>1. file'.n_pages = file.n_pages + 1 /\ file'.pages = file.pages /\ file.n_pages \in Nat
      BY <2>2, AllocatePageDataIs, Zenon DEF TypeOK, FileType
    <3>2. \A i \in Indices : i >= file'.n_pages => i >= file.n_pages
      BY <3>1, ProfileAssumption DEF Indices
    <3> QED
      BY <1>4, <3>1, <3>2, Zenon DEF OneEntryPerPage
  <2>3. CASE StorePageno(p)
    BY <2>3, PagenoNew, Zenon
  <2>4. CASE SetExecuted(p) \/ SetBrindTarget(p) \/ SetSegmentEntry(p)
    <3>1. /\ PagenosKept /\ Entry(p) \in Indices /\ Entry(p) < file.n_pages
          /\ \A i \in Indices : i # Entry(p) => file'.pages[i] = file.pages[i]
      BY <2>4, MarkingIndex, Zenon DEF PagesInv
    <3>2. OneEntryPerPage'
      BY <1>4, <3>1 DEF OneEntryPerPage, PagenosKept
    <3>3. \A i \in Indices : i >= file.n_pages => i # Entry(p)
      BY <3>1, ProfileAssumption DEF Indices, TypeOK, FileType
    <3> QED
      BY <1>4, <3>1, <3>2, <3>3, Zenon DEF PagenosKept
  <2> QED
    BY <2>1, <2>2, <2>3, <2>4, Zenon DEF Writes
<1> QED
  BY <1>2, <1>3, <1>5, Zenon DEF PagesInv

-----------------------------------------------------------------------------
(* The marks *)

\* An entry only gains marks, and its page's number changes only when it has none.
GrownEntry(i) ==
  LET e == file.pages[i]  d == file'.pages[i]
  IN  /\ e = NoData \/ e.pageno = d.pageno
      /\ e.executed \subseteq d.executed
      /\ e.brind_target \subseteq d.brind_target
      /\ e.segment_entry \subseteq d.segment_entry

Grown == file'.n_pages >= file.n_pages /\ \A i \in Indices : GrownEntry(i)

\* A store to the entry at hand lets it grow.
LEMMA StoreGrows ==
  ASSUME TypeOK, NEW p \in Procs, IndexOf(p),
         StorePageno(p) \/ SetExecuted(p) \/ SetBrindTarget(p) \/ SetSegmentEntry(p)
  PROVE  Grown
<1> DEFINE e == Entry(p)
<1>1. Updating(p)
  BY Zenon DEF StorePageno, SetExecuted, SetBrindTarget, SetSegmentEntry, At, Updating
<1>2. e \in Indices /\ file.pages[e] \in PageData
  BY <1>1, EntryIn, Zenon
<1>3. PICK d : /\ Stored(e, d)
               /\ file.pages[e] = NoData \/ file.pages[e].pageno = d.pageno
               /\ file.pages[e].executed \subseteq d.executed
               /\ file.pages[e].brind_target \subseteq d.brind_target
               /\ file.pages[e].segment_entry \subseteq d.segment_entry
  <2>1. CASE StorePageno(p)
    <3>1. StoresPageno(p) /\ file.pages[e] = NoData
      BY <2>1, StorePagenoIs, Zenon DEF StoresPageno, IndexOf
    <3> QED
      BY <1>2, <3>1 DEF StoresPageno, PageData
  <2>2. CASE SetExecuted(p)
    <3> DEFINE d == [file.pages[Entry(p)] EXCEPT !.executed = @ \cup {FirstBlock(p).po}]
    <3>1. Stored(e, d)
      BY <2>2, SetExecutedIs, Zenon DEF StoresExecuted
    <3>2. /\ d.pageno = file.pages[e].pageno
          /\ file.pages[e].executed \subseteq d.executed
          /\ file.pages[e].brind_target \subseteq d.brind_target
          /\ file.pages[e].segment_entry \subseteq d.segment_entry
      BY <1>2, Zenon DEF PageData
    <3> HIDE DEF d
    <3> QED
      BY <3>1, <3>2, Zenon
  <2>3. CASE SetBrindTarget(p)
    <3> DEFINE d == [file.pages[Entry(p)] EXCEPT !.brind_target = Observed(@, FirstBlock(p).po, FirstBlock(p).brind)]
    <3>1. Stored(e, d)
      BY <2>3, SetBrindTargetIs, Zenon DEF StoresBrindTarget
    <3>2. /\ d.pageno = file.pages[e].pageno
          /\ file.pages[e].executed \subseteq d.executed
          /\ file.pages[e].brind_target \subseteq d.brind_target
          /\ file.pages[e].segment_entry \subseteq d.segment_entry
      BY <1>2, Zenon DEF PageData, Observed
    <3> HIDE DEF d
    <3> QED
      BY <3>1, <3>2, Zenon
  <2>4. CASE SetSegmentEntry(p)
    <3> DEFINE d == [file.pages[Entry(p)] EXCEPT !.segment_entry = Observed(@, FirstBlock(p).po, FirstBlock(p).seg)]
    <3>1. Stored(e, d)
      BY <2>4, SetSegmentEntryIs, Zenon DEF StoresSegmentEntry
    <3>2. /\ d.pageno = file.pages[e].pageno
          /\ file.pages[e].executed \subseteq d.executed
          /\ file.pages[e].brind_target \subseteq d.brind_target
          /\ file.pages[e].segment_entry \subseteq d.segment_entry
      BY <1>2, Zenon DEF PageData, Observed
    <3> HIDE DEF d
    <3> QED
      BY <3>1, <3>2, Zenon
  <2> QED
    BY <2>1, <2>2, <2>3, <2>4, Zenon
<1> HIDE DEF e
<1>4. /\ file'.n_pages = file.n_pages /\ file'.pages[e] = d /\ file.n_pages \in Nat
      /\ \A i \in Indices \ {e} : file'.pages[i] = file.pages[i]
  BY <1>3, Zenon DEF Stored, TypeOK, FileType
<1>5. ASSUME NEW i \in Indices PROVE GrownEntry(i)
  <2>1. CASE i = e
    BY <1>3, <1>4, <2>1, Zenon DEF GrownEntry
  <2>2. CASE i # e
    BY <1>4, <2>2, Zenon DEF GrownEntry
  <2> QED
    BY <2>1, <2>2, Zenon
<1> QED
  BY <1>4, <1>5 DEF Grown

\* No step takes a page or a mark away.
LEMMA GrowsStep ==
  ASSUME TypeOK, LockInv, CreateInv, PagesInv, NEW p \in Procs, Start(p) \/ Step(p) \/ Kill(p)
  PROVE  Grown
<1>1. file.n_pages \in Nat
  BY Zenon DEF TypeOK, FileType
<1>2. CASE ~Writes(p)
  BY <1>1, <1>2, OtherStepsKeepPages DEF PagesKept, Grown, GrownEntry
<1>3. CASE AllocatePageData(p)
  BY <1>1, <1>3, AllocatePageDataIs DEF Grown, GrownEntry
<1>4. CASE StorePageno(p) \/ SetExecuted(p) \/ SetBrindTarget(p) \/ SetSegmentEntry(p)
  BY <1>4, StoreGrows, Zenon DEF PagesInv
<1> QED
  BY <1>2, <1>3, <1>4, Zenon DEF Writes

\* A block that is in an entry stays in it.
LEMMA BlockStays ==
  ASSUME TypeOK, file' \in FileType, Grown, NEW b, NEW i \in Indices,
         i < file.n_pages, HasBlock(file.pages[i], b)
  PROVE  i < file'.n_pages /\ HasBlock(file'.pages[i], b)
<1>1. i \in Int /\ file.n_pages \in Nat /\ file'.n_pages \in Nat /\ file'.n_pages >= file.n_pages
  BY ProfileAssumption DEF Indices, TypeOK, FileType, Grown
<1>2. file.pages[i] # NoData
  BY DEF HasBlock, NoData
<1>3. file.pages[i].pageno = file'.pages[i].pageno
  BY <1>2, Zenon DEF Grown, GrownEntry
<1>4. HasBlock(file'.pages[i], b)
  BY <1>3, Zenon DEF Grown, GrownEntry, HasBlock
<1> QED
  BY <1>1, <1>4

\* A block that is recorded to the end is in its entry.
LEMMA BlockRecorded ==
  ASSUME TypeOK, PagesInv, MarksInv, NEW p \in Procs, SetSegmentEntry(p)
  PROVE  /\ Entry(p) \in Indices /\ Entry(p) < file'.n_pages
         /\ HasBlock(file'.pages[Entry(p)], FirstBlock(p))
<1> DEFINE e == Entry(p)
           b == FirstBlock(p)
<1>1. pc[p] = "segment_entry" /\ Updating(p) /\ IndexOf(p) /\ MarksOf(p)
  BY Zenon DEF SetSegmentEntry, At, Updating, PagesInv, MarksInv
<1>2. e \in Indices /\ e < file.n_pages /\ file.pages[e] \in PageData
  BY <1>1, EntryIn, Zenon
<1>3. StoresSegmentEntry(p)
  BY <1>1, SetSegmentEntryIs, Zenon
<1>4. file.pages[e].pageno = b.page
  BY <1>1, Zenon DEF IndexOf, IndexExcept, Entry
<1>5. b.po \in file.pages[e].executed /\ (b.brind => b.po \in file.pages[e].brind_target)
  BY <1>1, Zenon DEF MarksOf
<1>6. /\ file'.n_pages = file.n_pages
      /\ file'.pages[e].pageno = file.pages[e].pageno
      /\ file'.pages[e].executed = file.pages[e].executed
      /\ file'.pages[e].brind_target = file.pages[e].brind_target
      /\ b.seg => b.po \in file'.pages[e].segment_entry
  BY <1>2, <1>3 DEF StoresSegmentEntry, Stored, PageData, Observed
<1> HIDE DEF e, b
<1>7. HasBlock(file'.pages[e], b)
  BY <1>4, <1>5, <1>6, Zenon DEF HasBlock
<1> QED
  BY <1>2, <1>6, <1>7, Zenon DEF e, b

\* Only who has set a mark of the block at hand has got past it.
LEMMA MarkingSteps ==
  ASSUME TypeOK, NEW p \in Procs, Start(p) \/ Step(p) \/ Kill(p),
         pc'[p] \in {"brind_target", "segment_entry"}
  PROVE  SetExecuted(p) \/ SetBrindTarget(p)
<1> USE DEF TypeOK, SlotsOK, Goto
<1>1. CASE CompileStep(p)
  BY <1>1, Zenon DEF CompileStep, Compile, LinkStart, LinkEnd, LinkFail, LoadLinked, OpenImage, WriteHeader, WriteSymbols,
     WriteImage, PatchHeaders, Continue, End
<1>2. CASE OpenStep(p)
  BY <1>2, Zenon DEF OpenStep, Open, Create, LockCreated, Truncate, LockExisting, StatExisting, NoFile,
     MapExisting
<1>3. CASE AnnounceStep(p)
  BY <1>3 DEF AnnounceStep, StoreChecksum, StoreNPages, Announce, Boot, Continue, End
<1>4. CASE UpdateStep(p)
  BY <1>4, Zenon DEF UpdateStep, AllocatePageData, StorePageno, FindPageData, SetSegmentEntry, UpdateNull,
     UpdateDone, StoreEntry, Continue, End
<1> QED
  BY <1>1, <1>2, <1>3, <1>4, Zenon DEF Step, Start, Kill, RunGuest, End

\* The marks after a step of any kind: what is recorded stays.
LEMMA MarksStep ==
  ASSUME TypeOK, LockInv, CreateInv, PagesInv, MarksInv, NEW p \in Procs,
         file' \in FileType, Start(p) \/ Step(p) \/ Kill(p)
  PROVE  MarksInv'
<1>1. OnlyMoves(p) /\ Grown
  BY StepSlots, GrowsStep, Zenon DEF Slots
<1>2. Durable'
  <2>1. ASSUME NEW b \in recorded
        PROVE  \E i \in Indices : i < file'.n_pages /\ HasBlock(file'.pages[i], b)
    BY <1>1, BlockStays, Zenon DEF MarksInv, Durable
  <2>2. CASE SetSegmentEntry(p)
    <3>1. recorded' = recorded \cup {FirstBlock(p)}
      BY <2>2, SetSegmentEntryIs, Zenon DEF PagesInv, StoresSegmentEntry
    <3>2. /\ Entry(p) \in Indices /\ Entry(p) < file'.n_pages
          /\ HasBlock(file'.pages[Entry(p)], FirstBlock(p))
      BY <2>2, BlockRecorded, Zenon
    <3> QED
      BY <2>1, <3>1, <3>2, Zenon DEF Durable
  <2>3. CASE ~SetSegmentEntry(p)
    <3>1. recorded' = recorded
      BY <2>3, OtherStepsKeepPages, Zenon DEF Writes, AllocatePageData, StorePageno, SetExecuted,
         SetBrindTarget, StoreEntry, ghost
    <3> QED
      BY <2>1, <3>1, Zenon DEF Durable
  <2> QED
    BY <2>2, <2>3, Zenon
<1>3. MarksOf(p)'
  <2>1. CASE SetExecuted(p)
    <3>1. StoresExecuted(p) /\ UpdateKept(p) /\ UNCHANGED todo /\ Updating(p)
      BY <2>1, SetExecutedIs, Zenon DEF PagesInv, Updating, StoresExecuted
    <3>2. FirstBlock(p)' = FirstBlock(p) /\ Entry(p)' = Entry(p)
      BY <3>1, SameEntry, Zenon DEF UpdateKept
    <3>3. file.pages[Entry(p)] \in PageData
      BY <3>1, EntryIn, Zenon DEF PagesInv
    <3>4. pc'[p] = "brind_target" /\ FirstBlock(p).po \in file'.pages[Entry(p)].executed
      BY <3>1, <3>3 DEF StoresExecuted, Stored, PageData
    <3> QED
      BY <3>2, <3>4, Zenon DEF MarksOf
  <2>2. CASE SetBrindTarget(p)
    <3>1. StoresBrindTarget(p) /\ UpdateKept(p) /\ UNCHANGED todo /\ Updating(p)
      BY <2>2, SetBrindTargetIs, Zenon DEF PagesInv, Updating, StoresBrindTarget
    <3>2. FirstBlock(p)' = FirstBlock(p) /\ Entry(p)' = Entry(p)
      BY <3>1, SameEntry, Zenon DEF UpdateKept
    <3>3. file.pages[Entry(p)] \in PageData /\ FirstBlock(p).po \in file.pages[Entry(p)].executed
      BY <3>1, EntryIn, Zenon DEF PagesInv, MarksInv, MarksOf, StoresBrindTarget
    <3>4. /\ FirstBlock(p).po \in file'.pages[Entry(p)].executed
          /\ FirstBlock(p).brind => FirstBlock(p).po \in file'.pages[Entry(p)].brind_target
      BY <3>1, <3>3 DEF StoresBrindTarget, Stored, PageData, Observed
    <3> QED
      BY <3>2, <3>4, Zenon DEF MarksOf
  <2>3. CASE pc'[p] \notin {"brind_target", "segment_entry"}
    BY <2>3, Zenon DEF MarksOf
  <2> QED
    BY <2>1, <2>2, <2>3, MarkingSteps, Zenon
<1>4. ASSUME NEW q \in Procs, q # p PROVE MarksOf(q)'
  <2>1. /\ pc'[q] = pc[q] /\ page2idx'[q] = page2idx[q] /\ todo'[q] = todo[q] /\ MarksOf(q)
    BY <1>1, <1>4, Zenon DEF OnlyMoves, MarksInv
  <2>2. CASE Writes(p)
    <3>1. pc'[q] \notin {"brind_target", "segment_entry"}
      BY <1>4, <2>1, <2>2, WriterAlone, Zenon DEF Updating
    <3> QED
      BY <3>1, Zenon DEF MarksOf
  <2>3. CASE ~Writes(p)
    <3>1. file'.pages = file.pages
      BY <2>3, OtherStepsKeepPages, Zenon DEF PagesKept
    <3> QED
      BY <2>1, <3>1, SameEntry, Zenon DEF MarksOf
  <2> QED
    BY <2>2, <2>3, Zenon
<1> QED
  BY <1>2, <1>3, <1>4, Zenon DEF MarksInv

-----------------------------------------------------------------------------
(* Where the marks come from *)

\* The marks of an entry that does not change, while the blocks at hand stay so.
LEMMA MarksFromKept ==
  ASSUME NEW i \in Indices, MarksFrom(i), file'.pages[i] = file.pages[i],
         recorded \subseteq recorded',
         \A q \in Procs : \A po : AtHand(q, i, po) =>
           AtHand(q, i, po)' /\ pc'[q] = pc[q] /\ FirstBlock(q)' = FirstBlock(q)
  PROVE  MarksFrom(i)'
<1> DEFINE e == file.pages[i]
<1>1. ASSUME NEW po \in e.executed
      PROVE  \/ \E b \in recorded' : b.page = e.pageno /\ b.po = po
             \/ \E q \in Procs : AtHand(q, i, po)'
  BY Zenon DEF MarksFrom
<1>2. ASSUME NEW po \in e.brind_target
      PROVE  \/ \E b \in recorded' : b.page = e.pageno /\ b.po = po /\ b.brind
             \/ \E q \in Procs : /\ AtHand(q, i, po)' /\ pc'[q] = "segment_entry"
                                 /\ FirstBlock(q)'.brind
  <2>1. CASE \E b \in recorded : b.page = e.pageno /\ b.po = po /\ b.brind
    BY <2>1, Zenon
  <2>2. CASE \E q \in Procs : AtHand(q, i, po) /\ pc[q] = "segment_entry" /\ FirstBlock(q).brind
    BY <2>2, Zenon
  <2> QED
    BY <2>1, <2>2, Zenon DEF MarksFrom
<1>3. ASSUME NEW po \in e.segment_entry
      PROVE  \E b \in recorded' : b.page = e.pageno /\ b.po = po /\ b.seg
  BY Zenon DEF MarksFrom
<1>4. file'.pages[i] = e
  BY Zenon
<1> HIDE DEF e
<1> QED
  BY <1>1, <1>2, <1>3, <1>4, Zenon DEF MarksFrom

\* A process that leaves an update without finishing it was killed there.
LEMMA LeavesUpdate ==
  ASSUME NEW p \in Procs, Start(p) \/ Step(p) \/ Kill(p), ~Writes(p), Updating(p)
  PROVE  "update" \in killed'
<1>1. Kill(p)
  BY Zenon DEF Updating, Writes, Start, Step, OpenStep, Open, Create, LockCreated, Truncate, LockExisting,
     StatExisting, AnnounceStep, StoreChecksum, StoreNPages, Announce, Boot, RunGuest, UpdateStep,
     FindPageData, UpdateNull, UpdateDone, CompileStep, Compile, LinkStart, LinkEnd, LinkFail, LoadLinked,
     OpenImage, WriteHeader, WriteSymbols, WriteImage, PatchHeaders, At, Ended
<1> QED
  BY <1>1, Zenon DEF Kill, CutShort, Updating

\* A block at hand is that of the process that writes.
LEMMA AtHandOfWriter ==
  ASSUME TypeOK, LockInv, NEW p \in Procs, Writes(p), NEW q \in Procs, NEW i, NEW po,
         AtHand(q, i, po)
  PROVE  q = p
  BY WriterAlone, Zenon DEF AtHand, Updating

\* The marks of the entry that p stores to.
LEMMA MarksFromStored ==
  ASSUME TypeOK, LockInv, PagesInv, NEW p \in Procs, NEW i \in Indices, MarksFrom(i),
         i = Entry(p),
         StorePageno(p) \/ SetExecuted(p) \/ SetBrindTarget(p) \/ SetSegmentEntry(p)
  PROVE  MarksFrom(i)'
<1> DEFINE e == file.pages[i]
           d == file'.pages[i]
           b == FirstBlock(p)
<1>1. IndexOf(p) /\ Updating(p) /\ Writes(p)
  BY Zenon DEF PagesInv, Writes, StorePageno, SetExecuted, SetBrindTarget, SetSegmentEntry, At, Updating
<1>2. e \in PageData
  BY <1>1, EntryIn, Zenon
<1>3. \A q \in Procs : \A po : AtHand(q, i, po) => q = p
  BY <1>1, AtHandOfWriter, Zenon
<1>4. CASE StorePageno(p)
  <2>1. StoresPageno(p) /\ e = NoData
    BY <1>1, <1>4, StorePagenoIs, Zenon DEF StoresPageno, IndexOf
  <2>2. d.executed = {} /\ d.brind_target = {} /\ d.segment_entry = {}
    BY <1>2, <2>1 DEF StoresPageno, Stored, PageData, NoData
  <2> HIDE DEF d
  <2> QED
    BY <2>2, Zenon DEF MarksFrom, d
<1>5. CASE SetExecuted(p)
  <2>1. StoresExecuted(p) /\ UpdateKept(p) /\ UNCHANGED todo
    BY <1>1, <1>5, SetExecutedIs, Zenon
  <2>2. /\ d.pageno = e.pageno /\ d.executed = e.executed \cup {b.po}
        /\ d.brind_target = e.brind_target /\ d.segment_entry = e.segment_entry
        /\ recorded' = recorded
    BY <1>2, <2>1, Zenon DEF StoresExecuted, Stored, PageData
  <2>3. \A q \in Procs : \A po : ~AtHand(q, i, po)
    BY <1>3, <2>1, Zenon DEF AtHand, StoresExecuted
  <2>4. FirstBlock(p)' = b /\ Entry(p)' = i
    BY <2>1, SameEntry, Zenon DEF UpdateKept
  <2>5. AtHand(p, i, b.po)'
    BY <2>1, <2>4, Zenon DEF AtHand, StoresExecuted
  <2> HIDE DEF e, d, b
  <2>6. ASSUME NEW po \in d.executed
        PROVE  \/ \E c \in recorded' : c.page = d.pageno /\ c.po = po
               \/ \E q \in Procs : AtHand(q, i, po)'
    <3>1. CASE po = b.po
      <4>1. b.po' = b.po
        BY <2>4, Zenon DEF b
      <4> QED
        BY <2>4, <2>5, <3>1, <4>1, Zenon DEF AtHand
    <3>2. CASE po \in e.executed
      BY <2>2, <2>3, <3>2 DEF MarksFrom, e
    <3> QED
      BY <2>2, <3>1, <3>2, Zenon
  <2>7. ASSUME NEW po \in d.brind_target
        PROVE  \E c \in recorded' : c.page = d.pageno /\ c.po = po /\ c.brind
    BY <2>2, <2>3 DEF MarksFrom, e
  <2>8. ASSUME NEW po \in d.segment_entry
        PROVE  \E c \in recorded' : c.page = d.pageno /\ c.po = po /\ c.seg
    BY <2>2 DEF MarksFrom, e
  <2> QED
    BY <2>6, <2>7, <2>8, Zenon DEF MarksFrom, d
<1>6. CASE SetBrindTarget(p)
  <2>1. StoresBrindTarget(p) /\ UpdateKept(p) /\ UNCHANGED todo
    BY <1>1, <1>6, SetBrindTargetIs, Zenon
  <2>2. /\ d.pageno = e.pageno /\ d.executed = e.executed
        /\ \A po \in d.brind_target : po \in e.brind_target \/ (po = b.po /\ b.brind)
        /\ d.segment_entry = e.segment_entry
        /\ recorded' = recorded
    BY <1>2, <2>1 DEF StoresBrindTarget, Stored, PageData, Observed
  <2>3. \A q \in Procs : \A po : AtHand(q, i, po) => q = p /\ pc[q] = "brind_target" /\ po = b.po
    BY <1>3, <2>1, Zenon DEF AtHand, StoresBrindTarget
  <2>4. FirstBlock(p)' = b /\ Entry(p)' = i /\ pc'[p] = "segment_entry"
    BY <2>1, SameEntry, Zenon DEF UpdateKept, StoresBrindTarget
  <2>5. \A po : po = b.po => AtHand(p, i, po)'
    BY <2>4, Zenon DEF AtHand
  <2> HIDE DEF e, d, b
  <2>6. ASSUME NEW po \in d.executed
        PROVE  \/ \E c \in recorded' : c.page = d.pageno /\ c.po = po
               \/ \E q \in Procs : AtHand(q, i, po)'
    BY <2>2, <2>3, <2>5 DEF MarksFrom, e
  <2>7. ASSUME NEW po \in d.brind_target
        PROVE  \/ \E c \in recorded' : c.page = d.pageno /\ c.po = po /\ c.brind
               \/ \E q \in Procs : /\ AtHand(q, i, po)' /\ pc'[q] = "segment_entry"
                                   /\ FirstBlock(q)'.brind
    <3>1. CASE po = b.po /\ b.brind
      BY <2>4, <2>5, <3>1, Zenon
    <3>2. CASE po \in e.brind_target
      BY <2>2, <2>3, <3>2 DEF MarksFrom, e
    <3> QED
      BY <2>2, <3>1, <3>2, Zenon
  <2>8. ASSUME NEW po \in d.segment_entry
        PROVE  \E c \in recorded' : c.page = d.pageno /\ c.po = po /\ c.seg
    BY <2>2 DEF MarksFrom, e
  <2> QED
    BY <2>6, <2>7, <2>8, Zenon DEF MarksFrom, d
<1>7. CASE SetSegmentEntry(p)
  <2>1. StoresSegmentEntry(p)
    BY <1>1, <1>7, SetSegmentEntryIs, Zenon
  <2>2. /\ d.pageno = e.pageno /\ d.executed = e.executed /\ d.brind_target = e.brind_target
        /\ \A po \in d.segment_entry : po \in e.segment_entry \/ (po = b.po /\ b.seg)
        /\ recorded' = recorded \cup {b}
    BY <1>2, <2>1 DEF StoresSegmentEntry, Stored, PageData, Observed
  <2>3. \A q \in Procs : \A po : AtHand(q, i, po) => q = p /\ po = b.po
    BY <1>3, Zenon DEF AtHand
  <2>4. e.pageno = b.page
    BY <1>1, <2>1, Zenon DEF IndexOf, IndexExcept, Entry, StoresSegmentEntry
  <2> HIDE DEF e, d, b
  <2>5. b \in recorded' /\ recorded \subseteq recorded' /\ b.page = d.pageno
    BY <2>2, <2>4, Zenon
  <2>6. ASSUME NEW po \in d.executed
        PROVE  \E c \in recorded' : c.page = d.pageno /\ c.po = po
    BY <2>2, <2>3, <2>5 DEF MarksFrom, e
  <2>7. ASSUME NEW po \in d.brind_target
        PROVE  \E c \in recorded' : c.page = d.pageno /\ c.po = po /\ c.brind
    <3>1. CASE \E q \in Procs : AtHand(q, i, po) /\ FirstBlock(q).brind
      <4>1. po = b.po /\ b.brind
        BY <2>3, <3>1, Zenon DEF b
      <4> QED
        BY <2>5, <4>1, Zenon
    <3>2. CASE \E c \in recorded : c.page = e.pageno /\ c.po = po /\ c.brind
      BY <2>2, <2>5, <3>2, Zenon
    <3> QED
      BY <2>2, <3>1, <3>2, Zenon DEF MarksFrom, e
  <2>8. ASSUME NEW po \in d.segment_entry
        PROVE  \E c \in recorded' : c.page = d.pageno /\ c.po = po /\ c.seg
    <3>1. CASE po = b.po /\ b.seg
      BY <2>5, <3>1, Zenon
    <3>2. CASE po \in e.segment_entry
      BY <2>2, <2>5, <3>2, Zenon DEF MarksFrom, e
    <3> QED
      BY <2>2, <3>1, <3>2, Zenon
  <2> QED
    BY <2>6, <2>7, <2>8, Zenon DEF MarksFrom, d
<1> QED
  BY <1>4, <1>5, <1>6, <1>7, Zenon

\* Where the marks come from after a step of any kind.
LEMMA ExactStep ==
  ASSUME TypeOK, LockInv, CreateInv, PagesInv, ExactInv, NEW p \in Procs,
         Start(p) \/ Step(p) \/ Kill(p)
  PROVE  ExactInv'
<1>1. OnlyMoves(p)
  BY StepSlots, Zenon DEF Slots
<1>2. SUFFICES ASSUME "update" \notin killed', NEW i \in Indices PROVE MarksFrom(i)'
  BY Zenon DEF ExactInv
<1>3. ASSUME NEW q \in Procs, q # p, NEW po, AtHand(q, i, po)
      PROVE  AtHand(q, i, po)' /\ pc'[q] = pc[q] /\ FirstBlock(q)' = FirstBlock(q)
  <2>1. pc'[q] = pc[q] /\ page2idx'[q] = page2idx[q] /\ todo'[q] = todo[q]
    BY <1>1, <1>3, Zenon DEF OnlyMoves
  <2>2. FirstBlock(q)' = FirstBlock(q) /\ Entry(q)' = Entry(q)
    BY <2>1, SameEntry, Zenon
  <2> QED
    BY <1>3, <2>1, <2>2, Zenon DEF AtHand
<1>4. CASE ~Writes(p)
  <2>1. PagesKept /\ recorded' = recorded /\ killed \subseteq killed'
    BY <1>4, OtherStepsKeepPages, Zenon
  <2>2. MarksFrom(i)
    BY <1>2, <2>1, Zenon DEF ExactInv
  <2>3. \A po : ~AtHand(p, i, po)
    BY <1>2, <1>4, LeavesUpdate, Zenon DEF AtHand, Updating
  <2> QED
    BY <1>3, <2>1, <2>2, <2>3, MarksFromKept, Zenon DEF PagesKept
<1>5. CASE Writes(p)
  <2>1. killed' = killed /\ recorded \subseteq recorded'
    BY <1>5, Zenon DEF Writes, AllocatePageData, StorePageno, SetExecuted, SetBrindTarget,
       SetSegmentEntry, StoreEntry, ghost
  <2>2. MarksFrom(i)
    BY <1>2, <2>1, Zenon DEF ExactInv
  <2>3. CASE AllocatePageData(p)
    <3>1. \A po : ~AtHand(p, i, po)
      BY <2>3, Zenon DEF AllocatePageData, At, AtHand
    <3>2. file'.pages = file.pages
      BY <2>3, AllocatePageDataIs, Zenon
    <3> QED
      BY <1>3, <2>1, <2>2, <3>1, <3>2, MarksFromKept, Zenon
  <2>4. CASE ~AllocatePageData(p) /\ i = Entry(p)
    BY <1>5, <2>2, <2>4, MarksFromStored, Zenon DEF Writes
  <2>5. CASE ~AllocatePageData(p) /\ i # Entry(p)
    <3>1. \A q \in Procs : \A po : ~AtHand(q, i, po)
      BY <1>5, <2>5, AtHandOfWriter, Zenon DEF AtHand
    <3>2. file'.pages[i] = file.pages[i]
      <4>1. CASE StorePageno(p)
        <5>1. StoresPageno(p)
          BY <4>1, StorePagenoIs, Zenon DEF PagesInv
        <5>2. \A j \in Indices \ {Entry(p)} : file'.pages[j] = file.pages[j]
          BY <5>1, Zenon DEF StoresPageno, Stored
        <5> QED
          BY <2>5, <5>2, Zenon
      <4> QED
        BY <1>5, <2>5, <4>1, MarkingIndex, Zenon DEF Writes, PagesInv
    <3> QED
      BY <2>1, <2>2, <3>1, <3>2, MarksFromKept, Zenon
  <2> QED
    BY <2>3, <2>4, <2>5, Zenon
<1> QED
  BY <1>4, <1>5, Zenon

-----------------------------------------------------------------------------
(* The image *)

\* The steps of LinkAOTObject.
LinkStep(p) ==
  \/ LinkStart(p) \/ LinkEnd(p) \/ LinkFail(p) \/ LoadLinked(p) \/ OpenImage(p)
  \/ WriteHeader(p) \/ WriteSymbols(p) \/ PatchHeaders(p)

\* No other step touches the image or leads there; a process that leaves
\* LinkAOTObject in another way was killed.
LEMMA OtherStepsKeepImage ==
  ASSUME TypeOK, NEW p \in Procs, Start(p) \/ Step(p) \/ Kill(p), ~LinkStep(p)
  PROVE  /\ UNCHANGED <<image, out, raced>>
         /\ pc'[p] \notin Linking
         /\ pc[p] \in Linking => "link" \in killed'
<1> USE DEF TypeOK, SlotsOK, Linking, Writing, At, Goto, so
<1>1. CASE OpenStep(p)
  BY <1>1 DEF OpenStep, Open, Create, LockCreated, Truncate, LockExisting, StatExisting, NoFile,
     MapExisting, shared
<1>2. CASE AnnounceStep(p) \/ RunGuest(p)
  BY <1>2 DEF AnnounceStep, StoreChecksum, StoreNPages, Announce, Boot, RunGuest, Continue, End,
     shared
<1>3. CASE UpdateStep(p)
  BY <1>3 DEF UpdateStep, AllocatePageData, StorePageno, FindPageData, SetExecuted, SetBrindTarget,
     SetSegmentEntry, UpdateNull, UpdateDone, StoreEntry, Continue, End
<1>4. CASE Compile(p)
  BY <1>4, Zenon DEF Compile, Continue, End
<1>5. CASE Kill(p)
  BY <1>5, Zenon DEF Kill, End, CutShort
<1>6. CASE Start(p)
  BY <1>6, Zenon DEF Start, shared, Ended
<1> QED
  BY <1>1, <1>2, <1>3, <1>4, <1>5, <1>6, Zenon DEF Step, CompileStep, LinkStep

\* What is cut short stays so.
LEMMA KilledGrows ==
  ASSUME TypeOK, CreateInv, NEW p \in Procs, Start(p) \/ Step(p) \/ Kill(p)
  PROVE  killed \subseteq killed'
<1>1. CASE Writes(p)
  BY <1>1, Zenon DEF Writes, AllocatePageData, StorePageno, SetExecuted, SetBrindTarget, SetSegmentEntry,
     StoreEntry, ghost
<1> QED
  BY <1>1, OtherStepsKeepPages, Zenon

\* What every process but p is at.
Others(p) == \A q \in Procs : q # p => pc'[q] = pc[q]

\* One process opens an image, or is done with it.
LEMMA OutSet ==
  ASSUME NEW p \in Procs, NEW o \in Outs,
         out \in [Procs -> Outs], out' = [out EXCEPT ![p] = o]
  PROVE  /\ out' \in [Procs -> Outs] /\ out'[p] = o
         /\ \A q \in Procs : q # p => out'[q] = out[q]
  BY Zenon

\* The image that a process opened is removed, or is not.
LEMMA OutGone ==
  ASSUME NEW o \in Outs, NEW b \in BOOLEAN
  PROVE  [o EXCEPT !.gone = b] \in Outs
  BY DEF Outs

\* ld begins, or fails: there is no image.
LEMMA ImageRemoved ==
  ASSUME TypeOK, ImageInv, NEW p \in Procs, LinkStart(p) \/ LinkFail(p), Others(p)
  PROVE  ImageInv'
<1>1. /\ image' = {} /\ Linked' = {} /\ killed' = killed
      /\ out' = out \/ out' = Removed
  BY Zenon DEF LinkStart, LinkFail, Linked, ghost
<1>2. out' \in [Procs -> Outs]
  <2>1. out \in [Procs -> Outs]
    BY Zenon DEF ImageInv
  <2>2. ASSUME NEW q \in Procs PROVE [out[q] EXCEPT !.gone = pc[q] \in Writing] \in Outs
    <3>1. out[q] \in Outs
      BY <2>1, <2>2, Zenon
    <3>2. \A b \in BOOLEAN : [out[q] EXCEPT !.gone = b] \in Outs
      BY <3>1, OutGone, Zenon
    <3>3. CASE pc[q] \in Writing
      <4>1. (pc[q] \in Writing) = TRUE
        BY <3>3
      <4> QED
        BY <3>2, <4>1, Zenon
    <3>4. CASE pc[q] \notin Writing
      <4>1. (pc[q] \in Writing) = FALSE
        BY <3>4
      <4> QED
        BY <3>2, <4>1, Zenon
    <3> QED
      BY <3>3, <3>4
  <2>3. Removed \in [Procs -> Outs]
    BY <2>2, Zenon DEF Removed
  <2> QED
    BY <1>1, <2>1, <2>3, Zenon
<1>3. OneLink' /\ Finished'
  BY <1>1, Zenon DEF OneLink, Finished
<1>4. CASE LinkStart(p)
  <2>1. pc'[p] = "linking" /\ raced' = (\E q \in Procs \ {p} : pc[q] \in Linking)
    BY <1>4, Zenon DEF LinkStart, Continue, Goto, TypeOK, SlotsOK
  <2>2. NothingLinked'
    BY <2>1, Zenon DEF NothingLinked
  <2>3. ~raced' => \A q \in Procs : q # p => pc'[q] \notin Linking
    BY <2>1, Zenon DEF Others
  <2>4. ~raced' => OneTable'
    BY <1>1, <2>1, <2>3 DEF OneTable, Linking, Writing
  <2> QED
    BY <1>2, <1>3, <2>2, <2>4, Zenon DEF ImageInv
<1>5. CASE LinkFail(p)
  <2>1. pc[p] = "linking" /\ pc'[p] = "load" /\ raced' = raced /\ out' = Removed
    BY <1>5, Zenon DEF LinkFail, Continue, Goto, At, TypeOK, SlotsOK
  <2>2. NothingLinked'
    <3>1. ASSUME NEW q \in Procs, pc'[q] \in Writing PROVE out'[q].gone
      <4>1. pc[q] \in Writing
        BY <2>1, <3>1, Zenon DEF Others, Writing
      <4>2. out[q] \in Outs
        BY <3>1, Zenon DEF ImageInv
      <4>3. out'[q] = [out[q] EXCEPT !.gone = pc[q] \in Writing]
        BY <2>1, <3>1, Zenon DEF Removed
      <4> QED
        BY <4>1, <4>2, <4>3 DEF Outs
    <3> QED
      BY <1>1, <3>1, Zenon DEF NothingLinked
  <2>3. ASSUME "link" \notin killed', ~raced' PROVE OneTable'
    <3>1. \A q \in Procs : pc[q] \in Linking => q = p
      BY <1>1, <2>1, <2>3, Zenon DEF ImageInv, OneTable, Linking
    <3>2. \A q \in Procs : pc'[q] \in Linking => q = p
      BY <3>1, Zenon DEF Others
    <3> QED
      BY <1>1, <2>1, <3>2 DEF OneTable, Linking, Writing
  <2> QED
    BY <1>2, <1>3, <2>2, <2>3, Zenon DEF ImageInv
<1> QED
  BY <1>4, <1>5

\* ld is done: who ran it finishes its image, unless another's is there.
LEMMA ImageLinked ==
  ASSUME TypeOK, ImageInv, NEW p \in Procs, LinkEnd(p), Others(p)
  PROVE  ImageInv'
<1>1. /\ pc[p] = "linking" /\ pc'[p] = "load" /\ raced' = raced /\ out' = out
      /\ killed' = killed
  BY Zenon DEF LinkEnd, Continue, Goto, At, ghost, TypeOK, SlotsOK
<1>2. out' \in [Procs -> Outs]
  BY <1>1, Zenon DEF ImageInv
<1>3. ASSUME "link" \notin killed', ~raced'
      PROVE  /\ image = {} /\ \A q \in Procs : pc[q] \in Linking => q = p
             /\ \A q \in Procs : pc'[q] \in Linking => q = p
  <2>1. OneTable /\ pc[p] \in Linking
    BY <1>1, <1>3, Zenon DEF ImageInv, Linking
  <2> QED
    BY <1>1, <2>1, Zenon DEF OneTable, Others
<1>4. CASE \E kept \in SUBSET {x \in image : x[1] # "linked"} : image' = kept \cup {<<"linked", p>>}
  <2>1. Linked' = {p}
    BY <1>4 DEF Linked
  <2>2. OneLink' /\ Finished' /\ NothingLinked'
    BY <1>1, <2>1, Zenon DEF OneLink, Finished, Finishes, NothingLinked
  <2>3. ASSUME "link" \notin killed', ~raced' PROVE OneTable'
    <3>1. image' \subseteq Whole(p)
      BY <1>3, <1>4, <2>3 DEF Whole
    <3> QED
      BY <1>1, <1>3, <2>1, <2>3, <3>1, Zenon DEF OneTable, Linking, Writing
  <2> QED
    BY <1>2, <2>2, <2>3, Zenon DEF ImageInv
<1>5. CASE /\ Linked # {} \/ \E q \in Procs \ {p} : At(q, "linking")
           /\ UNCHANGED image
  <2>1. Linked' = Linked /\ OneLink'
    BY <1>5, Zenon DEF Linked, ImageInv, OneLink
  <2>2. ASSUME "link" \notin killed' PROVE Finished' /\ NothingLinked'
    <3>1. \A t, q \in Procs : Finishes(q, t) => Finishes(q, t)'
      BY <1>1, <1>5, Zenon DEF Finishes, Others, Writing
    <3>2. Finished'
      BY <1>1, <1>5, <2>1, <2>2, <3>1, Zenon DEF Finished, ImageInv, Linked
    <3>3. Linked = {} => \E q \in Procs : pc'[q] = "linking"
      BY <1>5, Zenon DEF At, Others
    <3> QED
      BY <2>1, <3>2, <3>3, Zenon DEF NothingLinked
  <2>3. ASSUME "link" \notin killed', ~raced' PROVE FALSE
    <3>1. Linked = {}
      BY <1>3, <2>3, Zenon DEF Linked
    <3> QED
      BY <1>3, <1>5, <2>3, <3>1, Zenon DEF At, Linking
  <2> QED
    BY <1>2, <2>1, <2>2, <2>3, Zenon DEF ImageInv
<1> QED
  BY <1>4, <1>5, Zenon DEF LinkEnd

\* The symbols are read, and the image is opened: nothing is written yet.
LEMMA ImageOpened ==
  ASSUME TypeOK, ImageInv, NEW p \in Procs, LoadLinked(p) \/ OpenImage(p), Others(p)
  PROVE  ImageInv'
<1>1. /\ image' = image /\ raced' = raced /\ killed' = killed /\ Linked' = Linked
      /\ pc[p] \in {"load", "open_so"}
  BY Zenon DEF LoadLinked, OpenImage, Linked, At, so, ghost
<1>2. \/ \E t \in Linked : /\ pc[p] = "load" /\ pc'[p] = "open_so"
                           /\ out' = [out EXCEPT ![p] = [of |-> t, gone |-> FALSE]]
      \/ /\ pc[p] = "open_so" /\ pc'[p] = "header" /\ out' = out
         /\ Linked # {} \/ \E q \in Procs : pc[q] = "linking"
      \/ Linked = {} /\ pc'[p] \in Ended /\ out' = out
  BY Zenon DEF LoadLinked, OpenImage, Continue, End, Goto, At, Ended, so, TypeOK, SlotsOK
<1>3. /\ out \in [Procs -> Outs]
      /\ out' \in [Procs -> Outs]
      /\ \A q \in Procs : q # p => out'[q] = out[q]
  <2>1. out \in [Procs -> Outs]
    BY Zenon DEF ImageInv
  <2>2. ASSUME NEW t \in Linked PROVE [of |-> t, gone |-> FALSE] \in Outs
    BY DEF Linked, Outs
  <2> QED
    BY <1>2, <2>1, <2>2, OutSet, Zenon
<1>4. OneLink /\ OneLink'
  BY <1>1, Zenon DEF ImageInv, OneLink
<1>5. ASSUME "link" \notin killed' PROVE Finished'
  <2>1. ASSUME NEW t \in Linked, NEW q \in Procs, Finishes(q, t) PROVE Finishes(q, t)'
    <3>1. CASE q # p
      BY <1>1, <1>3, <2>1, <3>1, Zenon DEF Finishes, Others
    <3>2. CASE q = p
      <4>1. CASE pc[p] = "load"
        <5>1. PICK u \in Linked : /\ pc'[p] = "open_so"
                                  /\ out' = [out EXCEPT ![p] = [of |-> u, gone |-> FALSE]]
          BY <1>2, <2>1, <4>1, Zenon
        <5>2. u = t
          BY <1>4, <2>1, Zenon DEF OneLink
        <5>3. out'[p].of = t /\ ~out'[p].gone
          BY <1>3, <5>1, <5>2, Zenon
        <5> QED
          BY <3>2, <5>1, <5>3, Zenon DEF Finishes
      <4>2. CASE pc[p] = "open_so"
        BY <1>2, <2>1, <3>2, <4>2, Zenon DEF Finishes, Writing
      <4> QED
        BY <1>1, <4>1, <4>2, Zenon
    <3> QED
      BY <3>1, <3>2, Zenon
  <2>2. Finished
    BY <1>1, <1>5, Zenon DEF ImageInv
  <2> QED
    BY <1>1, <2>1, <2>2, Zenon DEF Finished
<1>6. ASSUME "link" \notin killed' PROVE NothingLinked'
  <2>1. SUFFICES ASSUME Linked = {}
                 PROVE  \/ \E q \in Procs : pc'[q] = "linking"
                        \/ image' = {} /\ \A q \in Procs : pc'[q] \in Writing => out'[q].gone
    BY <1>1, Zenon DEF NothingLinked
  <2>2. \A q \in Procs : pc[q] = "linking" => pc'[q] = "linking"
    BY <1>1, Zenon DEF Others
  <2>3. CASE \E q \in Procs : pc[q] = "linking"
    BY <2>2, <2>3, Zenon
  <2>4. CASE ~\E q \in Procs : pc[q] = "linking"
    <3>1. image = {} /\ \A q \in Procs : pc[q] \in Writing => out[q].gone
      BY <1>1, <1>6, <2>1, <2>4, Zenon DEF ImageInv, NothingLinked
    <3>2. pc'[p] \in Ended
      BY <1>2, <2>1, <2>4, Zenon
    <3>3. pc'[p] \notin Writing
      BY <3>2, Zenon DEF Ended, Writing
    <3> QED
      BY <1>1, <1>3, <3>1, <3>3, Zenon DEF Others
  <2> QED
    BY <2>3, <2>4, Zenon
<1>7. ASSUME "link" \notin killed', ~raced' PROVE OneTable'
  <2>1. OneTable
    BY <1>1, <1>7, Zenon DEF ImageInv
  <2>2. pc[p] \in Linking /\ pc'[p] # "linking"
    BY <1>1, <1>2, Zenon DEF Linking, Ended
  <2>3. pc'[p] \in {"open_so"} \cup Writing => out'[p].of \in Linked
    <3>1. CASE pc[p] = "load" /\ pc'[p] = "open_so"
      <4>1. PICK t \in Linked : out' = [out EXCEPT ![p] = [of |-> t, gone |-> FALSE]]
        BY <1>2, <3>1, Zenon DEF Ended
      <4> QED
        BY <1>3, <4>1
    <3>2. CASE pc[p] = "open_so" /\ out' = out
      BY <2>1, <3>2, Zenon DEF OneTable
    <3>3. CASE pc'[p] \in Ended
      BY <3>3, Zenon DEF Ended, Writing
    <3> QED
      BY <1>2, <3>1, <3>2, <3>3, Zenon
  <2>4. \A q \in Procs : q # p => pc'[q] \notin Linking
    BY <2>1, <2>2, Zenon DEF OneTable, Others
  <2> QED
    BY <1>1, <2>1, <2>2, <2>3, <2>4, Zenon DEF OneTable, Linking
<1> QED
  BY <1>3, <1>4, <1>5, <1>6, <1>7, Zenon DEF ImageInv

\* What p writes, and where it goes on.
Wrote(p, parts, l) ==
  /\ image' = IF out[p].gone THEN image ELSE image \cup parts
  /\ pc'[p] = l /\ out'[p].of = out[p].of /\ out'[p].gone = out[p].gone

\* A part of the table is written, or the program headers are patched.
LEMMA ImageWritten ==
  ASSUME TypeOK, ImageInv, NEW p \in Procs, Others(p),
         WriteHeader(p) \/ WriteSymbols(p) \/ PatchHeaders(p)
  PROVE  ImageInv'
<1>1. /\ raced' = raced /\ killed' = killed /\ pc[p] \in Writing
      /\ out \in [Procs -> Outs]
  BY Zenon DEF WriteHeader, WriteSymbols, PatchHeaders, WriteImage, At, ghost, Writing, ImageInv
<1>2. \/ /\ pc[p] = "header" /\ Wrote(p, {<<"header", out[p].of>>}, "symbols") /\ out' = out
      \/ /\ pc[p] = "symbols" /\ Wrote(p, {<<"symbols", out[p].of>>}, "patch") /\ out' = out
      \/ /\ pc[p] = "patch" /\ pc'[p] \in Ended /\ out' = [out EXCEPT ![p] = NoOut]
         /\ image' = IF out[p].gone THEN image ELSE image \cup {<<"patched", t>> : t \in Linked}
  <2>1. \A l : Goto(p, l) => pc'[p] = l
    BY Zenon DEF Goto, TypeOK, SlotsOK
  <2>2. CASE WriteHeader(p)
    BY <2>1, <2>2, Zenon DEF WriteHeader, WriteImage, Wrote, Continue, At
  <2>3. CASE WriteSymbols(p)
    BY <2>1, <2>3, Zenon DEF WriteSymbols, WriteImage, Wrote, Continue, At
  <2>4. CASE PatchHeaders(p)
    BY <2>1, <2>4, Zenon DEF PatchHeaders, WriteImage, End, Ended, At
  <2> QED
    BY <2>2, <2>3, <2>4, Zenon
<1>3. /\ out' \in [Procs -> Outs]
      /\ \A q \in Procs : q # p => out'[q] = out[q]
  <2>1. NoOut \in Outs
    BY DEF NoOut, Outs
  <2> QED
    BY <1>1, <1>2, <2>1, OutSet, Zenon
<1>4. image \subseteq image' /\ (out[p].gone => image' = image)
  BY <1>2, Zenon DEF Wrote
<1>5. Linked' = Linked
  BY <1>2, <1>4 DEF Linked, Wrote
<1>6. OneLink'
  BY <1>5, Zenon DEF ImageInv, OneLink
<1>7. pc'[p] # "linking" /\ (pc'[p] \in Writing => out' = out)
  BY <1>2, Zenon DEF Wrote, Ended, Writing
<1>8. ASSUME "link" \notin killed' PROVE Finished'
  <2> SUFFICES ASSUME NEW t \in Linked
               PROVE  Whole(t) \subseteq image' \/ \E q \in Procs : Finishes(q, t)'
    BY <1>5, Zenon DEF Finished
  <2>1. Whole(t) \subseteq image \/ \E q \in Procs : Finishes(q, t)
    BY <1>1, <1>8, Zenon DEF ImageInv, Finished
  <2>2. ASSUME NEW q \in Procs, q # p, Finishes(q, t) PROVE Finishes(q, t)'
    BY <1>3, <1>4, <2>2, Zenon DEF Finishes, Others
  <2>3. CASE Finishes(p, t)
    <3>1. out[p].of = t /\ ~out[p].gone
      BY <1>1, <2>3, Zenon DEF Finishes, Writing
    <3>2. CASE pc[p] = "header"
      BY <1>2, <3>1, <3>2, Zenon DEF Finishes, Wrote, Writing
    <3>3. CASE pc[p] = "symbols"
      <4>1. <<"header", t>> \in image'
        BY <1>4, <2>3, <3>3, Zenon DEF Finishes
      <4> QED
        BY <1>2, <3>1, <3>3, <4>1, Zenon DEF Finishes, Wrote, Writing
    <3>4. CASE pc[p] = "patch"
      <4>1. <<"header", t>> \in image /\ <<"symbols", t>> \in image /\ <<"linked", t>> \in image
        BY <2>3, <3>4, Zenon DEF Finishes, Linked
      <4>2. <<"patched", t>> \in image'
        BY <1>2, <3>1, <3>4, Zenon DEF Wrote
      <4> QED
        BY <1>4, <4>1, <4>2 DEF Whole
    <3> QED
      BY <1>1, <3>2, <3>3, <3>4, Zenon DEF Writing
  <2> QED
    BY <1>4, <2>1, <2>2, <2>3, Zenon
<1>9. ASSUME "link" \notin killed' PROVE NothingLinked'
  <2>1. \A q \in Procs : pc[q] = "linking" => pc'[q] = "linking"
    BY <1>1, Zenon DEF Others, Writing
  <2>2. NothingLinked
    BY <1>1, <1>9, Zenon DEF ImageInv
  <2>3. ASSUME image = {}, \A q \in Procs : pc[q] \in Writing => out[q].gone
        PROVE  image' = {} /\ \A q \in Procs : pc'[q] \in Writing => out'[q].gone
    BY <1>1, <1>3, <1>4, <1>7, <2>3, Zenon DEF Others
  <2> QED
    BY <1>5, <2>1, <2>2, <2>3, Zenon DEF NothingLinked
<1>10. ASSUME "link" \notin killed', ~raced' PROVE OneTable'
  <2>1. OneTable
    BY <1>1, <1>10, Zenon DEF ImageInv
  <2>2. pc[p] \in Linking /\ out[p].of \in Linked
    BY <1>1, <2>1, Zenon DEF OneTable, Linking
  <2>3. \A q \in Procs : q # p => pc'[q] \notin Linking
    BY <2>1, <2>2, Zenon DEF OneTable, Others
  <2>4. ASSUME NEW t \in Linked PROVE image' \subseteq Whole(t)
    <3>1. image \subseteq Whole(t) /\ out[p].of = t /\ \A u \in Linked : u = t
      BY <2>1, <2>2, <2>4, Zenon DEF OneTable, ImageInv, OneLink
    <3>2. {<<"header", t>>, <<"symbols", t>>, <<"patched", t>>} \subseteq Whole(t)
      BY DEF Whole
    <3> QED
      BY <1>2, <3>1, <3>2, Zenon DEF Wrote
  <2>5. pc'[p] \in {"open_so"} \cup Writing => out'[p].of \in Linked
    <3>1. pc'[p] # "open_so"
      BY <1>2, Zenon DEF Wrote, Ended
    <3> QED
      BY <1>7, <2>2, <3>1, Zenon
  <2> QED
    BY <1>5, <1>7, <2>3, <2>4, <2>5, Zenon DEF OneTable, Linking
<1> QED
  BY <1>3, <1>6, <1>8, <1>9, <1>10, Zenon DEF ImageInv

\* The image after a step of any kind.
LEMMA ImageStep ==
  ASSUME TypeOK, CreateInv, ImageInv, NEW p \in Procs, Start(p) \/ Step(p) \/ Kill(p)
  PROVE  ImageInv'
<1>1. Others(p)
  BY StepSlots, Zenon DEF Slots, OnlyMoves, Others
<1>2. CASE LinkStep(p)
  BY <1>1, <1>2, ImageRemoved, ImageLinked, ImageOpened, ImageWritten, Zenon DEF LinkStep
<1>3. CASE ~LinkStep(p)
  <2>1. /\ image' = image /\ out' = out /\ raced' = raced /\ Linked' = Linked
        /\ pc'[p] \notin Linking /\ (pc[p] \in Linking => "link" \in killed')
    BY <1>3, OtherStepsKeepImage, Zenon DEF Linked
  <2>2. out' \in [Procs -> Outs] /\ OneLink'
    BY <2>1, Zenon DEF ImageInv, OneLink
  <2>3. ASSUME "link" \notin killed' PROVE Finished' /\ NothingLinked' /\ (~raced' => OneTable')
    <3>1. Finished /\ NothingLinked /\ (~raced => OneTable)
      BY <2>3, KilledGrows, Zenon DEF ImageInv
    <3>2. \A q \in Procs : \/ pc'[q] = pc[q]
                           \/ pc'[q] \notin Linking /\ pc[q] \notin Linking
      BY <1>1, <2>1, <2>3, Zenon DEF Others
    <3>3. \A t, q \in Procs : Finishes(q, t) => Finishes(q, t)'
      BY <2>1, <3>2, Zenon DEF Finishes, Linking, Writing
    <3>4. Finished'
      BY <2>1, <3>1, <3>3, Zenon DEF Finished, Linked
    <3>5. NothingLinked'
      BY <2>1, <3>1, <3>2, Zenon DEF NothingLinked, Linking
    <3>6. ~raced' => OneTable'
      BY <2>1, <3>1, <3>2, Zenon DEF OneTable, Linking
    <3> QED
      BY <3>4, <3>5, <3>6, Zenon
  <2> QED
    BY <2>2, <2>3, Zenon DEF ImageInv
<1> QED
  BY <1>2, <1>3, Zenon

-----------------------------------------------------------------------------
(* The theorems *)

\* At first there is no file, no image and no process.
LEMMA InitInv == Init => Inv
<1> SUFFICES ASSUME Init PROVE Inv
  BY Zenon
<1>1. \A p \in Procs : /\ pc[p] = "done" /\ flock[p] = "none" /\ fmap[p] = "none"
                       /\ page2idx[p] = Empty /\ todo[p] = {} /\ kind[p] = "elfrun"
  BY Zenon DEF Init
<1>2. /\ file.n_pages = 0 /\ ~file.exists /\ ~file.sized /\ ~file.csum
      /\ \A i \in Indices : file.pages[i] = NoData
  BY Zenon DEF Init
<1>3. file \in FileType
  <2>1. NoData \in PageData
    BY Zenon DEF NoData, PageData
  <2>2. [i \in Indices |-> NoData] \in [Indices -> PageData]
    BY <2>1, Zenon
  <2> QED
    BY <2>2, Zenon DEF Init, FileType
<1>4. SlotsOK
  <2>1. Empty \in PageIndex
    BY EmptyIndex, Zenon
  <2> QED
    BY <2>1, Zenon DEF Init, SlotsOK, Places, Ended, Kinds
<1>5. LockInv
  BY <1>1, Zenon DEF LockInv, LockOf, Unlocked, Ended, Linking, Writing, Updating
<1>6. CreateInv
  BY <1>1, <1>2, Zenon DEF CreateInv, Creating, ChecksumStored
<1>7. PagesInv
  BY <1>1, <1>2 DEF PagesInv, OneEntryPerPage, IndexOf, Updating, NoData
<1>8. MarksInv /\ ExactInv
  <2>1. recorded = {}
    BY Zenon DEF Init
  <2> QED
    BY <1>1, <1>2, <2>1 DEF MarksInv, Durable, MarksOf, ExactInv, MarksFrom, NoData
<1>9. ImageInv
  <2>1. image = {} /\ Linked = {} /\ out = [p \in Procs |-> NoOut]
    BY Zenon DEF Init, Linked
  <2>2. out \in [Procs -> Outs]
    BY <2>1 DEF NoOut, Outs
  <2>3. OneLink /\ Finished /\ NothingLinked /\ OneTable
    BY <1>1, <2>1, Zenon DEF OneLink, Finished, NothingLinked, OneTable, Linking, Writing
  <2> QED
    BY <2>2, <2>3, Zenon DEF ImageInv
<1> QED
  BY <1>3, <1>4, <1>5, <1>6, <1>7, <1>8, <1>9, Zenon DEF Inv, TypeOK

\* Every step keeps the invariant, and takes nothing from the profile.
LEMMA NextInv ==
  ASSUME Inv, NEW p \in Procs, Start(p) \/ Step(p) \/ Kill(p)
  PROVE  Inv' /\ Grown
<1> USE DEF Inv
<1>1. SlotsOK'
  BY StepSlots, Zenon DEF Slots
<1>2. LockInv'
  BY LockStep, Zenon
<1>3. CreateInv' /\ file' \in FileType
  BY CreateStep, Zenon DEF PagesInv
<1>4. PagesInv'
  BY PagesStep, Zenon
<1>5. MarksInv'
  BY <1>3, MarksStep, Zenon
<1>6. ExactInv'
  BY ExactStep, Zenon
<1>7. ImageInv'
  BY ImageStep, Zenon
<1>8. Grown
  BY GrowsStep, Zenon
<1> QED
  BY <1>1, <1>2, <1>3, <1>4, <1>5, <1>6, <1>7, <1>8, Zenon DEF TypeOK

\* So does a step in which nothing happens.
LEMMA StutterInv == Inv /\ UNCHANGED vars => Inv'
<1> SUFFICES ASSUME Inv, UNCHANGED vars PROVE Inv'
  BY Zenon
<1>1. UNCHANGED <<file, image, out, raced, flock, pc, kind, fmap, page2idx, todo, runs, recorded, killed>>
  BY Zenon DEF vars, shared, so, mem, ghost
<1>2. TypeOK' /\ LockInv' /\ CreateInv'
  BY <1>1, Zenon DEF Inv, TypeOK, SlotsOK, LockInv, LockOf, MayWrite, Updating, CreateInv, ChecksumStored
<1>3. \A q \in Procs : FirstBlock(q)' = FirstBlock(q) /\ Entry(q)' = Entry(q)
  BY <1>1, SameEntry, Zenon
<1>4. PagesInv'
  <2>1. PagesKept
    BY <1>1, Zenon DEF Inv, TypeOK, PagesKept
  <2>2. \A q \in Procs : IndexOf(q)'
    BY <1>1, <2>1, IndexKept, Zenon DEF Inv, PagesInv
  <2> QED
    BY <1>1, <2>2, Zenon DEF Inv, PagesInv, OneEntryPerPage
<1>5. MarksInv'
  BY <1>1, <1>3, Zenon DEF Inv, MarksInv, Durable, MarksOf
<1>6. ExactInv'
  <2>1. \A i \in Indices : MarksFrom(i) => MarksFrom(i)'
    BY <1>1, <1>3, MarksFromKept, Zenon DEF AtHand
  <2> QED
    BY <1>1, <2>1, Zenon DEF Inv, ExactInv
<1>7. ImageInv'
  BY <1>1, Zenon DEF Inv, ImageInv, OneLink, Finished, Finishes, NothingLinked, OneTable, Linked
<1> QED
  BY <1>2, <1>4, <1>5, <1>6, <1>7, Zenon DEF Inv

\* The invariant holds of every behaviour.
THEOREM Invariance == Spec => []Inv
<1>1. Inv /\ [Next]_vars => Inv'
  <2> SUFFICES ASSUME Inv, [Next]_vars PROVE Inv'
    BY Zenon
  <2>1. CASE \E p \in Procs : Start(p) \/ Step(p) \/ Kill(p)
    BY <2>1, NextInv, Zenon
  <2>2. CASE UNCHANGED vars
    BY <2>2, StutterInv, Zenon
  <2> QED
    BY <2>1, <2>2, Zenon DEF Next, AllEnded
<1> QED
  BY InitInv, <1>1, PTL DEF Spec

\* Whoever has the profile mapped for writing is alone with it: it holds the
\* exclusive lock, and what others have mapped they have locked.
THEOREM OneWriterHolds == Spec => []OneWriter
<1>1. Inv => OneWriter
  BY WriterLocked, LockedAlone, Zenon DEF Inv, OneWriter
<1> QED
  BY Invariance, <1>1, PTL

\* objprof::Announce meets a wrong checksum only after a creator was killed.
THEOREM ChecksumStoredHolds == Spec => []ChecksumStored
<1>1. Inv => ChecksumStored
  BY Zenon DEF Inv, CreateInv
<1> QED
  BY Invariance, <1>1, PTL

\* A page has one entry.
THEOREM OneEntryPerPageHolds == Spec => []OneEntryPerPage
<1>1. Inv => OneEntryPerPage
  BY Zenon DEF Inv, PagesInv
<1> QED
  BY Invariance, <1>1, PTL

\* A block that was recorded to the end stays in the profile with its marks.
THEOREM DurableHolds == Spec => []Durable
<1>1. Inv => Durable
  BY Zenon DEF Inv, MarksInv
<1> QED
  BY Invariance, <1>1, PTL

\* Unless an update was cut short, the profile holds recorded marks only: when no
\* update is under way there is no block at hand.
THEOREM ExactHolds == Spec => []Exact
<1>1. ASSUME Inv PROVE Exact
  <2> SUFFICES ASSUME "update" \notin killed, \A p \in Procs : ~Updating(p),
                      NEW i \in Indices
               PROVE  /\ \A po \in file.pages[i].executed :
                           \E b \in recorded : b.page = file.pages[i].pageno /\ b.po = po
                      /\ \A po \in file.pages[i].brind_target :
                           \E b \in recorded :
                             b.page = file.pages[i].pageno /\ b.po = po /\ b.brind
                      /\ \A po \in file.pages[i].segment_entry :
                           \E b \in recorded :
                             b.page = file.pages[i].pageno /\ b.po = po /\ b.seg
    BY Zenon DEF Exact
  <2>1. MarksFrom(i)
    BY <1>1, Zenon DEF Inv, ExactInv
  <2>2. \A p \in Procs : \A po : ~AtHand(p, i, po)
    BY Zenon DEF AtHand, Updating
  <2> QED
    BY <2>1, <2>2, Zenon DEF MarksFrom
<1> QED
  BY Invariance, <1>1, PTL

\* elfrun --aot boots from a finished image or from none, unless an elfaot was
\* killed: who boots holds the exclusive lock, and who links holds a shared one.
\* The image has one table, that of its own link, if its elfaot linked alone.
THEOREM ImageFinishedHolds == Spec => []ImageFinished
<1>1. ASSUME Inv PROVE ImageFinished
  <2> SUFFICES ASSUME NEW p \in Procs, pc[p] = "boot", "link" \notin killed, image # {}
               PROVE  \E t \in Procs : Whole(t) \subseteq image /\ (~raced => image = Whole(t))
    BY Zenon DEF ImageFinished
  <2>1. flock[p] = "EX"
    BY <1>1, WriterLocked, Zenon DEF Inv
  <2>2. \A q \in Procs : pc[q] \notin Linking
    BY <1>1, <2>1, LockedAlone, Zenon DEF Inv, Linking, Writing
  <2>3. Finished /\ NothingLinked /\ (~raced => OneTable)
    BY <1>1, Zenon DEF Inv, ImageInv
  <2>4. PICK t \in Linked : TRUE
    BY <2>2, <2>3, Zenon DEF NothingLinked, Linking
  <2>5. Whole(t) \subseteq image
    BY <2>2, <2>3, Zenon DEF Finished, Finishes, Linking, Writing
  <2>6. ~raced => image \subseteq Whole(t)
    BY <2>3, Zenon DEF OneTable
  <2>7. t \in Procs
    BY Zenon DEF Linked
  <2> QED
    BY <2>5, <2>6, <2>7
<1> QED
  BY Invariance, <1>1, PTL

\* No process ever takes a mark or a page out of the profile.
THEOREM GrowsHolds == Spec => Grows
<1> DEFINE Body == /\ file'.n_pages >= file.n_pages
                   /\ \A i \in Indices :
                        LET e == file.pages[i]  d == file'.pages[i]
                        IN  /\ e.pageno \in {0, d.pageno}
                            /\ e.executed \subseteq d.executed
                            /\ e.brind_target \subseteq d.brind_target
                            /\ e.segment_entry \subseteq d.segment_entry
<1>1. Inv /\ [Next]_vars => [Body]_vars
  <2> SUFFICES ASSUME Inv, Next PROVE Body \/ UNCHANGED vars
    BY Zenon
  <2>1. CASE \E p \in Procs : Start(p) \/ Step(p) \/ Kill(p)
    <3>1. Grown
      BY <2>1, NextInv, Zenon
    <3> QED
      BY <3>1 DEF Grown, GrownEntry, NoData
  <2> QED
    BY <2>1, Zenon DEF Next, AllEnded
<1> QED
  BY Invariance, <1>1, PTL DEF Spec, Grows

=============================================================================
