----------------------------- MODULE ProfileFile -----------------------------
(***************************************************************************)
(* The profile and the AOT image of one guest program, shared by every     *)
(* process that runs or compiles it.  fsmanager opens or creates the .prof *)
(* file under flock(), objprof maps it and adds to it when the guest has   *)
(* exited, elfaot makes an image from it, and elfrun --aot loads the       *)
(* image.  A process may be killed between any two system calls or stores; *)
(* the kernel then drops its lock, and what it stored stays in the file.   *)
(*                                                                         *)
(* An operator named Op_Variant is a mistaken form of Op.                  *)
(***************************************************************************)
EXTENDS Integers

CONSTANTS Procs,      \* process slots; a slot is used again after its process
          MAX_RUNS,   \* processes that are started in all
          MAX_PAGES,  \* PageData entries that fit in fsize
          Sessions    \* sets of [page, po, brind, seg], the tcache at exit

VARIABLES file,      \* the .prof file
          image,     \* parts of the .so on the disk, each with the link it is of
          out,       \* the link whose symbols a process read, and its descriptor
          raced,     \* whether another elfaot was at work when ld last began
          flock,     \* lock that each process holds on the .prof file
          pc, kind,  \* where each process is, and which program it runs
          fmap,      \* ElfProfile::fmap and its protection
          page2idx,  \* ElfProfile::page2idx
          todo,      \* blocks of the tcache that are yet to be recorded
          runs,      \* processes started so far
          recorded,  \* blocks that were recorded to the end
          killed     \* what kills have cut short

so == <<image, out, raced>>
shared == <<file, so, flock>>
mem == <<kind, fmap, page2idx, todo>>
ghost == <<runs, recorded, killed>>
vars == <<shared, pc, mem, ghost>>

ASSUME ProfileAssumption ==
  /\ MAX_RUNS \in Nat /\ MAX_PAGES \in Nat
  /\ \A b \in UNION Sessions : b.page \in Nat \ {0} /\ b.po \in Nat

Kinds == {"elfrun", "elfrun_aot", "elfaot", "elfaot_llvm"}

MayWrite(p) == kind[p] \in {"elfrun", "elfrun_aot"}

NoData == [pageno |-> 0, executed |-> {}, brind_target |-> {}, segment_entry |-> {}]

\* Entry MAX_PAGES does not fit, but what BuildModuleGraph reads of it, pageno and
\* the executed bits, is still inside the file.
Indices == 0 .. MAX_PAGES

Empty == [g \in {} |-> 0]

NoOut == [of |-> "none", gone |-> FALSE]

Init ==
  /\ file = [exists |-> FALSE, sized |-> FALSE, csum |-> FALSE, n_pages |-> 0,
             pages |-> [i \in Indices |-> NoData]]
  /\ image = {} /\ out = [p \in Procs |-> NoOut] /\ raced = FALSE
  /\ flock = [p \in Procs |-> "none"]
  /\ pc = [p \in Procs |-> "done"]
  /\ kind = [p \in Procs |-> "elfrun"]
  /\ fmap = [p \in Procs |-> "none"]
  /\ page2idx = [p \in Procs |-> Empty]
  /\ todo = [p \in Procs |-> {}]
  /\ runs = 0 /\ recorded = {} /\ killed = {}

Goto(p, l) == pc' = [pc EXCEPT ![p] = l]

At(p, l) == pc[p] = l

Ended == {"done", "panic", "bad_checksum", "null_profile", "null_image", "assert",
          "fault", "killed"}

\* No other process holds a lock that conflicts with the one p asks for.
Lockable(p, l) ==
  \A q \in Procs \ {p} : flock[q] = "none" \/ (l = "SH" /\ flock[q] = "SH")

Lock(p, l) == flock' = [flock EXCEPT ![p] = l]

\* The process is gone, with its memory and with its lock.
End(p, l) ==
  /\ Goto(p, l)
  /\ Lock(p, "none")
  /\ fmap' = [fmap EXCEPT ![p] = "none"]
  /\ page2idx' = [page2idx EXCEPT ![p] = Empty]
  /\ todo' = [todo EXCEPT ![p] = {}]
  /\ UNCHANGED kind

Continue(p, l) == Goto(p, l) /\ UNCHANGED <<flock, mem>>

Start(p) ==
  /\ pc[p] \in Ended
  /\ runs < MAX_RUNS
  /\ runs' = runs + 1
  /\ \E k \in Kinds : kind' = [kind EXCEPT ![p] = k]
  /\ Goto(p, "open")
  /\ UNCHANGED <<shared, fmap, page2idx, todo, recorded, killed>>

-----------------------------------------------------------------------------
(* Task_OpenCacheFile *)

\* CacheState::NO_FILE: the process goes on without a profile.
NoFile(p) == Goto(p, IF MayWrite(p) THEN "guest" ELSE "compile")

Open(p) ==
  /\ At(p, "open")
  /\ \/ file.exists /\ Goto(p, "lock")
     \/ ~file.exists /\ MayWrite(p) /\ Goto(p, "create")
     \/ ~file.exists /\ ~MayWrite(p) /\ NoFile(p)
  /\ UNCHANGED <<shared, mem, ghost>>

\* open(O_CREAT | O_EXCL)
Create(p) ==
  /\ At(p, "create")
  /\ \/ ~file.exists /\ file' = [file EXCEPT !.exists = TRUE] /\ Goto(p, "lockex")
     \/ file.exists /\ NoFile(p) /\ UNCHANGED file
  /\ UNCHANGED <<so, flock, mem, ghost>>

\* A blocking flock()
LockCreated(p) ==
  /\ At(p, "lockex")
  /\ Lockable(p, "EX")
  /\ Lock(p, "EX")
  /\ Goto(p, "truncate")
  /\ UNCHANGED <<file, so, mem, ghost>>

\* ftruncate() and mmap()
Truncate(p) ==
  /\ At(p, "truncate")
  /\ file' = [file EXCEPT !.sized = TRUE]
  /\ fmap' = [fmap EXCEPT ![p] = "RDWR"]
  /\ Goto(p, "csum")
  /\ UNCHANGED <<so, flock, kind, page2idx, todo, ghost>>

LockExisting_Shared(p) ==
  /\ At(p, "lock")
  /\ \/ Lockable(p, "SH") /\ Lock(p, "SH") /\ Goto(p, "stat")
     \/ ~Lockable(p, "SH") /\ NoFile(p) /\ UNCHANGED flock
  /\ UNCHANGED <<file, so, mem, ghost>>

\* flock(LOCK_NB), exclusive if the process may write
LockExisting(p) ==
  /\ At(p, "lock")
  /\ LET l == IF MayWrite(p) THEN "EX" ELSE "SH"
     IN  \/ Lockable(p, l) /\ Lock(p, l) /\ Goto(p, "stat")
         \/ ~Lockable(p, l) /\ NoFile(p) /\ UNCHANGED flock
  /\ UNCHANGED <<file, so, mem, ghost>>

MapExisting(p) ==
  /\ fmap' = [fmap EXCEPT ![p] = IF MayWrite(p) THEN "RDWR" ELSE "RDONLY"]
  /\ Goto(p, "announce")
  /\ UNCHANGED flock

StatExisting_NoCheck(p) ==
  /\ At(p, "stat")
  /\ MapExisting(p)
  /\ UNCHANGED <<file, so, kind, page2idx, todo, ghost>>

\* A file of size 0 was just created by a process that has yet to lock it.
StatExisting(p) ==
  /\ At(p, "stat")
  /\ \/ ~file.sized /\ Lock(p, "none") /\ NoFile(p) /\ UNCHANGED fmap
     \/ file.sized /\ MapExisting(p)
  /\ UNCHANGED <<file, so, kind, page2idx, todo, ghost>>

-----------------------------------------------------------------------------
(* objprof::Announce *)

StoreChecksum(p) ==
  /\ At(p, "csum")
  /\ file' = [file EXCEPT !.csum = TRUE]
  /\ Continue(p, "n_pages")
  /\ UNCHANGED <<so, ghost>>

StoreNPages(p) ==
  /\ At(p, "n_pages")
  /\ file' = [file EXCEPT !.n_pages = 0]
  /\ Continue(p, "guest")
  /\ UNCHANGED <<so, ghost>>

Announced_Short == 0 .. file.n_pages - 2

\* The entries that n_pages counts.
Announced == 0 .. file.n_pages - 1

\* page2idx.insert() keeps the first entry of a page.
FirstIdx(g) ==
  CHOOSE i \in Announced :
    file.pages[i].pageno = g /\ \A j \in 0 .. i - 1 : file.pages[j].pageno # g

Announce(p) ==
  /\ At(p, "announce")
  /\ \/ ~file.csum /\ End(p, "bad_checksum")
     \/ \* entries beyond the end of the file are read
        file.csum /\ file.n_pages > MAX_PAGES + 1 /\ End(p, "fault")
     \/ /\ file.csum /\ file.n_pages <= MAX_PAGES + 1
        /\ page2idx' = [page2idx EXCEPT ![p] =
             [g \in {file.pages[i].pageno : i \in Announced} |-> FirstIdx(g)]]
        /\ \/ kind[p] = "elfrun" /\ Goto(p, "guest")
           \/ kind[p] = "elfrun_aot" /\ Goto(p, "boot")
           \/ ~MayWrite(p) /\ Goto(p, "compile")
        /\ UNCHANGED <<flock, kind, fmap, todo>>
  /\ UNCHANGED <<file, so, ghost>>

\* The link that the image is of; the process that linked it stands for it.
Linked == {t \in Procs : <<"linked", t>> \in image}

\* What BootAOTFile finds in a table whose header is written and whose symbols
\* are not: symbols of address 0.
ZeroBlock == [page |-> 0, po |-> 0, brind |-> FALSE, seg |-> FALSE]

\* BootAOTFile: without an image that dlopen() takes, the null handle is used.  An
\* image whose code was not made writable may fault when a branch is linked, and
\* one with a table of another link may fault anywhere.
Boot(p) ==
  /\ At(p, "boot")
  /\ \/ Linked = {} /\ End(p, "null_image")
     \/ /\ Linked # {} /\ \E x \in image : x[1] = "header"
        /\ (\A x \in image : x[1] # "patched") \/ (\E x, y \in image : x[2] # y[2])
        /\ End(p, "fault")
     \/ \E t \in Linked :
          /\ todo' = [todo EXCEPT ![p] =
               IF <<"header", t>> \in image /\ <<"symbols", t>> \notin image
               THEN {ZeroBlock} ELSE {}]
          /\ Goto(p, "guest")
          /\ UNCHANGED <<flock, kind, fmap, page2idx>>
  /\ UNCHANGED <<file, so, ghost>>

\* The guest runs to its end and leaves its blocks in the tcache.
RunGuest(p) ==
  /\ At(p, "guest")
  /\ \E s \in Sessions : todo' = [todo EXCEPT ![p] = @ \cup s]
  /\ Goto(p, "page")
  /\ UNCHANGED <<shared, kind, fmap, page2idx, ghost>>

-----------------------------------------------------------------------------
(* objprof::UpdateProfile *)

\* tcache_map is ordered by address.
FirstBlock(p) ==
  CHOOSE b \in todo[p] :
    \A c \in todo[p] : b.page < c.page \/ (b.page = c.page /\ b.po <= c.po)

Entry(p) == page2idx[p][FirstBlock(p).page]

\* A store to the entry of the block at hand; d is what it makes of the entry.
StoreEntry(p, d, l) ==
  /\ file' = [file EXCEPT !.pages[Entry(p)] = d]
  /\ Continue(p, l)
  /\ UNCHANGED <<so, ghost>>

AllocatePageData_Zero(p) ==
  /\ At(p, "page") /\ todo[p] # {} /\ fmap[p] # "none"
  /\ FirstBlock(p).page \notin DOMAIN page2idx[p]
  /\ file' = [file EXCEPT !.n_pages = @ + 1]
  /\ page2idx' = [page2idx EXCEPT ![p] =
       [g \in DOMAIN @ \cup {FirstBlock(p).page} |-> IF g \in DOMAIN @ THEN @[g] ELSE 0]]
  /\ Goto(p, "pageno")
  /\ UNCHANGED <<so, flock, kind, fmap, todo, ghost>>

\* n_pages is counted up before the bound is checked and before pageno is set.
AllocatePageData(p) ==
  /\ At(p, "page") /\ todo[p] # {} /\ fmap[p] # "none"
  /\ FirstBlock(p).page \notin DOMAIN page2idx[p]
  /\ file' = [file EXCEPT !.n_pages = @ + 1]
  /\ \/ file.n_pages + 1 > MAX_PAGES /\ End(p, "panic")
     \/ /\ file.n_pages + 1 <= MAX_PAGES
        /\ page2idx' = [page2idx EXCEPT ![p] =
             [g \in DOMAIN @ \cup {FirstBlock(p).page} |->
                IF g \in DOMAIN @ THEN @[g] ELSE file.n_pages]]
        /\ Goto(p, "pageno")
        /\ UNCHANGED <<flock, kind, fmap, todo>>
  /\ UNCHANGED <<so, ghost>>

StorePageno(p) ==
  /\ At(p, "pageno")
  /\ StoreEntry(p, [file.pages[Entry(p)] EXCEPT !.pageno = FirstBlock(p).page], "executed")

\* GetOrCreatePageData finds the page.
FindPageData(p) ==
  /\ At(p, "page") /\ todo[p] # {} /\ fmap[p] # "none"
  /\ FirstBlock(p).page \in DOMAIN page2idx[p]
  /\ Continue(p, "executed")
  /\ UNCHANGED <<file, so, ghost>>

SetExecuted(p) ==
  /\ At(p, "executed")
  /\ StoreEntry(p, [file.pages[Entry(p)] EXCEPT !.executed = @ \cup {FirstBlock(p).po}],
                "brind_target")

Observed_Always(bits, po, val) == bits \cup {po}

Observed_Assign(bits, po, val) == IF val THEN bits \cup {po} ELSE bits \ {po}

\* upd_observed() sets the bit of po if val, and never clears it.
Observed(bits, po, val) == IF val THEN bits \cup {po} ELSE bits

SetBrindTarget(p) ==
  /\ At(p, "brind_target")
  /\ LET b == FirstBlock(p)
     IN  StoreEntry(p, [file.pages[Entry(p)] EXCEPT !.brind_target = Observed(@, b.po, b.brind)],
                    "segment_entry")

SetSegmentEntry_Stay(p) ==
  /\ At(p, "segment_entry")
  /\ LET b == FirstBlock(p)
     IN  /\ file' = [file EXCEPT !.pages[Entry(p)].segment_entry = Observed(@, b.po, b.seg)]
         /\ recorded' = recorded \cup {b}
  /\ Goto(p, "page")
  /\ UNCHANGED <<so, flock, kind, fmap, page2idx, todo, runs, killed>>

\* The last mark of the block; the next block follows.
SetSegmentEntry(p) ==
  /\ At(p, "segment_entry")
  /\ LET b == FirstBlock(p)
     IN  /\ file' = [file EXCEPT !.pages[Entry(p)].segment_entry = Observed(@, b.po, b.seg)]
         /\ todo' = [todo EXCEPT ![p] = @ \ {b}]
         /\ recorded' = recorded \cup {b}
  /\ Goto(p, "page")
  /\ UNCHANGED <<so, flock, kind, fmap, page2idx, runs, killed>>

\* UpdateProfile does not ask HasProfile().
UpdateNull(p) ==
  /\ At(p, "page") /\ todo[p] # {} /\ fmap[p] = "none"
  /\ End(p, "null_profile")
  /\ UNCHANGED <<file, so, ghost>>

\* fsmanager::Destroy ends the worker thread that owns the descriptor.
UpdateDone(p) ==
  /\ At(p, "page") /\ todo[p] = {}
  /\ End(p, "done")
  /\ UNCHANGED <<file, so, ghost>>

-----------------------------------------------------------------------------
(* elfaot *)

\* A block with neither mark may be one that nothing of its page branches to.
Unmarked(e) == e.executed \ (e.brind_target \cup e.segment_entry) # {}

Compile_Unlock(p) ==
  /\ At(p, "compile")
  /\ \/ /\ fmap[p] # "none" /\ fmap' = [fmap EXCEPT ![p] = "none"]
        /\ Lock(p, "none") /\ Goto(p, "ld")
        /\ UNCHANGED <<kind, page2idx, todo>>
     \/ fmap[p] = "none" /\ End(p, "done")
  /\ UNCHANGED <<file, so, ghost>>

\* AOTCompileELF asks HasProfile(); LLVMAOTCompileELF does not, and GetProfile()
\* asserts it.  ComputeDomTree panics on a page with an unreachable block.
Compile(p) ==
  /\ At(p, "compile")
  /\ \/ fmap[p] # "none" /\ Continue(p, "ld")
     \/ /\ fmap[p] # "none" /\ \E i \in Announced : Unmarked(file.pages[i])
        /\ End(p, "panic")
     \/ fmap[p] = "none" /\ kind[p] = "elfaot" /\ End(p, "done")
     \/ fmap[p] = "none" /\ kind[p] = "elfaot_llvm" /\ End(p, "assert")
  /\ UNCHANGED <<file, so, ghost>>

(* LinkAOTObject *)

Writing == {"header", "symbols", "patch"}

Linking == {"linking", "load", "open_so"} \cup Writing

\* The descriptors of the image when its file is removed.
Removed == [q \in Procs |-> [out[q] EXCEPT !.gone = pc[q] \in Writing]]

\* ld removes the image, or writes over an empty one ...
LinkStart(p) ==
  /\ At(p, "ld")
  /\ image' = {}
  /\ out' \in {out, Removed}
  /\ raced' = (\E q \in Procs \ {p} : pc[q] \in Linking)
  /\ Continue(p, "linking")
  /\ UNCHANGED <<file, ghost>>

\* ... and makes it, over what another process wrote into it meanwhile, or in a
\* file that another ld has removed ...
LinkEnd(p) ==
  /\ At(p, "linking")
  /\ \/ \E kept \in SUBSET {x \in image : x[1] # "linked"} :
          image' = kept \cup {<<"linked", p>>}
     \/ /\ Linked # {} \/ \E q \in Procs \ {p} : At(q, "linking")
        /\ UNCHANGED image
  /\ Continue(p, "load")
  /\ UNCHANGED <<file, out, raced, ghost>>

\* ... or fails and leaves none: system() does not return its exit status as < 0.
LinkFail(p) ==
  /\ At(p, "linking")
  /\ image' = {}
  /\ out' = Removed
  /\ Continue(p, "load")
  /\ UNCHANGED <<file, raced, ghost>>

\* The symbols of the image that is there now are read; without one, sym_sec is null.
LoadLinked(p) ==
  /\ At(p, "load")
  /\ \/ \E t \in Linked : /\ out' = [out EXCEPT ![p] = [of |-> t, gone |-> FALSE]]
                           /\ Continue(p, "open_so")
     \/ Linked = {} /\ End(p, "fault") /\ UNCHANGED out
  /\ UNCHANGED <<file, image, raced, ghost>>

\* A descriptor of -1 passes the check, and lseek() fails on it.
OpenImage(p) ==
  /\ At(p, "open_so")
  /\ \/ (Linked # {} \/ \E q \in Procs : At(q, "linking")) /\ Continue(p, "header")
     \/ Linked = {} /\ End(p, "panic")
  /\ UNCHANGED <<file, so, ghost>>

\* Parts that p writes into the file that it opened, which may be the image of a
\* later link, or no image any more.
WriteImage(p, parts) ==
  /\ image' = IF out[p].gone THEN image ELSE image \cup parts
  /\ UNCHANGED <<file, raced, ghost>>

WriteHeader(p) ==
  /\ At(p, "header")
  /\ WriteImage(p, {<<"header", out[p].of>>})
  /\ Continue(p, "symbols")
  /\ UNCHANGED out

WriteSymbols(p) ==
  /\ At(p, "symbols")
  /\ WriteImage(p, {<<"symbols", out[p].of>>})
  /\ Continue(p, "patch")
  /\ UNCHANGED out

\* The code is made writable, by the program headers that are there now; an empty
\* file cannot be mapped.  fsmanager::Destroy follows.
PatchHeaders(p) ==
  /\ At(p, "patch")
  /\ WriteImage(p, {<<"patched", t>> : t \in Linked})
  /\ out' = [out EXCEPT ![p] = NoOut]
  /\ \/ End(p, "done")
     \/ ~out[p].gone /\ Linked = {} /\ End(p, "panic")

-----------------------------------------------------------------------------
\* What a process that is killed at l leaves unfinished.
CutShort(l) ==
  {what \in {"create", "update", "link"} :
     \/ what = "create" /\ l \in {"lockex", "truncate", "csum"}
     \/ what = "update" /\ l \in {"pageno", "executed", "brind_target", "segment_entry"}
     \/ what = "link" /\ l \in Linking}

Kill(p) ==
  /\ pc[p] \notin Ended
  /\ killed' = killed \cup CutShort(pc[p])
  /\ End(p, "killed")
  /\ UNCHANGED <<file, so, runs, recorded>>

OpenStep(p) == \/ Open(p) \/ Create(p) \/ LockCreated(p) \/ Truncate(p)
               \/ LockExisting(p) \/ StatExisting(p)

AnnounceStep(p) == StoreChecksum(p) \/ StoreNPages(p) \/ Announce(p) \/ Boot(p)

UpdateStep(p) == \/ AllocatePageData(p) \/ StorePageno(p) \/ FindPageData(p)
                 \/ SetExecuted(p) \/ SetBrindTarget(p) \/ SetSegmentEntry(p)
                 \/ UpdateNull(p) \/ UpdateDone(p)

CompileStep(p) == \/ Compile(p) \/ LinkStart(p) \/ LinkEnd(p) \/ LinkFail(p)
                  \/ LoadLinked(p) \/ OpenImage(p)
                  \/ WriteHeader(p) \/ WriteSymbols(p) \/ PatchHeaders(p)

Step(p) == OpenStep(p) \/ AnnounceStep(p) \/ RunGuest(p) \/ UpdateStep(p) \/ CompileStep(p)

AllEnded == (\A p \in Procs : pc[p] \in Ended) /\ UNCHANGED vars

Next == (\E p \in Procs : Start(p) \/ Step(p) \/ Kill(p)) \/ AllEnded

Spec == Init /\ [][Next]_vars

\* The host schedules every process, and the guest runs to its end.
FairSpec == Spec /\ \A p \in Procs : WF_vars(Step(p))

-----------------------------------------------------------------------------
(* Properties *)

Whole(t) == {"linked", "header", "symbols", "patched"} \X {t}

\* A process that has the profile mapped for writing is the only one that has it
\* mapped: the creator's flock() waits for whoever locked the file first, and
\* everyone else's is exclusive or gives up (fsmanager.cpp, Task_OpenCacheFile).
OneWriter ==
  \A p, q \in Procs : p # q /\ fmap[p] = "RDWR" => fmap[q] = "none"

\* "bad_checksum" is never met unless the process that created the file was
\* killed before it stored the checksum: a file that is seen with its size is
\* seen with its checksum (objprof::Announce, Task_OpenCacheFile).
ChecksumStored ==
  (\E p \in Procs : pc[p] = "bad_checksum") => "create" \in killed

HasBlock(e, b) ==
  /\ e.pageno = b.page
  /\ b.po \in e.executed
  /\ b.brind => b.po \in e.brind_target
  /\ b.seg => b.po \in e.segment_entry

\* A block that was recorded to the end stays in the profile with its marks, in
\* the entry that the next process will find for its page, whatever other
\* processes do and wherever they are killed (objprof::UpdatePageProfile).
Durable ==
  \A b \in recorded :
    \E i \in Indices : i < file.n_pages /\ HasBlock(file.pages[i], b)

Updating(p) == pc[p] \in {"pageno", "executed", "brind_target", "segment_entry"}

\* A page has one entry, wherever processes are killed: the index that a process
\* builds when it opens the profile is still complete when it allocates
\* (objprof::Announce, objprof::GetOrCreatePageData).  An entry whose process was
\* killed before it stored the page's number keeps the number 0.
OneEntryPerPage ==
  \A i, j \in Indices : i # j /\ file.pages[i].pageno = file.pages[j].pageno =>
    file.pages[i].pageno = 0

\* When no update is under way and none was cut short, the profile holds no mark
\* that a recorded block did not put there (objprof::UpdateProfile).
Exact ==
  ("update" \notin killed /\ \A p \in Procs : ~Updating(p)) =>
    \A i \in Indices :
      LET e == file.pages[i]
      IN  /\ \A po \in e.executed :
               \E b \in recorded : b.page = e.pageno /\ b.po = po
          /\ \A po \in e.brind_target :
               \E b \in recorded : b.page = e.pageno /\ b.po = po /\ b.brind
          /\ \A po \in e.segment_entry :
               \E b \in recorded : b.page = e.pageno /\ b.po = po /\ b.seg

\* An image that BootAOTFile loads was linked and finished, unless an elfaot was
\* killed: the lock on the profile also keeps elfrun from the image while it is
\* linked.  Its table is of its own link alone, unless two elfaots were at work at
\* once, which the lock allows: then another table may lie over it.
ImageFinished ==
  (\E p \in Procs : pc[p] = "boot") /\ "link" \notin killed =>
    \/ image = {}
    \/ \E t \in Procs : Whole(t) \subseteq image /\ (~raced => image = Whole(t))

\* No process ever takes a mark or a page out of the profile: the profile of
\* later runs includes that of earlier ones (objprof::UpdateProfile).
Grows ==
  [][/\ file'.n_pages >= file.n_pages
     /\ \A i \in Indices :
          LET e == file.pages[i]  d == file'.pages[i]
          IN  /\ e.pageno \in {0, d.pageno}
              /\ e.executed \subseteq d.executed
              /\ e.brind_target \subseteq d.brind_target
              /\ e.segment_entry \subseteq d.segment_entry]_vars

\* Every process ends: the creator's blocking flock() is never waited for in vain,
\* and the walk over the tcache comes to its end (fsmanager.cpp:131, objprof.cpp:142).
EveryProcessEnds ==
  \A p \in Procs : pc[p] \notin Ended ~> pc[p] \in Ended

-----------------------------------------------------------------------------
\* A process that got no profile, because "just created by another process", runs
\* its guest and ends without a fault (fsmanager.cpp:128).
EndsWithoutProfile == \A p \in Procs : pc[p] # "null_profile"

=============================================================================
