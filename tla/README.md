# rvdbt in TLA+

rvdbt runs 32-bit RISC-V Linux programs on amd64. It translates guest code page
by page, just in time or ahead of time from a profile of earlier runs. This
directory models the parts whose correctness depends on state that survives from
one step to a later one: caches, patched code, marks in a profile, files shared
by processes.

## 1. Inventory

Paths are relative to `src/dbt/`.

| Part | State | Operations | Talks to |
|---|---|---|---|
| Execution loop, `execute.cpp` | the branch slot being resolved | look up or compile the block at `ip`, link the slot or cache the indirect target, enter code, return on a trap | everything below |
| Translation cache, `tcache/tcache.*` | `tcache_map`, `l1_cache`, `l1_brind_cache`, `link_map`, two pools | `Lookup`, `Insert`, `CacheBrind`, `RecordLink`, `Invalidate`, allocation | loop, stubs, profile |
| Stubs, `qmc/qcg/jitabi.*` | code bytes of each `BranchSlot` | lazy link, indirect branch, escape, raise | translated code, tcache |
| Translated code, `qmc/qcg/qemit.cpp`, `qmc/llvmgen/` | guest position, implicit in the host pc | straight-line run, branch in the region, branch out of it, indirect branch, trap | stubs |
| Guest front end, `guest/rv32_qir.cpp`, `rv32_analyser.cpp`, `rv32_interp.cpp` | none | block formation, semantics of each instruction | compiler, module graph |
| User kernel and loader, `ukernel.cpp` | `trapno`, `ip`, termination flag, `brk` | trap switch, system calls, ELF load, initial stack | loop, mmu |
| Guest memory, `mmu.cpp` | page bitmap, hint of the last mmap | mmap at a fixed address or where there is room | ukernel, host |
| Filesystem manager, `util/fsmanager.cpp` | `task`, `joined`, two mutexes, one condition variable; the lock on a file | hand a task to a worker thread; open or create a cache file | profile |
| Profile, `tcache/objprof.*` | the `.prof` file, `page2idx` | `Announce`, `UpdateProfile`, `GetProfile` | tcache, fsmanager, AOT |
| Region formation, `aot/aot_module.*` | graph, dominators, region of each node | record blocks and edges, compute regions | profile, compiler |
| AOT, `aot/*.cpp` | object files | compile every page, write, link, load at boot | profile, tcache |
| Compiler back end, `qmc/` | QuickIR of one region; where each value is (register, frame, `CPUState`) | fold, select, allocate, emit | front end |

Behaviours that make it hard:

* translated code is entered in four ways (trampoline, patched slot, stub,
  inlined lookup in a cache), and each must leave the same marks and reach the
  code of the same guest address;
* two direct-mapped caches sit in front of the map, one of them read by
  translated code that checks only a tag;
* a slot is resolved at most once. What is not recorded then is never recorded;
* `ip` is stale while translated code runs, and signal handlers read it;
* images made from an earlier run and code translated now share one cache;
* pools are finite, and exhaustion drops everything in mid-operation;
* the profile is a file mapped by several processes, any of which may die between
  two stores;
* the register allocator decides in one pass, from what it believes is where,
  while a memory access may fault and read `CPUState`;
* the bitmap that mmap searches misses most mappings, and sizes are computed in
  32 bits.

## 2. Plan

Order of work, each step with its own run, mutants and, where marked, theorems:

1. `GuestCode`, `Guest`, `Engine` (done): the core, with proofs.
2. `FsManager`, `TaskService` (done): the handoff between requester and worker
   thread, with proofs.
3. `ProfileFile` (done): several processes that open, create, update, compile and are
   killed, with proofs.
4. `ModuleGraph` (done): dominators, the iterated frontier and regions, against
   the definition of docs/rvdbt.md:123-124.
5. `GuestMemory` (done): page bitmap, `brk`, segments, stack, with proofs.
6. `Rv32Qir`, `QRegAlloc` (done): translator, selection and register allocation of
   QCG, run against the interpreter, with proofs about the allocator.
7. Session (open): run, update the profile, compile ahead of time, boot the image;
   what the marks of Engine promise to `ModuleGraph`, and an image of Engine made
   from its regions. Today `engine` boots such images, but they are chosen by hand.
8. Code that changes (not possible yet): `InvalidatePage`, `munmap`, `fence.i`. The
   function has no caller, so there is no behaviour to model.

## 3. Modules

### GuestCode
Guest addresses as instruction slots (`ip + 4` in the code is `ip + 1` here),
pages, opcode classes and the loop that finds the end of a basic block.
Misaligned targets cannot be expressed. `Mapped` is a set of whole pages, without
page 0 and without the last page.

### Guest
What the translator promises: the interpreter's handlers, one instruction per
step, with register and memory values left open. `Panic` may happen at any time,
because the translator may run out of pool space or meet an unsupported system
call. The module is the target of the refinement.

### Engine
| TLA+ | Code |
|---|---|
| `tb`, index 0 for nullptr | TBlocks in allocation order |
| `tcache_map`, `l1_cache`, `l1_brind_cache`, `link_map` | members of `tcache` |
| `links` | slots whose bytes have been patched |
| `ip`, `trapno` | `CPUState` |
| `cur`, `bb`, `pc` | the host pc: region, block of it, guest address |
| `branch_slot` | `branch_slot` of `dbt::Execute`, or the slot being executed |
| `mode` | which function runs |

Each action is one handler to its end: `ExecuteFound`, `ExecuteCompile`,
`ExecuteExhausted`, `ExecuteFault` and `ExecuteReturn` are the ways through an
iteration of `dbt::Execute`; `Run...` execute one guest instruction of translated
code; `SlotLinked`, `TryLinkBranch`, `BrindHit` and `BrindSlow` are the stubs;
`Trap...` are the cases of `ukernel::Execute`; `Announce` and `Booted` are
`BootAOTFile`.

A region is a set of blocks entered at one address. JIT regions have one block.
Regions of LLVM images are recognised by a non-empty `direct`, the entries they
may tail-call; `Hosts` lets any function of the image be inlined into any other,
which over-approximates what LLVM does, and `PreSideeff` lets LLVM drop the store
of `ip` before a memory access.

### TaskService, FsManager
`TaskService` is the promise of `SendTask`: a synchronous call. `FsManager` is how
`util/fsmanager.cpp` keeps it: `rqmtx` and `cvmtx` hold their owners, `waiting` the
threads inside `cv.wait`, `worker` and `client` where each thread is. A step takes
or releases a mutex, or is everything a thread does under `cvmtx`. `notify_one`
takes any waiting thread out of `waiting`, and `Spurious` takes one out for no
reason. What the task does is the subject of the next module.

### ProfileFile
The `.prof` file and the AOT image between processes. `file` is the contents of
the profile, `flock` the lock that each process holds on it, `pc` the system call
or store that a process makes next; `fmap`, `page2idx` and `todo` are the
process's own `ElfProfile` and what is left of its translation cache to record.
`Open` to `MapExisting` are `Task_OpenCacheFile`, `StoreChecksum` to `Announce`
are `objprof::Announce`, `FindPageData` to `SetSegmentEntry` are `UpdateProfile`,
`Compile` to `PatchHeaders` are elfaot, `Boot` is `BootAOTFile`. `Kill` takes a
process away at any of them. `image` holds the parts of the `.so` at the path, each
with the link it belongs to, for which the process that ran that ld stands; `out` is what
an elfaot knows of the image it opened: whose symbols it read, and whether the file that
its descriptor refers to has been removed since. ld is external: it removes the image or
writes over it, and it may fail, which `system() < 0` does not see. The object file is
not a variable: the elfaots at work at once hold the shared lock on the same profile, so
their objects define the same symbols, and ld links one of them or fails. `raced` is
history: whether another elfaot was at work when ld last began. The checksum is stored or not, and `Sessions` are the
sets of blocks a guest run leaves in the cache. `recorded` and `killed` are
history: blocks recorded to the end, and what kills have cut short.

### ModuleGraph
One page of the profile, from `BuildModuleGraph` to `ComputeRegions`. A node is
the address of its block and the root is 0; `succs`, `dominator`, `domfrontier`
and `region_entry` are the members of `ModuleGraphNode`, `phase` is the function
that runs next. Depth-first walks are recursive operators; the loop until nothing
changes and the work list take a step per round. `wlist` is a set, taken from in
any order, because the code fills it from a `std::set` of pointers.

### Rv32Qir
One guest instruction on its way through the compiler, as functions from an
instruction to a sequence. `Interp` and `Effect` are the interpreter's handlers: the
registers it leaves and the memory access, helper call or branch it makes.
`Translate` is `RV32Translator` with the constant folder that its builder calls, and
`Select` is `QSel`. Values are terms over the registers' values before the
instruction (`<<"add", ...>>` and so on), so two results are equal only when the same
operations were applied to the same operands.

### QRegAlloc
The allocator and the emitted code together. `ra` holds the `RTrack` of each virtual
register (`loc`, `p`, `synced`, `offs`), `p2v`, the frame, and the contents of the
machine's registers, `CPUState` and frame; `env` is what the QuickIR says the values
are. `BeginInsn` compiles a guest instruction; `VisitOp`, `VisitBr`, `VisitBrcc`,
`VisitGBr`, `VisitGBrind` and `VisitHcall` allocate one QuickIR instruction with
everything that `QRegAlloc` inserts before it (spills, fills, copies), and run the
code QEmit makes of it; `NextInsn`, `NextBlock` and `NextRegion` go on. A `Panic` or a
failed assertion sets `fail`. Between two guest instructions values get new names
(`Renamed`), so regions have any length.

`MachineAssumption`, `OperandAssumption` and `CodeAssumption` are what the allocator
takes for granted of its input: operands within the constraints that `QSel` satisfies,
no local read before it is written, a branch at the end of a block and a region left
only at its end. They are statements about `Compile`, which TLC evaluates for every
guest instruction of its instance.

### GuestMemory
An address is a byte, `vm.mem` says what is mapped there, and `vm.used` is
`used_pages`. `LoadElf` and `LoadPhdr` are the loop over program headers, `MapStack` is
`InitElfMappings`, `AVectors` is the layout that `InitAVectors` computes. `Mmap`,
`MmapLookup`, `MmapTry` and `MmapFails` are the search of `mmu::mmap`: the host's mmap
in its middle (`HostChoice`) takes the hint if it is free, or else any place. `Brk`,
`MmapFixed` and `Munmap` are the guest's other calls, `Write` dirties a page.
`"crash"` is a fault of the translator itself: brk clears bytes that the guest has
unmapped.

## 4. Runs

The runs of Engine have four pages of four instructions, the middle two mapped. Blocks are at most two
instructions long, so the size limit, the page end, a known block and a branch
each end some block. The L1 caches have three lines for eight mapped addresses,
so lines are evicted and tags matter.

| Run | Question | Result |
|---|---|---|
| `engine` | looping programs, programs that branch to address 0, to unmapped memory and to illegal instructions, and programs booted with QCG and LLVM images: are caches, links and marks coherent, is translation invisible, does every dispatch end? | holds |
| `engine_limits` | pools of three TBlocks and two regions: does exhaustion leave a dangling pointer? | holds |
| `engine_ebreak` | is the thread at an `ebreak` whenever EBREAK is pending? | violated |
| `engine_llvm` | is every cross-page branch target marked? | violated |
| `fsmanager` | three threads, two calls each, spurious wake-ups, `Destroy`: are calls synchronous, do they return, does the worker leave? | holds |
| `profile_file` | three processes, two at a time, killed anywhere, more pages than the file has room for: one writer, nothing recorded is lost, only kills leave something half done, every process ends? | holds |
| `profile_null` | does an elfrun that got no profile end without a fault? | violated |
| `graph_regions` | graphs of five blocks, and longer blocks partly executed: dominators and frontiers as defined over paths, single entry, fewest regions, does it end? | holds |
| `graph_long` | a page of 256 blocks: do the markers suffice? | violated |
| `qcg` | any region of guest instructions, compiled and run: does each instruction do what the interpreter does, are values kept, are faults precise? | holds |
| `load_x0` | the same for loads into x0 without an offset | violated |
| `guest_memory` | load an image, then brk, mmap and munmap in any order: are mappings kept apart, is new memory zero, does mmap find room and return? | holds |

The properties of Engine:

* `TypeOK` (in `engine_limits`): no pointer leads to a TBlock that was dropped.
* `MapCoherence`, `L1Coherence`, `LinkCoherence`: the map, the two caches and the
  patched slots agree on which code belongs to an address, and the marks the
  profile needs were set when a slot or a line was filled.
* `ExecuteAssert`: the assertion at `execute.cpp:63`.
* `EntriesMarked`: every dispatch leaves the mark that its kind of branch needs.
* `RunsGuest`: Engine implements Guest.
* `Responsive`: the engine does finitely many steps between guest instructions.

Fairness is weak fairness of the whole next-state relation: one host thread runs
the engine, and nothing it does blocks, except host system calls that the model
takes as one step.

The two violations of Engine are disagreements between the code and its documents.
`ukernel.cpp:93` advances `ip` on EBREAK and leaves `trapno` set, so the loop
keeps advancing without executing; `examples/demokernel/tests.txt:61` expects the
thread to stay at the `ebreak`. `llvmgen.cpp:287` turns a branch to a known
region into a tail call whatever its page, and such a target gets no mark, while
`docs/rvdbt.md:120` says that cross-page targets are marked. QCG code does mark
them, which `EntriesMarked` shows.

### FsManager

Three clients are enough for one to wait for `rqmtx`, one to wait on the condition
variable and one to be between calls, and two calls for a late notification to
meet the next call. `FrameAlive` and `Synchronous` say that a task runs
once, while the caller whose stack it refers to is inside `SendTask`;
`NoLostWakeup` that a thread sleeps only while there is nothing for it to do or a
notification is still to come; `CallsReturn` and `WorkerExits` are liveness. Fairness is weak for each thread:
the host schedules it when it can go on. No stronger fairness of the mutexes is
needed, because the number of calls is finite. Spurious wake-ups are never fair.

### ProfileFile

Three processes, two of them at the same time, allow a creator, a writer or a
compiler that follows or meets it, and a reader of the image. The file has two
entries and one session executes three pages, so a page is found, another is
allocated, and the count runs over. Fairness is weak for each process's own steps:
the host schedules it and its guest exits. Kills are never fair.

`OneWriter` is what the locks are for. `ChecksumStored`, `Durable`,
`OneEntryPerPage`, `Exact` and `ImageFinished` say what survives kills, and which
kill is to blame when something does not. The lock on the profile keeps elfrun away
from an image that is being linked, but two elfaots share it. `ImageFinished` therefore says
two things: the table of the image's own link was written to its end, and no part of another
link is in the image unless two elfaots were at work at once. In that case one of them may
write the table it had prepared into the image that the other has linked, and an elfrun
that boots from it may fault. `Grows` is an action property: no step removes anything.

`profile_null` shows a path that the code means to handle and does not: an elfrun
that loses the race for the profile runs its guest and then writes to the profile
it does not have (`objprof.cpp:119`). Two more are plain from the model's actions:
`elfaot --llvm` without a profile fails an assertion that `elfaot` avoids
(`llvmaot.cpp:170`), and `BootAOTFile` says "skip aot boot" and goes on with a null
handle (`aot_boot.cpp:32`).

### ModuleGraph

Five one-instruction blocks are the least for which the iteration of the frontier
matters: two joins of the same two entries, which meet again. Two of the blocks are
therefore fixed to be conditional branches, and the other three are any branch.
Other codes have blocks of several instructions, cut by each other, by the size limit
and by the page, of which only some were executed. The graphs include irreducible loops, unreachable blocks and a last block that runs off
the page. `SingleEntry` and `MinimalRegions` compare the result with all sets of
entries that meet the documented requirement. Fairness is weak, since elfaot computes without waiting for anything.

`graph_long` shows that a page of 255 or more executed blocks cannot be compiled
when assertions are on: the number of nodes is passed to the marker as a `u8`
(`marker.h:13`), so it wraps, and `marker.h:29` fails.

### Rv32Qir and QRegAlloc

Two guest registers and x0 give every aliasing of a destination and two sources. Of
the machine registers one is fixed and three can be allocated: `cx` (shift counts) and
`si` (indirect branch targets), which calls clobber, and one that calls preserve.
Three is the number of operands an instruction can hold, so every choice of a
victim happens and `NoFail` is tight; the code has more registers, with which the
same choices need longer regions. Words have eight values, enough for constants that
fit an immediate and constants that do not. Regions have up to three locals, one
slot of the frame each.

`Agrees` is the purpose of it all. `ValuesKept` is what the allocator believes,
`PreciseState` and `EdgesInMemory` are what signal handlers, other blocks and the
stubs rely on, `NoFail` covers the panics and assertions of allocator and emitter,
`P2VCoherent` says that its two tables agree. There is no liveness property: a region is compiled by a loop over a finite
list.

`load_x0` shows that `TranslateLoad` (`rv32_qir.cpp:206`) compiles a load into x0
without an offset as a load into its own address register. The run `qcg` therefore
leaves those instructions out.

### GuestMemory

Eleven pages of two bytes: the first byte of a page and its last, segments that start
and end inside a page, and room for mappings that meet, wrap and fail. `LOW` is page 3,
so the heap can grow into the region where mmap searches. Mappings have two
pages or five: five pages from page 3 are more than `LOW`, so `MarkUsedPages` marks
some of them, and the marks stay when the guest unmaps the range. The host may have
taken page 3 (the image overwrites it) or 6 (mmap must avoid it). Arguments have up
to two strings of up to six bytes, which gives every alignment of the stack pointer.

`NoClobber` holds although `MarkUsedPages` marks hardly any page, because the host
refuses a hint that is not free. `HeapNotOffered` holds because `Init` marks
`MIN_MMAP_ADDR` pages where it means bytes. `SegmentsLoaded` is restricted to
`Regular` segments: for others the end of the bss is computed too low by the offset
of the segment in its page. `BrkZeroes` excepts the extension to exactly the end of
a page, which leaves the bytes as they are. `FailsOnlyWhenFull` counts as room only what
is free and unmarked. The marks that a long mapping leaves outlive it, so mmap can
fail although almost the whole space is free; that needs a mapping from `MIN_MMAP_ADDR` on
that is longer than the address (in pages) it starts at. `FailsOnlyWhenFull` and `MmapReturns` are
about the search; it is fair because mmap runs to its end before the guest goes on.
Deadlock is not checked: the translator may crash.

### Mistaken forms

Operators named `Op_Variant` are mistaken forms of `Op`: with one in place of
the real operator, TLC reports a violation of the property it is paired with.

## 5. Proofs

`EngineProof` proves `Spec => []IInv` for every program, image, page size, cache
size and pool size allowed by `GuestAssumption` and `EngineAssumption`. The
coherence properties are not inductive alone. `IInv` adds:

* `TBlocksOk`: each TBlock holds a well-formed region entered at its address, so
  entering the block that a cache names reaches the address that was looked up;
* `InBlock`, `CurOk`: translated code is inside its block, so it ends where the
  translator ended it;
* `SlotOk`: a slot in use knows whether it leaves its page;
* `TrapOk`: which traps can be pending where, so a trap is returned before the
  loop touches the slot;
* `ImageOk`: the TBlocks of an image come first, so LLVM tail calls reach them.

`TypeCorrect`, `MapCoherent`, `L1Coherent`, `LinksCoherent` and
`ExecuteAssertHolds` follow from it. On it rest the action property
`EntriesMarked` and, for programs without `ebreak`, the refinement
`Spec => RunsGuest`: each action maps to the guest instruction it executes or to a
stutter. Programs with `ebreak` are excluded because of the violation above: the
engine then advances `ip` over instructions it never runs.

`FsManagerProof` proves, for any number of clients and calls, `FrameAlive`,
`RanOnce`, `NoLostWakeup` and the refinement `Spec => Synchronous`. Its inductive
invariant `FsInv` adds `Locks`, who holds the mutexes and who can be asleep in
each place of the code, and `Progress`, whose task is pending and how often it has
run in each place of `SendTask`.

`GuestMemoryProof` proves, for every space, image, host and sequence of calls that
`SpaceAssumption`, `InputsAssumption` and `ImagesAssumption` allow, `HeapNotOffered`,
`NoClobber`, `FailsOnlyWhenFull`, `BrkZeroes`, `SegmentsLoaded` and `StackLaidOut`. In particular mmap has a length other than 0,
and the segments of an image ascend, each on pages of its own and below the guard page, as
linkers lay them out; `LoadElf` does not check it. The invariant `MemInv` adds that the pages
below `LOW` stay marked, that a request is in hand only while the guest waits, and that the
numbers are natural, which the rounding lemmas need. `FailsOnlyWhenFull` rests on `SearchInv`:
the last place of a long enough run where the mapping fits is still ahead of the search or,
before the wrap, below the hint. A run of `2 * plen - 1` pages has `plen` such places, and the
search steps by `plen`, so it cannot step over all of them. For `SegmentsLoaded`, `LoadInv` says
that every segment mapped so far is in its place; it is kept because a segment changes nothing
below its first page. That a regular segment gets its bss rests on `BssLength`: the
length that is computed reaches the segment's end, or wraps below 0 and rounds up to 0 where the
zeroed rest of the file's last page already reaches it. Addresses and lengths wrap at the size of
the space, 2^32 in the code. `StackLaidOut` is shown for arguments of every number and length:
`Descends` says that each string lies below the ones before it, by way of the first one that
would not (the least element of a set of natural numbers, as `PushedExists` does for the recursion).
Lengths are truncated to 16 bits there, as the parameter of `AllocAVectorStr` is.

`ProfileFileProof` proves, for any number of processes, runs, pages and blocks,
`OneWriter`, `ChecksumStored`, `OneEntryPerPage`, `Durable`, `Exact`, `ImageFinished` and
the action property `Grows`, with processes killed at any step. The only assumption,
`ProfileAssumption`, is that a recorded page has a number other than 0. The invariant
is built in layers: `LockInv` says which lock a process holds at each place of
`Task_OpenCacheFile`, `CreateInv` how the file gets its size and its checksum,
`PagesInv` that the writer's index of the entries is that of the file but for the
entry it is just adding, `MarksInv` and `ExactInv` which of the marks of the block at
hand are stored, `ImageInv` what becomes of the image: what is linked is finished or some
elfaot is about to finish it (`Finished`), without a link whoever has a descriptor writes
to a file that is gone (`NothingLinked`), and an elfaot that links alone writes the table of its
own link (`OneTable`). `OneWriter` alone shows little: what
makes `Durable` and `OneEntryPerPage` inductive is that the index a process built
when it opened the file is still right when it allocates an entry.

`QRegAllocProof` proves `P2VCoherent`, `ValuesKept`, `EdgesInMemory` and `PreciseState` for any number of
guest registers, locals, machine registers and frame slots, any set of fixed and of
clobbered registers, and any guest instructions that meet the assumptions of
`QRegAlloc`. The lemmas are in three modules of their own. `QRegAllocMoves` has one for
each operation that moves values: a spill writes one slot, a fill takes a free
register, the registers that a call clobbers are emptied one after the other.
`QRegAllocOps` follows `AllocOp` through its inputs and its output: an input once
allocated stays in its register while the others are (`Held`), the output takes no
register of an input unless it is that input (`Allocated`), and the emitted
instruction then computes what QuickIR says (`Done`). `QRegAllocAccess` is about the QuickIR
of loads and stores before it is allocated.
The invariant `Inv` strengthens `ValuesKept` in three ways. It speaks of the registers that
count (`Counted`), which include the locals that the QuickIR to come reads first. It says that
frame slots in use are below `frame` and not shared (`Slots`), without which a spill could
overwrite another value. And it says that the QuickIR left ends as a block must
(`Shape`), which gives `EdgesInMemory`. A step that makes the compiler stop is covered too: the lemmas
named `...Stays` show that no later operation of the step undoes a failure, so a
step that is taken as successful had no failure on its way.

`PreciseState` has an invariant of its own, `Precise`, and needs both ends of the compiler. The
QuickIR of a load or a store has the form `Access`: `ip` is stored first, only locals are written
until the access, and the access is last. The translator emits it so (`PreSideeff`), and
what the folder and QSel add, moves of constants and of aliased inputs, writes locals. In the
allocator, `SyncSideeff` brings the guest's registers to CPUState after the inputs
are allocated, and the allocation of the output that follows may evict a register but writes none of
them back again, as all are clean (`Flushed`, `AllocDstFlushed`).

Only model-checked:

* all liveness properties, which need fairness, and the violations;
* `Agrees` and `NoFail` of `QRegAlloc`. The first compares what the QuickIR of each guest
  instruction computes, term by term, with the interpreter; the second depends on the sizes of the
  pool and the frame;
* `ModuleGraph`, whose walks are recursive operators.

## 6. Not modelled

* Values of registers and memory beyond terms: arithmetic is the host's.
* Misaligned branch targets. The interpreter raises `UNALIGNED_IP`, the translator
  has a TODO; addresses are instruction slots in `Engine` and terms in `Rv32Qir`.
* The bit fields of the decoder and the encodings of the emitter, which the
  interpreter and an assembler library share with everything else; the push and pop
  of the frame around a region.
* Ahead-of-time regions so large that the 8-bit counter of `CallOp` wraps.
* LLVM's own code generation; the ELF library and the linker.
* Guest code that changes while it runs: `InvalidatePage` has no caller, so stale
  translations stay in place.
* Page protections (`mprotect`), effects of system calls on files, and signals other
  than the memory fault. A failed `mmap2` returns what `errno` was left at.
* A host reservation that begins below the guest's space and ends in it; mmap of
  length 0.
* `objprof.cpp:154` reads through the iterator after the last block of the cache,
  which is the map's `end()`; the model stops there.
* Process exit: static destructors run while the detached worker may still hold the
  mutexes.

Everything listed as `not_modelled` or `partly` in `PROJECT.json` has its reason there.
