------------------------------- MODULE Engine -------------------------------
(***************************************************************************)
(* The execution engine of one guest thread: dbt::Execute, the translation *)
(* cache, the stubs that translated code calls to leave it, and the        *)
(* ukernel's trap loop around them.                                        *)
(*                                                                         *)
(* A TBlock pointer is its index in tb (the order of allocation from       *)
(* tb_pool) and 0 is nullptr; a host code address is named by the TBlock   *)
(* that owns the code.  The code of a region is a set of guest blocks,     *)
(* given by their start and end addresses: one for a region compiled just  *)
(* in time, several for a region of an ahead-of-time image.  A branch to a *)
(* block of the same region is a host jump; any other direct branch goes   *)
(* through a BranchSlot that is patched when its target is first found.    *)
(*                                                                         *)
(* An operator named Op_Variant is a mistaken form of Op, put in its place *)
(* to see that a property notices.                                         *)
(***************************************************************************)
EXTENDS GuestCode, Sequences

CONSTANTS Boots,       \* what may be run: set of [prog, entry, image]
          L1_SIZE,     \* entries of l1_cache and of l1_brind_cache
          TB_POOL,     \* TBlocks that fit in tb_pool
          CODE_POOL    \* regions that fit in code_pool

VARIABLES boot,            \* the program and the AOT image of this run
          ip, trapno,      \* CPUState
          tb,              \* the allocated TBlocks
          tcache_map,      \* guest address -> TBlock pointer
          l1_cache,        \* hash -> TBlock pointer
          l1_brind_cache,  \* hash -> [gip, code]
          links,           \* patched BranchSlot -> code it jumps to
          link_map,        \* multimap of target address and BranchSlot
          mode,            \* which part of the engine runs
          cur, bb, pc,     \* running region, its block, guest address reached
          branch_slot      \* slot being resolved, NoSlot for nullptr

cpu == <<ip, trapno>>
caches == <<tcache_map, l1_cache, l1_brind_cache>>
linkage == <<links, link_map>>
place == <<cur, bb, pc>>
vars == <<boot, cpu, tb, caches, linkage, mode, place, branch_slot>>

(***************************************************************************)
(* mode "boot": BootAOTFile announces the regions of the image;            *)
(*      "execute": the loop of dbt::Execute;                               *)
(*      "code": translated code;                                           *)
(*      "slot": a BranchSlot was reached; "brind": an indirect branch was; *)
(*      "ukernel": the trap switch of ukernel::Execute;                    *)
(*      "done": terminating; "fault", "panic": Panic() ended the process.  *)
(***************************************************************************)
Modes == {"boot", "execute", "code", "slot", "brind", "ukernel",
          "done", "fault", "panic"}

TrapCodes == {"NONE", "ECALL", "EBREAK", "ILLEGAL_INSN"}

TrapOf(op) == CASE op = "ecall"  -> "ECALL"
                [] op = "ebreak" -> "EBREAK"
                [] op \in IllegalOps -> "ILLEGAL_INSN"

prog == boot.prog
image == boot.image

NoSlot == [tb |-> 0, src |-> 0, gip |-> 0, cross_segment |-> FALSE]

NoBrind == [gip |-> 0, code |-> 0]

NoBlock == [start |-> 0, end |-> 0]

\* f with x mapped to v, whether or not x is in its domain.
Update(f, x, v) == [y \in DOMAIN f \cup {x} |-> IF y = x THEN v ELSE f[y]]

(***************************************************************************)
(* A region of translated code: where it is entered, the blocks it holds   *)
(* (end is the address after the last instruction), and the regions it may *)
(* tail-call without a slot (LLVM images only).                            *)
(***************************************************************************)
Block == [start : IP, end : IP]

Region == [entry : Mapped, blocks : SUBSET Block, direct : SUBSET IP]

Starts(r) == {b.start : b \in r.blocks}

\* The translator ends block b of an image where the analyser ended it.
BlockOf(code, page_ip, b) ==
  /\ b.start < b.end
  /\ \A a \in b.start .. b.end - 1 : a \in Mapped /\ InSegment(page_ip, a)
  /\ IsBlock(code, b.start, {b.end}, b.end)

RegionOf(code, img, r) ==
  /\ r.entry \in Starts(r)
  /\ \A b \in r.blocks : BlockOf(code, r.entry, b)
  /\ \A b, c \in r.blocks : b.start = c.start => b = c
  /\ r.direct \subseteq {img[k].entry : k \in 1 .. Len(img)}

ASSUME EngineAssumption ==
  /\ L1_SIZE \in Nat \ {0}
  /\ TB_POOL \in Nat
  /\ CODE_POOL \in Nat
  /\ \A b \in Boots :
       /\ b.prog \in [Mapped -> Insn]
       /\ b.entry \in IP
       /\ b.image \in Seq(Region)
       /\ \A k \in 1 .. Len(b.image) : RegionOf(b.prog, b.image, b.image[k])
       /\ \A j, k \in 1 .. Len(b.image) :
            b.image[j].entry = b.image[k].entry => j = k

-----------------------------------------------------------------------------
(* tcache *)

l1hash(a) == a % L1_SIZE

LookupFull(a) == tcache_map[a]

Lookup(a) ==
  LET t == l1_cache[l1hash(a)]
  IN  IF t # 0 /\ tb[t].ip = a THEN t ELSE LookupFull(a)

\* What Lookup leaves in l1_cache when it returns t for address a.
L1Fill(a, t) == IF t = 0 THEN l1_cache ELSE [l1_cache EXCEPT ![l1hash(a)] = t]

Insert_L1Only(a, t) ==
  /\ l1_cache' = [l1_cache EXCEPT ![l1hash(a)] = t]
  /\ UNCHANGED tcache_map

\* std::map::insert keeps an entry that is already there.
Insert(a, t) ==
  /\ tcache_map' = IF tcache_map[a] = 0 THEN [tcache_map EXCEPT ![a] = t]
                                        ELSE tcache_map
  /\ l1_cache' = [l1_cache EXCEPT ![l1hash(a)] = t]

NewTBlock(a, code) == [ip |-> a, tcode |-> code,
                       is_brind_target |-> FALSE, is_segment_entry |-> FALSE]

CacheBrind_Unmarked(tbs, t) ==
  /\ l1_brind_cache' = [l1_brind_cache EXCEPT
                          ![l1hash(tbs[t].ip)] = [gip |-> tbs[t].ip, code |-> t]]
  /\ tb' = tbs

\* CacheBrind(tbs[t]): tbs is the pool as the caller leaves it.
CacheBrind(tbs, t) ==
  /\ l1_brind_cache' = [l1_brind_cache EXCEPT
                          ![l1hash(tbs[t].ip)] = [gip |-> tbs[t].ip, code |-> t]]
  /\ tb' = [tbs EXCEPT ![t].is_brind_target = TRUE]

LinkTo_Unmarked(tbs, slot, t) ==
  /\ links' = Update(links, slot, t)
  /\ link_map' = link_map \cup {<<tbs[t].ip, slot>>}
  /\ tb' = tbs

\* slot->Link(tbs[t].tcode.ptr) and RecordLink(slot, tbs[t], cross_segment).
LinkTo(tbs, slot, t) ==
  /\ links' = Update(links, slot, t)
  /\ link_map' = link_map \cup {<<tbs[t].ip, slot>>}
  /\ tb' = [tbs EXCEPT ![t].is_segment_entry = @ \/ slot.cross_segment]

Invalidate_KeepL1 ==
  /\ tb' = <<>>
  /\ tcache_map' = [a \in IP |-> 0]
  /\ l1_brind_cache' = [h \in 0 .. L1_SIZE - 1 |-> NoBrind]
  /\ links' = [s \in {} |-> 0]
  /\ link_map' = {}
  /\ UNCHANGED l1_cache

Invalidate ==
  /\ tb' = <<>>
  /\ tcache_map' = [a \in IP |-> 0]
  /\ l1_cache' = [h \in 0 .. L1_SIZE - 1 |-> 0]
  /\ l1_brind_cache' = [h \in 0 .. L1_SIZE - 1 |-> NoBrind]
  /\ links' = [s \in {} |-> 0]
  /\ link_map' = {}

\* A pool is exhausted: the callers of Invalidate() Panic(), or construct a
\* TBlock at nullptr, which ends the process too.
InvalidateAndPanic ==
  /\ Invalidate
  /\ mode' = "panic"
  /\ branch_slot' = NoSlot
  /\ cur' = 0 /\ bb' = NoBlock /\ pc' = 0
  /\ UNCHANGED <<boot, cpu>>

-----------------------------------------------------------------------------
Init ==
  /\ boot \in Boots
  /\ ip = boot.entry
  /\ trapno = "NONE"
  /\ tb = <<>>
  /\ tcache_map = [a \in IP |-> 0]
  /\ l1_cache = [h \in 0 .. L1_SIZE - 1 |-> 0]
  /\ l1_brind_cache = [h \in 0 .. L1_SIZE - 1 |-> NoBrind]
  /\ links = [s \in {} |-> 0]
  /\ link_map = {}
  /\ mode = "boot"
  /\ cur = 0 /\ bb = NoBlock /\ pc = 0
  /\ branch_slot = NoSlot

\* BootAOTFile: announce the next symbol of the image.
Announce ==
  /\ mode = "boot"
  /\ Len(tb) < Len(image)
  /\ \/ /\ Len(tb) < TB_POOL
        /\ LET r == image[Len(tb) + 1]
           IN  /\ tb' = Append(tb, NewTBlock(r.entry, r))
               /\ Insert(r.entry, Len(tb) + 1)
        /\ UNCHANGED <<boot, cpu, l1_brind_cache, linkage, mode, place, branch_slot>>
     \/ /\ Len(tb) = TB_POOL
        /\ InvalidateAndPanic

Booted ==
  /\ mode = "boot"
  /\ Len(tb) = Len(image)
  /\ mode' = "execute"
  /\ UNCHANGED <<boot, cpu, tb, caches, linkage, place, branch_slot>>

\* trampoline_to_jit, or a jump from one region into another.
Enter(tbs, t) ==
  /\ mode' = "code"
  /\ cur' = t
  /\ \E b \in tbs[t].tcode.blocks : b.start = tbs[t].tcode.entry /\ bb' = b
  /\ pc' = tbs[t].tcode.entry
  /\ branch_slot' = NoSlot

\* The tail of dbt::Execute's loop once it holds the TBlock of ip.
Dispatch(tbs, t) ==
  /\ \/ /\ branch_slot # NoSlot
        /\ LinkTo(tbs, branch_slot, t)
        /\ UNCHANGED l1_brind_cache
     \/ /\ branch_slot = NoSlot
        /\ CacheBrind(tbs, t)
        /\ UNCHANGED linkage
  /\ Enter(tbs, t)
  /\ UNCHANGED <<boot, cpu>>

ExecuteFound ==
  /\ mode = "execute" /\ trapno = "NONE"
  /\ Lookup(ip) # 0
  /\ l1_cache' = L1Fill(ip, Lookup(ip))
  /\ Dispatch(tb, Lookup(ip))
  /\ UNCHANGED tcache_map

\* GetCompilationIPRange: the page end and the next translated block.
CompilationBounds ==
  {RoundUpPage(ip)} \cup {a \in IP : a > ip /\ tcache_map[a] # 0}

JitRegion(end) ==
  [entry |-> ip, blocks |-> {[start |-> ip, end |-> end]}, direct |-> {}]

ExecuteCompile ==
  /\ mode = "execute" /\ trapno = "NONE"
  /\ Lookup(ip) = 0
  /\ ip \in Mapped
  /\ Len(tb) < TB_POOL
  /\ Len(tb) - Len(image) < CODE_POOL
  /\ \E end \in ip + 1 .. ip + TB_MAX_INSNS :
       /\ IsBlock(prog, ip, CompilationBounds, end)
       /\ Insert(ip, Len(tb) + 1)
       /\ Dispatch(Append(tb, NewTBlock(ip, JitRegion(end))), Len(tb) + 1)

\* The compiled code or its TBlock does not fit.
ExecuteExhausted ==
  /\ mode = "execute" /\ trapno = "NONE"
  /\ Lookup(ip) = 0
  /\ ip \in Mapped
  /\ Len(tb) = TB_POOL \/ Len(tb) - Len(image) = CODE_POOL
  /\ InvalidateAndPanic

\* The translator reads guest memory that is not there.
ExecuteFault ==
  /\ mode = "execute" /\ trapno = "NONE"
  /\ Lookup(ip) = 0
  /\ ip \notin Mapped
  /\ mode' = "fault"
  /\ UNCHANGED <<boot, cpu, tb, caches, linkage, place, branch_slot>>

\* HandleTrap delegates a pending trap to the ukernel.
ExecuteReturn ==
  /\ mode = "execute" /\ trapno # "NONE"
  /\ mode' = "ukernel"
  /\ branch_slot' = NoSlot
  /\ UNCHANGED <<boot, cpu, tb, caches, linkage, place>>

-----------------------------------------------------------------------------
(* Translated code *)

Code == tb[cur].tcode

InCode(ops) == mode = "code" /\ prog[pc].op \in ops

\* The regions whose host code may hold the copy of Code that runs: LLVM may
\* inline one function of the image into another.
Hosts == {cur} \cup (IF Code.direct = {} THEN {}
                     ELSE {k \in 1 .. Len(image) : tb[k].tcode.direct # {}})

\* QEmit and LLVMGen mark a slot whose target is outside the page of the
\* region that the slot is emitted in.
SlotTo(host, a) == [tb |-> host, src |-> pc, gip |-> a,
                    cross_segment |-> ~InSegment(tb[host].tcode.entry, a)]

\* A branch out of the region: an LLVM tail call, or a branch slot.
Leave(a) ==
  \/ /\ a \in Code.direct
     /\ \E k \in 1 .. Len(image) : image[k].entry = a /\ Enter(tb, k)
  \/ /\ a \notin Code.direct
     /\ mode' = "slot"
     /\ \E host \in Hosts : branch_slot' = SlotTo(host, a)
     /\ UNCHANGED place

\* MakeGBr(a)
GBr(a) ==
  /\ \/ /\ \E b \in Code.blocks : b.start = a /\ bb' = b
        /\ pc' = a
        /\ UNCHANGED <<mode, cur, branch_slot>>
     \/ /\ a \notin Starts(Code)
        /\ Leave(a)
  /\ UNCHANGED <<boot, trapno, tb, caches, linkage>>

\* What is in ip when the instruction at pc executes: the translator stores the
\* address of one that may trap, but LLVM may find the store before a memory
\* access dead.
PreSideeff(op) ==
  IF op \notin MayTrapOps \cup TrapOps THEN {ip}
  ELSE {pc} \cup (IF op = "mem" /\ Code.direct # {} THEN {ip} ELSE {})

\* A helper adds 4 to the ip that it finds.
RunSeq ==
  /\ InCode(SeqOps)
  /\ \E saved \in PreSideeff(prog[pc].op) :
       ip' = IF prog[pc].op \in {"amo", "fence"} THEN NextIp(saved) ELSE saved
  /\ \/ /\ NextIp(pc) # bb.end
        /\ pc' = NextIp(pc)
        /\ UNCHANGED <<boot, trapno, tb, caches, linkage, mode, cur, bb, branch_slot>>
     \/ /\ NextIp(pc) = bb.end
        /\ GBr(NextIp(pc))

\* The access faults: dbt_sigaction_memory reports ip and panics.
RunFault ==
  /\ InCode({"mem", "amo"})
  /\ ip' \in PreSideeff(prog[pc].op)
  /\ mode' = "fault"
  /\ UNCHANGED <<boot, trapno, tb, caches, linkage, place, branch_slot>>

RunJal ==
  /\ InCode({"jal"})
  /\ \E a \in prog[pc].tgts : GBr(a)
  /\ UNCHANGED ip

RunBrcc_SkipOne ==
  /\ InCode({"brcc"})
  /\ \E a \in prog[pc].tgts \cup {NextIp(NextIp(pc))} : GBr(a)
  /\ UNCHANGED ip

RunBrcc ==
  /\ InCode({"brcc"})
  /\ \E a \in prog[pc].tgts \cup {NextIp(pc)} : GBr(a)
  /\ UNCHANGED ip

\* gbrind: pc holds the target while the branch is resolved.  When LLVM knows
\* the target, the branch has become a direct one.
RunJalr ==
  /\ InCode({"jalr"})
  /\ \E a \in prog[pc].tgts :
       \/ /\ pc' = a
          /\ mode' = "brind"
          /\ UNCHANGED <<cur, bb, branch_slot>>
       \/ /\ Code.direct # {}
          /\ Leave(a)
  /\ UNCHANGED <<boot, cpu, tb, caches, linkage>>

\* RAISE_TRAP in a helper: longjmp to Execute, which returns to the ukernel.
RunTrap ==
  /\ InCode(TrapOps \cup {"unimpl"})
  /\ ip' \in PreSideeff(prog[pc].op)
  /\ trapno' = TrapOf(prog[pc].op)
  /\ mode' = "ukernel"
  /\ UNCHANGED <<boot, tb, caches, linkage, place, branch_slot>>

-----------------------------------------------------------------------------
(* Leaving translated code *)

\* A patched slot jumps straight to the code it was linked to.
SlotLinked ==
  /\ mode = "slot"
  /\ branch_slot \in DOMAIN links
  /\ Enter(tb, links[branch_slot])
  /\ UNCHANGED <<boot, cpu, tb, caches, linkage>>

EscapeLink_StaleIp ==
  /\ mode' = "execute"
  /\ UNCHANGED <<ip, tb, linkage, place, branch_slot>>

EscapeLink_Retry == UNCHANGED <<ip, mode, tb, linkage, place, branch_slot>>

\* qcgstub_escape_link returns the slot to Execute.
EscapeLink ==
  /\ ip' = branch_slot.gip
  /\ mode' = "execute"
  /\ UNCHANGED <<tb, linkage, place, branch_slot>>

TryLinkBranch ==
  /\ mode = "slot"
  /\ branch_slot \notin DOMAIN links
  /\ LET a == branch_slot.gip
         found == Lookup(a)
     IN  /\ l1_cache' = L1Fill(a, found)
         /\ \/ /\ found # 0
               /\ LinkTo(tb, branch_slot, found)
               /\ Enter(tb, found)
               /\ UNCHANGED ip
            \/ /\ found = 0
               /\ EscapeLink
  /\ UNCHANGED <<boot, trapno, tcache_map, l1_brind_cache>>

BrindEntry_L1 ==
  LET t == l1_cache[l1hash(pc)]
  IN  IF t = 0 THEN NoBrind ELSE [gip |-> tb[t].ip, code |-> t]

\* Emit_gbrind's inline lookup of l1_brind_cache.
BrindEntry == l1_brind_cache[l1hash(pc)]

BrindHit ==
  /\ mode = "brind"
  /\ BrindEntry.gip = pc
  /\ \/ /\ BrindEntry.code # 0
        /\ Enter(tb, BrindEntry.code)
     \/ /\ BrindEntry.code = 0        \* a host jump to nullptr
        /\ mode' = "fault"
        /\ UNCHANGED <<place, branch_slot>>
  /\ UNCHANGED <<boot, cpu, tb, caches, linkage>>

\* qcgstub_brind
BrindSlow ==
  /\ mode = "brind"
  /\ BrindEntry.gip # pc
  /\ ip' = pc
  /\ l1_cache' = L1Fill(pc, Lookup(pc))
  /\ \/ /\ Lookup(pc) # 0
        /\ CacheBrind(tb, Lookup(pc))
        /\ Enter(tb, Lookup(pc))
     \/ /\ Lookup(pc) = 0
        /\ mode' = "execute"
        /\ UNCHANGED <<tb, l1_brind_cache, place, branch_slot>>
  /\ UNCHANGED <<boot, trapno, tcache_map, linkage>>

-----------------------------------------------------------------------------
(* ukernel::Execute *)

\* A system call returns, terminates the thread, or is not supported.
TrapEcall ==
  /\ mode = "ukernel" /\ trapno = "ECALL"
  /\ ip' = NextIp(ip)
  /\ trapno' = "NONE"
  /\ mode' \in {"execute", "done", "panic"}
  /\ UNCHANGED <<boot, tb, caches, linkage, place, branch_slot>>

\* trapno is left as it is, so dbt::Execute will return at once.
TrapEbreak ==
  /\ mode = "ukernel" /\ trapno = "EBREAK"
  /\ ip' = NextIp(ip)
  /\ mode' = "execute"
  /\ UNCHANGED <<boot, trapno, tb, caches, linkage, place, branch_slot>>

TrapIll ==
  /\ mode = "ukernel" /\ trapno = "ILLEGAL_INSN"
  /\ mode' = "done"
  /\ UNCHANGED <<boot, cpu, tb, caches, linkage, place, branch_slot>>

-----------------------------------------------------------------------------
BootStep == Announce \/ Booted

ExecuteStep == \/ ExecuteFound \/ ExecuteCompile \/ ExecuteExhausted
               \/ ExecuteFault \/ ExecuteReturn

CodeStep == RunSeq \/ RunFault \/ RunJal \/ RunBrcc \/ RunJalr \/ RunTrap

StubStep == SlotLinked \/ TryLinkBranch \/ BrindHit \/ BrindSlow

UkernelStep == TrapEcall \/ TrapEbreak \/ TrapIll

Halted == mode \in {"done", "fault", "panic"} /\ UNCHANGED vars

Next == BootStep \/ ExecuteStep \/ CodeStep \/ StubStep \/ UkernelStep \/ Halted

Spec == Init /\ [][Next]_vars

\* One host thread runs the guest and never stops on its own.
FairSpec == Spec /\ WF_vars(Next)

-----------------------------------------------------------------------------
(* Properties *)

Pointer == 0 .. Len(tb)

TBlock == [ip : Mapped, tcode : Region,
           is_brind_target : BOOLEAN, is_segment_entry : BOOLEAN]

Slot == [tb : Nat, src : IP, gip : IP, cross_segment : BOOLEAN]

CacheTypeOK ==
  /\ boot \in Boots
  /\ tb \in Seq(TBlock)
  /\ tcache_map \in [IP -> Pointer]
  /\ l1_cache \in [0 .. L1_SIZE - 1 -> Pointer]
  /\ l1_brind_cache \in [0 .. L1_SIZE - 1 -> [gip : IP, code : Pointer]]
  /\ \A s \in DOMAIN links : /\ s \in Slot /\ s.tb \in Pointer \ {0}
                             /\ links[s] \in Pointer \ {0}
  /\ link_map \subseteq Mapped \X Slot

ControlTypeOK ==
  /\ ip \in IP
  /\ trapno \in TrapCodes
  /\ mode \in Modes
  /\ cur \in Pointer /\ bb \in Block /\ pc \in IP
  /\ branch_slot \in Slot

\* Type correctness of the engine's state; pointers stay inside tb_pool.
TypeOK == CacheTypeOK /\ ControlTypeOK

\* Every TBlock is the one tcache_map holds for its address, so no address is
\* ever translated twice and no lookup can miss or return another block.
MapCoherence ==
  /\ \A t \in 1 .. Len(tb) : tcache_map[tb[t].ip] = t
  /\ \A a \in IP : tcache_map[a] # 0 => tb[tcache_map[a]].ip = a

L1Lines ==
  \A h \in 0 .. L1_SIZE - 1 :
    l1_cache[h] # 0 => l1hash(tb[l1_cache[h]].ip) = h

BrindLines ==
  \A h \in 0 .. L1_SIZE - 1 :
    LET e == l1_brind_cache[h]
    IN  e.code # 0 => /\ tb[e.code].ip = e.gip
                      /\ l1hash(e.gip) = h
                      /\ tb[e.code].is_brind_target

\* The direct-mapped caches in front of the map never disagree with it: an
\* l1_cache line holds a block that hashes to it, and an l1_brind_cache line
\* that translated code will jump through leads to the code of its address,
\* whose block is marked as an indirect branch target for the profile.
L1Coherence == L1Lines /\ BrindLines

\* A slot of QCG code that leads out of its page.
CrossPage(s) == tb[s.tb].tcode.direct = {} /\ PageOf(s.src) # PageOf(s.gip)

\* A patched branch slot jumps to the code of the address it was emitted for,
\* link_map knows it under that address, and if it leaves its page (and was not
\* emitted by LLVM) then its target is marked as a segment entry for the profile.
LinkCoherence ==
  \A s \in DOMAIN links :
    /\ tb[links[s]].ip = s.gip
    /\ <<s.gip, s>> \in link_map
    /\ CrossPage(s) => tb[links[s]].is_segment_entry

\* execute.cpp:63, assert(!branch_slot || branch_slot->gip == state->ip).
ExecuteAssert ==
  mode = "execute" /\ trapno = "NONE" /\ branch_slot # NoSlot
    => branch_slot.gip = ip

\* Translated code is at an address of the block it runs, and that block was
\* translated from mapped guest memory of one page.
InBlock ==
  mode = "code" =>
    /\ bb \in Code.blocks
    /\ bb.start <= pc /\ pc < bb.end
    /\ pc \in Mapped
    /\ InSegment(Code.entry, pc)

\* However control reaches a region through a slot of QCG code from outside its
\* page, or through the indirect-branch caches, the dispatch that enters it
\* leaves the mark the profile needs.
EntryMarked ==
  mode # "code" /\ mode' = "code" =>
    /\ branch_slot = NoSlot => tb'[cur'].is_brind_target
    /\ branch_slot # NoSlot /\ CrossPage(branch_slot)
         => tb'[cur'].is_segment_entry

EntriesMarked == [][EntryMarked]_vars

\* docs/rvdbt.md says that the profile marks the blocks "which are cross-page
\* branch targets": a step into a region of another page leaves it marked.
CrossPageMarked ==
  mode = "code" /\ mode' = "code" /\ PageOf(pc') # PageOf(pc)
    => tb'[cur'].is_segment_entry

CrossPageTargetsMarked == [][CrossPageMarked]_vars

\* The guest address that the engine is about to execute.
GuestIp == CASE mode \in {"code", "brind"} -> pc
             [] mode = "slot" -> branch_slot.gip
             [] OTHER -> ip

GuestStatus == CASE mode = "done" -> "exited"
                 [] mode \in {"fault", "panic"} -> mode
                 [] OTHER -> "run"

G == INSTANCE Guest WITH
       Programs <- {[prog |-> b.prog, entry |-> b.entry] : b \in Boots},
       gip <- GuestIp, status <- GuestStatus

\* Whatever is cached, patched or compiled, the guest executes exactly the
\* instructions the interpreter's handlers would: translation is invisible.
RunsGuest == G!Spec

\* Between two guest instructions the engine does finitely many steps: each
\* dispatch, stub or trap ends in translated code or in the process's end.
Responsive ==
  (mode \in {"boot", "execute", "slot", "brind", "ukernel"})
    ~> (mode \in {"code", "done", "fault", "panic"})

\* examples/demokernel/tests.txt:61 runs a program that stops at an ebreak and
\* asserts that the thread is then at the address of the ebreak.
StopsAtEbreak ==
  mode = "ukernel" /\ trapno = "EBREAK" => prog[ip].op = "ebreak"

-----------------------------------------------------------------------------
(* The inductive invariant *)

\* Every TBlock holds a well-formed region entered at its address.
TBlocksOk ==
  \A t \in 1 .. Len(tb) : /\ tb[t].tcode.entry = tb[t].ip
                          /\ RegionOf(prog, image, tb[t].tcode)

\* The first TBlocks are those of the image, in its order.
ImageOk ==
  /\ \A t \in 1 .. Len(tb) : t <= Len(image) => tb[t].ip = image[t].entry
  /\ mode \notin {"boot", "panic"} => Len(image) <= Len(tb)
  /\ mode = "boot" => Len(tb) <= Len(image)

\* A slot belongs to a TBlock, and QCG knows whether it leaves its page.
SlotFits(s) ==
  /\ s.tb \in 1 .. Len(tb)
  /\ CrossPage(s) => s.cross_segment

\* A slot in use was emitted by a region for one of its own addresses.
SlotOk ==
  /\ branch_slot # NoSlot => SlotFits(branch_slot)
  /\ mode = "slot" => branch_slot # NoSlot
  /\ mode \in {"code", "brind", "boot", "ukernel"} => branch_slot = NoSlot

\* Which trap can be pending where.
TrapOk ==
  /\ mode \in {"boot", "code", "slot", "brind"} => trapno = "NONE"
  /\ mode = "execute" => trapno \in {"NONE", "EBREAK"}
  /\ mode = "ukernel" => trapno # "NONE"
  /\ mode = "ukernel" /\ trapno = "ECALL" => ip \in Mapped /\ prog[ip].op = "ecall"
  /\ mode = "ukernel" /\ trapno = "ILLEGAL_INSN"
       => ip \in Mapped /\ prog[ip].op \in IllegalOps

CurOk == mode = "code" => cur # 0

CacheInv == /\ CacheTypeOK /\ TBlocksOk
            /\ MapCoherence /\ L1Coherence /\ LinkCoherence

ControlInv == /\ ControlTypeOK
              /\ ExecuteAssert /\ InBlock
              /\ ImageOk /\ SlotOk /\ TrapOk /\ CurOk

\* The inductive invariant: what the caches hold, and where control is.
IInv == CacheInv /\ ControlInv

=============================================================================
