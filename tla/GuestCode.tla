------------------------------ MODULE GuestCode ------------------------------
(***************************************************************************)
(* Guest code as the translator sees it.  An address is the number of a    *)
(* 4-byte instruction slot, so `ip + 4' in the code is `ip + 1' here, and  *)
(* PAGE_SIZE counts instructions.  An instruction is abstracted to what    *)
(* decides control: its opcode class and the targets it may branch to.     *)
(***************************************************************************)
EXTENDS Integers

CONSTANTS N_IPS,         \* size of the guest address space (2^32 in the code)
          PAGE_SIZE,     \* mmu::PAGE_SIZE, in instructions
          TB_MAX_INSNS,  \* longest translated basic block
          Mapped         \* addresses backed by guest memory

IP == 0 .. N_IPS - 1

\* Next instruction address; guest addresses are u32 and wrap.
NextIp(a) == IF a = N_IPS - 1 THEN 0 ELSE a + 1

PageOf(a) == a \div PAGE_SIZE

\* roundup(ip, PAGE_SIZE): a page-aligned address is its own upper bound.
RoundUpPage(a) ==
  IF PageOf(a) * PAGE_SIZE = a THEN a ELSE (PageOf(a) + 1) * PAGE_SIZE

\* CodeSegment(gip_page, PAGE_SIZE).InSegment
InSegment(page_ip, gip) == PageOf(gip) = PageOf(page_ip)

(***************************************************************************)
(* Opcode classes of rv32_ops.h: Flags::Branch is {jal, brcc, jalr} and    *)
(* Flags::Trap is {ecall, ebreak, ill}.  The rest falls through: "mem" are *)
(* the loads and stores (Flags::MayTrap), "amo" the A extension and        *)
(* "fence" the fences, both run by helpers, and "unimpl" the atomics whose *)
(* helper raises ILLEGAL_INSN though they do not have Flags::Trap.         *)
(***************************************************************************)
TrapOps == {"ecall", "ebreak", "ill"}

BranchOps == {"jal", "brcc", "jalr"}

SeqOps == {"alu", "mem", "amo", "fence"}

IllegalOps == {"ill", "unimpl"}

\* The A format has Flags::MayTrap too.
MayTrapOps == {"mem", "amo", "unimpl"}

Insn == [op : SeqOps \cup BranchOps \cup TrapOps \cup {"unimpl"}, tgts : SUBSET IP]

EndsBlock(i) == i.op \in BranchOps \cup TrapOps

(***************************************************************************)
(* Memory below MIN_MMAP_ADDR and the topmost page (the stack guard) hold  *)
(* no code, and mappings are made of whole pages.                          *)
(***************************************************************************)
ASSUME GuestAssumption ==
  /\ N_IPS \in Nat \ {0}
  /\ PAGE_SIZE \in Nat \ {0}
  /\ TB_MAX_INSNS \in Nat \ {0}
  /\ Mapped \subseteq IP
  /\ 0 \notin Mapped
  /\ \A ip \in Mapped : ip + PAGE_SIZE < N_IPS
  /\ \A a, b \in IP : PageOf(a) = PageOf(b) => (a \in Mapped <=> b \in Mapped)

(***************************************************************************)
(* The loop that the translator and the analyser run over one IP range: a  *)
(* block that starts at ip ends at the first branch or trap, at            *)
(* TB_MAX_INSNS instructions or at the lowest of the given bounds, and has *)
(* at least one instruction.                                               *)
(***************************************************************************)
StopsAt(code, a, bounds, end) ==
  \/ \E b \in bounds : end >= b
  \/ end - a = TB_MAX_INSNS
  \/ EndsBlock(code[end - 1])

IsBlock(code, a, bounds, end) ==
  /\ \A e \in a + 1 .. end - 1 : ~StopsAt(code, a, bounds, e)
  /\ StopsAt(code, a, bounds, end)

=============================================================================
