------------------------------ MODULE Rv32Qir ------------------------------
(***************************************************************************)
(* The front end of the QCG compiler for one guest instruction: what the    *)
(* interpreter does, the QuickIR that RV32Translator emits for it (after    *)
(* the constant folder of qir_opt.cpp) and the QuickIR that QSel leaves for *)
(* the register allocator.                                                  *)
(*                                                                          *)
(* Values are terms over the registers' values before the instruction.      *)
(* Register r \in 1..N_GPR is guest register x<r> (a global of the region), *)
(* register N_GPR + k is the k-th local of the region. Branch targets are   *)
(* aligned: the UNALIGNED_IP trap of the interpreter is left out.           *)
(*                                                                          *)
(* An operator named Op_Variant is a mistaken form of Op.                   *)
(***************************************************************************)
EXTENDS Integers, Sequences

CONSTANTS N_GPR,  \* number of guest registers besides x0
          WORD    \* number of values of a u32

Gprs == 1 .. N_GPR

\* VOperand: a constant, an address relative to the instruction, a register of
\* the region and the CPUState slot of ip.
C(k) == <<"c", k % WORD>>

Pc(k) == <<"pc", k>>

V(r) == <<"v", r>>

IpSlot == <<"slot", 0>>

IsConst(o) == o[1] \in {"c", "pc"}

IsVGPR(o) == o[1] = "v"

NoOperand == <<"none">>

Temp(k) == V(N_GPR + k)

Inst(op, at, d, s) == [op |-> op, at |-> at, d |-> d, s |-> s]

-----------------------------------------------------------------------------
(* Guest instructions by the shape of their translation. *)

ArithmRR == {"add", "sub", "xor", "or", "and", "sll", "srl", "sra"}

ArithmRI == [addi |-> "add", xori |-> "xor", ori |-> "or", andi |-> "and",
             slli |-> "sll", srli |-> "srl", srai |-> "sra"]

SetccRR == [slt |-> "LT", sltu |-> "LTU"]

SetccRI == [slti |-> "LT", sltiu |-> "LTU"]

Brcc == [beq |-> "EQ", bne |-> "NE", blt |-> "LT", bge |-> "GE",
         bltu |-> "LTU", bgeu |-> "GEU"]

Loads == [lb |-> "I8S", lh |-> "I16S", lw |-> "I32S", lbu |-> "I8U", lhu |-> "I16U"]

Stores == [sb |-> "I8U", sh |-> "I16U", sw |-> "I32U"]

Atomics == {"lrw", "scw", "amoswapw", "amoaddw"}

Traps == {"ecall", "ebreak", "ill"}

\* Atomics whose helper leaves rd as it is, or is not implemented and raises a
\* trap.
OtherAtomics == {"amomaxuw", "amoxorw", "amoandw", "amoorw", "amominw", "amomaxw", "amominuw"}

Helpers == {"fence", "fencei"} \cup Atomics \cup OtherAtomics \cup Traps

\* MayTrap or Trap: the instructions that store ip before they run.
StoresIp == DOMAIN Loads \cup DOMAIN Stores \cup Atomics \cup OtherAtomics \cup Traps

\* Instructions after which the block ends ("ovf" is not an instruction: it is
\* the branch to the next one when a block reaches its bound).
EndsBlock == DOMAIN Brcc \cup Traps \cup {"jal", "jalr", "ovf"}

-----------------------------------------------------------------------------
(* The interpreter. *)

Sum(a, b) == CASE a[1] = "c" /\ b[1] = "c" -> C(a[2] + b[2])
               [] a = C(0)                 -> b
               [] b = C(0)                 -> a
               [] OTHER                    -> <<"add", "", a, b>>

\* The value an operation gives its result.
Apply(op, at, a) == CASE op = "mov" -> a[1]
                      [] op = "add" -> Sum(a[1], a[2])
                      [] OTHER      -> <<op, at>> \o a

Gpr(regs, r) == IF r = 0 THEN C(0) ELSE regs[r]

Address(i, regs) == Sum(Gpr(regs, i.rs1), C(i.imm))

Target(i, regs) == Apply("and", "", <<Address(i, regs), C(-2)>>)

\* The value of rd.
Result(i, regs) ==
  LET a == Gpr(regs, i.rs1)
      b == Gpr(regs, i.rs2)
  IN  CASE i.op \in ArithmRR        -> Apply(i.op, "", <<a, b>>)
        [] i.op \in DOMAIN ArithmRI -> Apply(ArithmRI[i.op], "", <<a, C(i.imm)>>)
        [] i.op \in DOMAIN SetccRR  -> Apply("setcc", SetccRR[i.op], <<a, b>>)
        [] i.op \in DOMAIN SetccRI  -> Apply("setcc", SetccRI[i.op], <<a, C(i.imm)>>)
        [] i.op \in DOMAIN Loads    -> Apply("vmload", Loads[i.op], <<Address(i, regs)>>)
        [] i.op \in Atomics         -> Apply(i.op, "", <<a, b>>)
        [] i.op = "lui"             -> C(i.imm)
        [] i.op = "auipc"           -> Pc(i.imm)
        [] i.op \in {"jal", "jalr"} -> Pc(4)

HasRd(i) == i.op \notin DOMAIN Stores \cup DOMAIN Brcc \cup Traps
                        \cup OtherAtomics \cup {"fence", "fencei", "ovf"}

Interp(i, regs) ==
  IF HasRd(i) /\ i.rd # 0 THEN [regs EXCEPT ![i.rd] = Result(i, regs)] ELSE regs

\* What the instruction does besides writing rd: a memory access, a branch, or
\* a helper that reads and writes CPUState.
Effect(i, regs) ==
  LET a == Gpr(regs, i.rs1)
      b == Gpr(regs, i.rs2)
  IN  CASE i.op \in DOMAIN Loads  -> {<<"vmload", Loads[i.op], Address(i, regs)>>}
        [] i.op \in DOMAIN Stores -> {<<"vmstore", Stores[i.op], Address(i, regs), b>>}
        [] i.op \in DOMAIN Brcc   -> {<<"brcc", <<Brcc[i.op], Pc(i.imm), Pc(4)>>, a, b>>}
        [] i.op = "jal"           -> {<<"goto", Pc(i.imm)>>}
        [] i.op = "jalr"          -> {<<"goto", Target(i, regs)>>}
        [] i.op = "ovf"           -> {<<"goto", Pc(0)>>}
        [] i.op \in Helpers       -> {<<"hcall", i.op, regs>>}
        [] OTHER                  -> {}

-----------------------------------------------------------------------------
(* Builder::Create with the folder, and RV32Translator. *)

\* FolderVisitor::visit_add.
Fold(ins) ==
  LET s == IF IsConst(ins.s[1]) THEN <<ins.s[2], ins.s[1]>> ELSE ins.s
  IN  CASE ins.op # "add" -> ins
        [] ins.op = "add" /\ IsConst(ins.s[1]) /\ IsConst(ins.s[2])
             -> Inst("mov", "", ins.d, <<C(ins.s[1][2] + ins.s[2][2])>>)
        [] ins.op = "add" /\ ~IsConst(s[1]) /\ s[2] = C(0)
             -> Inst("mov", "", ins.d, <<s[1]>>)
        [] OTHER -> [ins EXCEPT !.s = s]

Create(op, at, d, s) == <<Fold(Inst(op, at, d, s))>>

gprop(r) == IF r = 0 THEN C(0) ELSE V(r)

\* Mistaken: ip is stored for the instructions that always trap only.
PreSideeff_TrapsOnly(i) ==
  IF i.op \in Traps THEN Create("mov", "", IpSlot, <<Pc(0)>>) ELSE <<>>

PreSideeff(i) ==
  IF i.op \in StoresIp THEN Create("mov", "", IpSlot, <<Pc(0)>>) ELSE <<>>

\* known: the target is a block of the region.
MakeGBr(ip, known) == <<Inst(IF known THEN "br" ELSE "gbr", "", NoOperand, <<ip>>)>>

\* The instruction that writes rd, none when rd is x0.
WriteRd(i, op, at, s) == IF i.rd = 0 THEN <<>> ELSE Create(op, at, V(i.rd), s)

\* TranslateLoad and TranslateStore: a non-zero offset is added in a local.
EmitAddress(i, tmp) ==
  IF i.imm = 0 THEN <<>> ELSE Create("add", "", tmp, <<gprop(i.rs1), C(i.imm)>>)

Addr(i, tmp) == IF i.imm = 0 THEN gprop(i.rs1) ELSE tmp

TranslateLoad(i, tmp) ==
  EmitAddress(i, tmp)
  \o Create("vmload", Loads[i.op], IF i.rd = 0 THEN Addr(i, tmp) ELSE V(i.rd),
            <<Addr(i, tmp)>>)

TranslateStore(i, tmp) ==
  EmitAddress(i, tmp)
  \o Create("vmstore", Stores[i.op], NoOperand, <<Addr(i, tmp), gprop(i.rs2)>>)

\* The successors are the taken block and the next one.
TranslateBrcc(i) ==
  Create("brcc", <<Brcc[i.op], Pc(i.imm), Pc(4)>>, NoOperand, <<gprop(i.rs1), gprop(i.rs2)>>)

\* Mistaken: rd is written before the target is computed from rs1.
TranslateJalr_LinkFirst(i, tmp) ==
  WriteRd(i, "mov", "", <<Pc(4)>>)
  \o Create("add", "", tmp, <<gprop(i.rs1), C(i.imm)>>)
  \o Create("and", "", tmp, <<tmp, C(-2)>>)
  \o Create("gbrind", "", NoOperand, <<tmp>>)

TranslateJalr(i, tmp) ==
  Create("add", "", tmp, <<gprop(i.rs1), C(i.imm)>>)
  \o Create("and", "", tmp, <<tmp, C(-2)>>)
  \o WriteRd(i, "mov", "", <<Pc(4)>>)
  \o Create("gbrind", "", NoOperand, <<tmp>>)

\* The translation of i in a region of so many locals.
Translate(i, locals, known) ==
  LET a == gprop(i.rs1)
      b == gprop(i.rs2)
      k == C(i.imm)
  IN  PreSideeff(i) \o
      CASE i.op \in ArithmRR        -> WriteRd(i, i.op, "", <<a, b>>)
        [] i.op \in DOMAIN ArithmRI -> WriteRd(i, ArithmRI[i.op], "", <<a, k>>)
        [] i.op \in DOMAIN SetccRR  -> WriteRd(i, "setcc", SetccRR[i.op], <<a, b>>)
        [] i.op \in DOMAIN SetccRI  -> WriteRd(i, "setcc", SetccRI[i.op], <<a, k>>)
        [] i.op = "lui"             -> WriteRd(i, "mov", "", <<k>>)
        [] i.op = "auipc"           -> WriteRd(i, "mov", "", <<Pc(i.imm)>>)
        [] i.op = "jal"             -> WriteRd(i, "mov", "", <<Pc(4)>>)
                                       \o MakeGBr(Pc(i.imm), known)
        [] i.op = "jalr"            -> TranslateJalr(i, Temp(locals + 1))
        [] i.op = "ovf"             -> MakeGBr(Pc(0), known)
        [] i.op \in DOMAIN Brcc     -> TranslateBrcc(i)
        [] i.op \in DOMAIN Loads    -> TranslateLoad(i, Temp(locals + 1))
        [] i.op \in DOMAIN Stores   -> TranslateStore(i, Temp(locals + 1))
        [] i.op \in Helpers         -> Create("hcall", i.op, NoOperand, <<C(0)>>)

\* Locals that Translate creates.
TranslateTemps(i) ==
  IF i.op = "jalr" \/ (i.op \in DOMAIN Loads \cup DOMAIN Stores /\ i.imm # 0) THEN 1 ELSE 0

-----------------------------------------------------------------------------
(* Operand constraints (arch_traits.cpp) and QSel. *)

In(cr, ci) == [cr |-> cr, ci |-> ci]

\* alias: the first input is the output.
Ct(alias, ins) == [alias |-> alias, in |-> ins]

RS32 == Ct(TRUE, <<In("R", {}), In("R", {"S32"})>>)

CXI == Ct(TRUE, <<In("R", {}), In("CX", {"ANY"})>>)

RaCt ==
  [brcc    |-> Ct(FALSE, <<In("R", {}), In("R", {"S32"})>>),
   gbrind  |-> Ct(FALSE, <<In("SI", {})>>),
   vmload  |-> Ct(FALSE, <<In("R", {"U32"})>>),
   vmstore |-> Ct(FALSE, <<In("R", {"ANY"}), In("R", {})>>),
   setcc   |-> Ct(FALSE, <<In("R", {}), In("R", {"S32"})>>),
   mov     |-> Ct(FALSE, <<In("R", {"ANY"})>>),
   add |-> RS32, sub |-> RS32, or |-> RS32, xor |-> RS32,
   and |-> Ct(TRUE, <<In("R", {}), In("R", {"U32"})>>),
   sra |-> CXI, srl |-> CXI, sll |-> CXI]

match_gp_const(val, ci) == \/ "ANY" \in ci
                           \/ "U32" \in ci
                           \/ "S32" \in ci /\ val < WORD \div 2

Mov(d, s) == Inst("mov", "", d, <<s>>)

\* "satisfy aliases": the output is copied from the first of the two inputs; a
\* second one that is the output's old value is first saved in a new local.
SatisfyAlias(ins, locals) ==
  LET live == ins.s[2] = ins.d
      tmp  == Temp(locals + 1)
      rest == <<ins.d, IF live THEN tmp ELSE ins.s[2]>>
  IN  IF ~RaCt[ins.op].alias \/ ins.s[1] = ins.d
      THEN [n |-> locals, pre |-> <<>>, ins |-> ins]
      ELSE [n   |-> IF live THEN locals + 1 ELSE locals,
            pre |-> (IF live THEN <<Mov(tmp, ins.d)>> ELSE <<>>) \o <<Mov(ins.d, ins.s[1])>>,
            ins |-> [ins EXCEPT !.s = rest]]

\* "lower constants": a constant the operand cannot encode goes to a new local.
LowerConst(r, k) ==
  LET o == r.ins.s[k]
  IN  IF ~IsConst(o) \/ match_gp_const(o[2], RaCt[r.ins.op].in[k].ci)
      THEN r
      ELSE [n   |-> r.n + 1,
            pre |-> Append(r.pre, Mov(Temp(r.n + 1), o)),
            ins |-> [r.ins EXCEPT !.s[k] = Temp(r.n + 1)]]

SelectOperands(ins, locals) ==
  LET after[k \in 0 .. Len(ins.s)] ==
        IF k = 0 THEN SatisfyAlias(ins, locals) ELSE LowerConst(after[k - 1], k)
  IN  IF ins.op \in DOMAIN RaCt THEN after[Len(ins.s)]
      ELSE [n |-> locals, pre |-> <<>>, ins |-> ins]

\* QSel::Run over the instructions of one guest instruction.
Select(insts, locals) ==
  LET after[k \in 0 .. Len(insts)] ==
        LET r == after[k - 1]
            t == SelectOperands(insts[k], r.n)
        IN  IF k = 0 THEN [n |-> locals, code |-> <<>>]
            ELSE [n |-> t.n, code |-> r.code \o t.pre \o <<t.ins>>]
  IN  after[Len(insts)]

=============================================================================
