----------------------------- MODULE QRegAlloc -----------------------------
(***************************************************************************)
(* The QCG back end: QRegAlloc allocates physical registers in one pass     *)
(* over the instructions of a region, and QEmit emits an instruction for    *)
(* each of them. The emitted code is run here as it is allocated, on a      *)
(* machine whose registers, CPUState slots and frame slots hold terms.      *)
(*                                                                          *)
(* A region is any sequence of blocks of guest instructions from Insns. A   *)
(* step allocates one QuickIR instruction; env is what QuickIR says the     *)
(* registers of the region hold, and the interpreter says what the guest    *)
(* instruction should have done.                                            *)
(*                                                                          *)
(* An operator named Op_Variant is a mistaken form of Op.                   *)
(***************************************************************************)
EXTENDS Rv32Qir, FiniteSetsExt, Functions

CONSTANTS N_PREGS,      \* physical registers are 0..N_PREGS-1
          FIXED,        \* GPR_FIXED
          CALL_CLOBBER, \* GPR_CALL_CLOBBER
          RCX, RSI,
          N_LOCALS,     \* bound: locals of a region
          FRAME_SIZE,   \* slots of the spill frame
          Insns         \* guest instructions

VARIABLES ra,    \* the allocator and the machine
          env,   \* [VRegs -> term] the registers of the region
          insn,  \* the guest instruction being compiled
          code,  \* its QuickIR that is not allocated yet
          done,  \* the effects of the code emitted for it
          n      \* locals of the region

vars == <<ra, env, insn, code, done, n>>

PRegs == 0 .. N_PREGS - 1

VRegs == 1 .. N_GPR + N_LOCALS

Global(v) == v \in Gprs

NO_VREG == 0

NO_SPILL == -1

Junk == <<"junk">>

Regs(cr) == CASE cr = "R" -> PRegs [] cr = "CX" -> {RCX} [] cr = "SI" -> {RSI}

\* Panic or a failed assertion: the compiler stops.
Fail(s) == [s EXCEPT !.fail = TRUE]

-----------------------------------------------------------------------------
(* Spills and fills. *)

AllocFrameSlot(s, v) ==
  IF s.frame = FRAME_SIZE THEN Fail(s)
  ELSE [s EXCEPT !.offs[v] = s.frame, !.frame = @ + 1]

EmitSpill(s, v) ==
  LET t == IF ~Global(v) /\ s.offs[v] = NO_SPILL THEN AllocFrameSlot(s, v) ELSE s
  IN  CASE Global(v)                          -> [t EXCEPT !.mem[v] = t.reg[t.p[v]]]
        [] ~Global(v) /\ t.offs[v] # NO_SPILL -> [t EXCEPT !.frm[t.offs[v]] = t.reg[t.p[v]]]
        [] OTHER                              -> t

EmitFill(s, v) ==
  CASE Global(v)                             -> [s EXCEPT !.reg[s.p[v]] = s.mem[v]]
    [] ~Global(v) /\ s.offs[v] # NO_SPILL    -> [s EXCEPT !.reg[s.p[v]] = s.frm[s.offs[v]]]
    [] OTHER                                 -> Fail(s)

SyncSpill(s, v) ==
  CASE s.synced[v] \/ s.loc[v] = "MEM"      -> s
    [] ~s.synced[v] /\ s.loc[v] = "REG"     -> [EmitSpill(s, v) EXCEPT !.synced[v] = TRUE]
    [] OTHER                                -> Fail(s)

\* The registers vs are released. p and spill_synced are only meaningful in a
\* machine register: they are cleared here.
Release(s, vs) ==
  [s EXCEPT !.loc    = [v \in VRegs |-> IF v \in vs THEN "MEM" ELSE @[v]],
            !.p      = [v \in VRegs |-> IF v \in vs THEN 0 ELSE @[v]],
            !.synced = [v \in VRegs |-> v \notin vs /\ @[v]],
            !.p2v    = [p \in PRegs |-> IF \E v \in vs : s.loc[v] = "REG" /\ s.p[v] = p
                                       THEN NO_VREG ELSE @[p]]]

Spill(s, v) == Release(SyncSpill(s, v), {v})

\* A free register of the set, or else its first register, spilled.
AllocPReg(s, desire, avoid) ==
  LET target == desire \ avoid
      free   == {p \in target : s.p2v[p] = NO_VREG}
  IN  CASE free # {}                   -> [s |-> s, p |-> Min(free)]
        [] free = {} /\ target # {}    -> [s |-> Spill(s, s.p2v[Min(target)]), p |-> Min(target)]
        [] OTHER                       -> [s |-> Fail(s), p |-> Min(desire)]

Fill(s, v, desire, avoid) ==
  LET a == AllocPReg(s, desire, avoid)
  IN  CASE s.loc[v] = "REG" -> s
        [] s.loc[v] = "MEM" -> EmitFill([a.s EXCEPT !.p[v] = a.p, !.loc[v] = "REG",
                                                    !.p2v[a.p] = v, !.synced[v] = TRUE], v)
        [] OTHER            -> Fail(s)

\* SyncSpill of every global: none of them depends on another.
SyncGlobals(s) ==
  LET dirty == {g \in Gprs : s.loc[g] = "REG" /\ ~s.synced[g]}
  IN  [s EXCEPT !.mem    = [g \in DOMAIN @ |-> IF g \in dirty THEN s.reg[s.p[g]] ELSE @[g]],
                !.synced = [v \in VRegs |-> v \in dirty \/ @[v]],
                !.fail   = @ \/ \E g \in Gprs : s.loc[g] = "DEAD" /\ ~s.synced[g]]

SpillGlobals(s) == Release(SyncGlobals(s), Gprs)

\* Mistaken: the globals are synced but stay in their registers.
BlockBoundary_SyncOnly(s) == SyncGlobals(s)

BlockBoundary(s) == SpillGlobals(s)

RegionBoundary(s) == Release(SyncGlobals(s), VRegs)

SpillClobbered(s, p) ==
  IF p \in CALL_CLOBBER /\ s.p2v[p] # NO_VREG THEN Spill(s, s.p2v[p]) ELSE s

\* The registers that a call clobbers one after the other, then the globals.
CallOp(s) ==
  LET after[k \in 0 .. N_PREGS] == IF k = 0 THEN s ELSE SpillClobbered(after[k - 1], k - 1)
  IN  SpillGlobals(after[N_PREGS])

-----------------------------------------------------------------------------
(* AllocOp: r carries the allocator, the registers that must not be taken   *)
(* and the operands replaced so far.                                        *)

\* Mistaken: the inputs are allocated in the order they are written.
Order_AsWritten(op) == [k \in DOMAIN RaCt[op].in |-> k]

\* The most constrained input first (InstCt::Make).
Order(op) ==
  LET in == RaCt[op].in
  IN  IF Len(in) = 2 /\ Cardinality(Regs(in[2].cr)) < Cardinality(Regs(in[1].cr))
      THEN <<2, 1>> ELSE [k \in DOMAIN in |-> k]

P(p) == <<"p", p>>

AllocSrc(r, k) ==
  LET v    == r.ins.s[k][2]
      cr   == Regs(RaCt[r.ins.op].in[k].cr)
      f    == Fill(r.s, v, cr, r.avoid)
      a    == AllocPReg(f, cr, r.avoid)
      here == f.p[v] \in cr
      p    == IF here THEN f.p[v] ELSE a.p
  IN  IF ~IsVGPR(r.ins.s[k]) THEN r
      ELSE [s     |-> IF here THEN f ELSE [a.s EXCEPT !.reg[p] = a.s.reg[a.s.p[v]]],
            avoid |-> r.avoid \cup {p},
            ins   |-> [r.ins EXCEPT !.s[k] = P(p)]]

\* vmload, vmstore: the CPUState must be complete when the access faults.
SyncSideeff(r) ==
  IF r.ins.op \in {"vmload", "vmstore"}
  THEN [r EXCEPT !.s = SyncGlobals(r.s)] ELSE r

\* Mistaken: the register a redefined value leaves is not freed.
AllocDst_KeepOld(r) ==
  LET v == r.ins.d[2]
      a == AllocPReg(r.s, PRegs, r.avoid)
      s == IF RaCt[r.ins.op].alias THEN r.s
           ELSE [a.s EXCEPT !.loc[v] = "REG", !.p2v[a.p] = v, !.p[v] = a.p]
  IN  IF ~IsVGPR(r.ins.d) THEN r
      ELSE [r EXCEPT !.s = [s EXCEPT !.synced[v] = FALSE], !.ins.d = P(s.p[v])]

\* Mistaken: spill_synced is not reset when a value is redefined in place.
AllocDst_StaySynced(r) ==
  LET v == r.ins.d[2]
      a == AllocPReg(r.s, PRegs, r.avoid)
      t == IF a.s.loc[v] = "REG" THEN [a.s EXCEPT !.p2v[a.s.p[v]] = NO_VREG] ELSE a.s
      s == IF RaCt[r.ins.op].alias THEN r.s
           ELSE [t EXCEPT !.loc[v] = "REG", !.p2v[a.p] = v, !.p[v] = a.p,
                          !.synced[v] = FALSE]
  IN  IF ~IsVGPR(r.ins.d) THEN r ELSE [r EXCEPT !.s = s, !.ins.d = P(s.p[v])]

AllocDst(r) ==
  LET v == r.ins.d[2]
      a == AllocPReg(r.s, PRegs, r.avoid)
      t == IF a.s.loc[v] = "REG" THEN [a.s EXCEPT !.p2v[a.s.p[v]] = NO_VREG] ELSE a.s
      s == IF RaCt[r.ins.op].alias THEN r.s
           ELSE [t EXCEPT !.loc[v] = "REG", !.p2v[a.p] = v, !.p[v] = a.p]
  IN  IF ~IsVGPR(r.ins.d) THEN r
      ELSE [r EXCEPT !.s = [s EXCEPT !.synced[v] = FALSE], !.ins.d = P(s.p[v])]

AllocOp(s, ins) ==
  LET order == Order(ins.op)
      after[k \in 0 .. Len(order)] ==
        IF k = 0 THEN [s |-> s, avoid |-> FIXED, ins |-> ins]
        ELSE AllocSrc(after[k - 1], order[k])
  IN  AllocDst(SyncSideeff(after[Len(order)]))

-----------------------------------------------------------------------------
(* QEmit: the instruction with physical operands, run on the machine. *)

Val(s, o) == IF o[1] = "p" THEN s.reg[o[2]] ELSE o

Vals(s, ins) == [k \in DOMAIN ins.s |-> Val(s, ins.s[k])]

Put(s, d, t) == CASE d[1] = "p"    -> [s EXCEPT !.reg[d[2]] = t]
                  [] d = IpSlot    -> [s EXCEPT !.mem[0] = t]
                  [] OTHER         -> Fail(s)

Binops == ArithmRR

\* xor prd,prd comes before the comparison unless prd is one of its operands.
EmitSetcc(s, ins) ==
  LET cleared == IF ins.d \in {ins.s[1], ins.s[2]} THEN s ELSE Put(s, ins.d, C(0))
  IN  Put(s, ins.d, Apply("setcc", ins.at, Vals(cleared, ins)))

EmitBinop(s, ins) ==
  IF /\ ins.d = ins.s[1]
     /\ ins.op \in {"sll", "srl", "sra"} => IsConst(ins.s[2]) \/ ins.s[2] = P(RCX)
  THEN Put(s, ins.d, Apply(ins.op, ins.at, Vals(s, ins)))
  ELSE Fail(s)

\* gbrind jumps to rsi.
Emit(s, ins) ==
  CASE ins.op = "setcc"             -> EmitSetcc(s, ins)
    [] ins.op \in Binops            -> EmitBinop(s, ins)
    [] ins.op \in {"mov", "vmload"} -> Put(s, ins.d, Apply(ins.op, ins.at, Vals(s, ins)))
    [] ins.op = "gbrind"            -> IF ins.s[1] = P(RSI) THEN s ELSE Fail(s)
    [] OTHER                        -> s

\* What an instruction does besides writing a register.
EffectOf(ins, vals) ==
  CASE ins.op \in {"vmload", "vmstore", "brcc"} -> {<<ins.op, ins.at>> \o vals}
    [] ins.op \in {"br", "gbr", "gbrind"}       -> {<<"goto", vals[1]>>}
    [] OTHER                                    -> {}

-----------------------------------------------------------------------------
(* The pass over a region. A branch target outside the region is a block of  *)
(* its own with one gbr: here a block of the pseudo instruction ovf.         *)

\* Guest registers before the instruction: any values.
Before == [g \in Gprs |-> <<"x", g>>]

NoInsn == [op |-> "none", rd |-> 0, rs1 |-> 0, rs2 |-> 0, imm |-> 0]

\* The constructor and Prologue.
Prologue(mem) ==
  [loc    |-> [v \in VRegs |-> IF Global(v) THEN "MEM" ELSE "DEAD"],
   p      |-> [v \in VRegs |-> 0],
   synced |-> [v \in VRegs |-> FALSE],
   offs   |-> [v \in VRegs |-> NO_SPILL],
   frame  |-> 0,
   p2v    |-> [p \in PRegs |-> NO_VREG],
   reg    |-> [p \in PRegs |-> Junk],
   mem    |-> mem,
   frm    |-> [o \in 0 .. FRAME_SIZE - 1 |-> Junk],
   fail   |-> FALSE]

Unknown == [v \in VRegs |-> IF Global(v) THEN Before[v] ELSE Junk]

Init == /\ ra = Prologue([g \in 0 .. N_GPR |-> IF g = 0 THEN Junk ELSE Before[g]])
        /\ env = Unknown
        /\ insn = NoInsn
        /\ code = <<>>
        /\ done = {}
        /\ n = 0

\* Between two instructions the values are given new names; what no register of
\* the region is counted on to hold is forgotten.
Renamed(s) ==
  [s EXCEPT !.reg = [p \in PRegs |-> IF s.p2v[p] \in Gprs /\ @[p] = env[s.p2v[p]]
                                     THEN Before[s.p2v[p]] ELSE Junk],
            !.mem = [g \in 0 .. N_GPR |-> IF g # 0 /\ @[g] = env[g] THEN Before[g] ELSE Junk],
            !.frm = [o \in DOMAIN @ |-> Junk]]

\* A guest instruction is translated, in a region of k locals so far, and its
\* operands are selected.
Compile(i, k, known) == Select(Translate(i, k, known), k + TranslateTemps(i))

\* The QuickIR of the guest instructions, and its instructions and operands.
Compiled == {q \in {Compile(i, k, known) : i \in Insns, k \in 0 .. N_LOCALS, known \in BOOLEAN} :
               q.n <= N_LOCALS}

Quick == UNION {Range(q.code) : q \in Compiled}

Operands == {ins.d : ins \in Quick} \cup UNION {Range(ins.s) : ins \in Quick}

BeginInsn(i, known) ==
  LET q == Compile(i, n, known)
  IN  /\ insn = NoInsn
      /\ q.n <= N_LOCALS
      /\ insn' = i
      /\ code' = q.code
      /\ n' = q.n
      /\ UNCHANGED <<ra, env, done>>

\* The instruction is compiled: on to the next one of the region (of the block,
\* or of another block, which is entered from any of its predecessors), or to
\* another region.
EndInsn(s, locals) ==
  /\ code = <<>> /\ insn # NoInsn
  /\ ra' = s
  /\ env' = Unknown
  /\ insn' = NoInsn
  /\ done' = {}
  /\ n' = locals
  /\ UNCHANGED code

NextInsn == insn.op \notin EndsBlock /\ EndInsn(Renamed(ra), n)

NextBlock ==
  insn.op \in EndsBlock /\ EndInsn([Renamed(ra) EXCEPT !.reg = [p \in PRegs |-> Junk]], n)

NextRegion == insn.op \in EndsBlock /\ EndInsn(Prologue(Renamed(ra).mem), 0)

\* The registers that c reads before it writes them.
Needed(c) ==
  {v \in VRegs : \E k \in DOMAIN c : /\ \E m \in DOMAIN c[k].s : c[k].s[m] = V(v)
                                      /\ \A j \in 1 .. k - 1 : c[j].d # V(v)}

\* Registers of the machine and slots of the frame.
ASSUME MachineAssumption ==
  /\ N_GPR \in Nat /\ N_LOCALS \in Nat /\ N_PREGS \in Nat /\ FRAME_SIZE \in Nat
  /\ FIXED \subseteq PRegs
  /\ RCX \in PRegs /\ RSI \in PRegs

\* What the allocator is given: instructions whose operands are registers of the
\* region or no registers, with as many inputs as their constraints and, where
\* these ask for it, an output that is the first input.
ASSUME OperandAssumption ==
  /\ \A o \in Operands : /\ o[1] # "p"
                         /\ IsVGPR(o) => \E v \in VRegs : o = V(v)
  /\ \A ins \in Quick :
       /\ ins = Inst(ins.op, ins.at, ins.d, ins.s)
       /\ ins.s \in Seq(Operands)
       /\ ins.op \in DOMAIN RaCt => Len(ins.s) = Len(RaCt[ins.op].in)
       /\ ins.op \in DOMAIN RaCt /\ RaCt[ins.op].alias => IsVGPR(ins.d) /\ ins.s[1] = ins.d
       /\ ins.op \in {"vmstore", "brcc", "gbrind", "br", "gbr", "hcall"} => ~IsVGPR(ins.d)

\* A guest instruction reads no local that it has not written, leaves the region
\* at its end only, and there when it ends its block.
ASSUME CodeAssumption ==
  /\ NoInsn \notin Insns
  /\ \A i \in Insns, k \in 0 .. N_LOCALS, known \in BOOLEAN :
       LET q == Compile(i, k, known)
       IN  q.n <= N_LOCALS =>
             /\ q.n \in Nat
             /\ q.code \in Seq(Quick)
             /\ Needed(q.code) \subseteq Gprs
             /\ \A j \in 1 .. Len(q.code) - 1 : q.code[j].op \notin {"gbr", "gbrind"}
             /\ i.op \in EndsBlock =>
                  /\ q.code # <<>>
                  /\ q.code[Len(q.code)].op \in {"br", "brcc", "gbr", "gbrind", "hcall"}

\* What QuickIR says the next instruction does to the registers of the region.
Eval(ins) ==
  LET val(o) == IF IsVGPR(o) THEN env[o[2]] ELSE o
  IN  CASE ins.op = "hcall" -> [v \in VRegs |-> IF Global(v)
                                                THEN Interp(insn, [g \in Gprs |-> env[g]])[v]
                                                ELSE env[v]]
        [] ins.op # "hcall" /\ IsVGPR(ins.d)
             -> [env EXCEPT ![ins.d[2]] =
                   Apply(ins.op, ins.at, [k \in DOMAIN ins.s |-> val(ins.s[k])])]
        [] OTHER -> env

\* Allocating and emitting the instruction has led to s, or the compiler stops.
Visit(s, effect) ==
  /\ ra' = IF s.fail THEN Fail(ra) ELSE s
  /\ env' = IF s.fail THEN env ELSE Eval(Head(code))
  /\ code' = IF s.fail THEN code ELSE Tail(code)
  /\ done' = IF s.fail THEN done ELSE done \cup effect
  /\ UNCHANGED <<insn, n>>

AtOp(ops) == code # <<>> /\ ~ra.fail /\ Head(code).op \in ops

\* ins has physical operands; the code emitted before it has led to s.
EmitIn(s, ins) == Visit(Emit(s, ins), EffectOf(ins, Vals(s, ins)))

VisitOp ==
  /\ AtOp({"mov", "setcc", "vmload", "vmstore"} \cup Binops)
  /\ LET r == AllocOp(ra, Head(code)) IN EmitIn(r.s, r.ins)

VisitBr == AtOp({"br"}) /\ EmitIn(BlockBoundary(ra), Head(code))

VisitBrcc ==
  /\ AtOp({"brcc"})
  /\ LET r == AllocOp(ra, Head(code)) IN EmitIn(BlockBoundary(r.s), r.ins)

VisitGBr == AtOp({"gbr"}) /\ EmitIn(RegionBoundary(ra), Head(code))

VisitGBrind ==
  /\ AtOp({"gbrind"})
  /\ LET r == AllocOp(ra, Head(code)) IN EmitIn(RegionBoundary(r.s), r.ins)

\* The helper reads and writes the CPUState and clobbers registers.
VisitHcall ==
  /\ AtOp({"hcall"})
  /\ LET s    == CallOp(ra)
         regs == [g \in Gprs |-> s.mem[g]]
         ret  == [s EXCEPT !.reg = [p \in PRegs |-> IF p \in CALL_CLOBBER THEN Junk ELSE @[p]],
                           !.mem = [g \in 0 .. N_GPR |-> IF g = 0 THEN @[0]
                                                         ELSE Interp(insn, regs)[g]]]
     IN  Visit(ret, {<<"hcall", insn.op, regs>>})

Next == \/ \E i \in Insns, known \in BOOLEAN : BeginInsn(i, known)
        \/ NextInsn
        \/ NextBlock
        \/ NextRegion
        \/ VisitOp
        \/ VisitBr
        \/ VisitBrcc
        \/ VisitGBr
        \/ VisitGBrind
        \/ VisitHcall

Spec == Init /\ [][Next]_vars

-----------------------------------------------------------------------------
(* Properties. *)

TypeOK ==
  /\ ra.loc \in [VRegs -> {"DEAD", "MEM", "REG"}]
  /\ ra.p \in [VRegs -> PRegs]
  /\ ra.synced \in [VRegs -> BOOLEAN]
  /\ ra.offs \in [VRegs -> NO_SPILL .. FRAME_SIZE - 1]
  /\ ra.frame \in 0 .. FRAME_SIZE
  /\ ra.p2v \in [PRegs -> VRegs \cup {NO_VREG}]
  /\ n \in 0 .. N_LOCALS

\* The compiler never stops on a region whose locals fit the frame: AllocPReg
\* always finds a register (with no more than three in the pool), no local is
\* filled or spilled before it is written, and QEmit's assertions hold: the
\* output of a binary operation is its first input, a shift count is in cx, an
\* indirect branch target in si.
NoFail == ~ra.fail

\* RTracks and p2v are well formed, p2v is the inverse of the RTracks' registers,
\* and no register of the runtime (state pointer, memory base, stack pointer) is
\* ever given to a value.
P2VCoherent ==
  /\ TypeOK
  /\ \A p \in PRegs : ra.p2v[p] # NO_VREG => ra.loc[ra.p2v[p]] = "REG" /\ ra.p[ra.p2v[p]] = p
  /\ \A v \in VRegs : ra.loc[v] = "REG" => ra.p2v[ra.p[v]] = v
  /\ \A p \in FIXED : ra.p2v[p] = NO_VREG

\* A local does not outlive the guest instruction that creates it.
Live(v) == Global(v) \/ (code # <<>> /\ env[v] # Junk)

\* Where the allocator believes a value to be, the emitted code has put it: in
\* its register, and in its slot when it is in memory or marked spill_synced,
\* through every sequence of renaming, copying, spilling, filling and calls.
ValuesKept ==
  \A v \in VRegs : Live(v) =>
    /\ ra.loc[v] = "REG" => ra.reg[ra.p[v]] = env[v]
    /\ ra.loc[v] = "MEM" \/ (ra.loc[v] = "REG" /\ ra.synced[v]) =>
         (IF Global(v) THEN ra.mem[v] ELSE ra.frm[ra.offs[v]]) = env[v]

\* End to end: the machine code of a guest instruction accesses the memory, calls
\* the helper or branches exactly as the interpreter would, with the same values,
\* and leaves the guest registers the interpreter leaves.
Agrees ==
  insn # NoInsn /\ code = <<>> =>
    /\ done = Effect(insn, Before)
    /\ \A g \in Gprs : env[g] = Interp(insn, Before)[g]

\* When the machine accesses guest memory, CPUState holds the registers before
\* the instruction and its address: a fault there is a precise guest fault.
PreciseState ==
  insn.op \in DOMAIN Loads \cup DOMAIN Stores /\ code = <<>> =>
    ra.mem[0] = Pc(0) /\ \A g \in Gprs : ra.mem[g] = Before[g]

\* At the end of a block every guest register is in CPUState and in no machine
\* register: the successors, allocated with the state another block left, and
\* the runtime, read it there.
EdgesInMemory ==
  insn.op \in EndsBlock /\ code = <<>> =>
    \A g \in Gprs : ra.loc[g] = "MEM" /\ ra.mem[g] = env[g]

=============================================================================
