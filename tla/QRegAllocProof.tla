-------------------------- MODULE QRegAllocProof --------------------------
(***************************************************************************)
(* Proofs about the pass of the register allocator over a region: what the *)
(* emitted code leaves in machine registers, CPUState and the frame is     *)
(* what QuickIR says, wherever the allocator believes it to be.            *)
(*                                                                         *)
(* ValuesKept is not inductive. A local counts from before it is written,  *)
(* because the code to come reads it (Needed), so the invariant is about   *)
(* the registers that are Counted; a value in a slot stays there only      *)
(* while no two registers share one (Slots, in Allocator); and an          *)
(* instruction that ends a block must end its QuickIR too (Shape).         *)
(*                                                                         *)
(* PreciseState, what a handler of a memory fault finds in CPUState, has   *)
(* an invariant of its own (Precise) that follows an access through the    *)
(* instructions before it.                                                 *)
(***************************************************************************)
EXTENDS QRegAllocOps, QRegAllocAccess

\* The instructions that may end a block.
Exits == {"br", "brcc", "gbr", "gbrind", "hcall"}

\* The QuickIR c of the guest instruction i leaves the region at its end only, and
\* there when i ends its block.
Shape(c, i) ==
  /\ c \in Seq(Quick)
  /\ \A k \in 1 .. Len(c) - 1 : c[k].op \notin {"gbr", "gbrind"}
  /\ c # <<>> /\ i.op \in EndsBlock => c[Len(c)].op \in Exits

\* The registers whose values count while c is to be allocated: the guest's, and,
\* until c is done, the locals that are written or that c reads first.
Counted(c, e) ==
  Gprs \cup (IF c = <<>> THEN {} ELSE {v \in VRegs : e[v] # Junk} \cup Needed(c))

\* The allocator s has kept the values e that count, and at the end of a block the
\* guest's are in CPUState.
Good(s, e, c, i) ==
  /\ Allocator(s)
  /\ DOMAIN e = VRegs
  /\ \A v \in Counted(c, e) : Kept(s, e, v)
  /\ i.op \in EndsBlock /\ c = <<>> =>
       \A g \in Gprs : s.loc[g] = "MEM" /\ s.mem[g] = e[g]

\* The inductive invariant.
Inv ==
  /\ Good(ra, env, code, insn)
  /\ Shape(code, insn)
  /\ n \in 0 .. N_LOCALS
  /\ insn = NoInsn => env = Unknown /\ code = <<>>

-----------------------------------------------------------------------------
(* Failures, the rest of the QuickIR and the registers that count *)

\* Put does not undo a failure.
LEMMA PutStays ==
  ASSUME NEW s, DOMAIN s = Fields, s.fail, NEW d, NEW val
  PROVE  Put(s, d, val).fail
<1>1. CASE d[1] = "p"
  <2>1. Put(s, d, val) = [s EXCEPT !.reg[d[2]] = val]
    BY <1>1, PutCases, SMT
  <2> QED
    BY <2>1, SMT DEF Fields
<1>2. CASE d = IpSlot
  <2>1. Put(s, d, val) = [s EXCEPT !.mem[0] = val]
    BY <1>2, PutCases, SMT
  <2> QED
    BY <2>1, SMT DEF Fields
<1>3. CASE d[1] # "p" /\ d # IpSlot
  <2>1. Put(s, d, val) = [s EXCEPT !.fail = TRUE]
    BY <1>3, PutCases, SMT DEF Fail
  <2> QED
    BY <2>1, SMT DEF Fields
<1> QED
  BY <1>1, <1>2, <1>3, Zenon

\* Emit does not undo a failure.
LEMMA EmitStays ==
  ASSUME NEW s, DOMAIN s = Fields, s.fail, NEW ins
  PROVE  Emit(s, ins).fail
<1>1. Fail(s).fail
  BY SMT DEF Fail, Fields
<1>2. CASE ins.op = "setcc"
  <2>1. Emit(s, ins) = EmitSetcc(s, ins)
    BY <1>2, EmitCases, Zenon
  <2> QED
    BY <2>1, PutStays, Zenon DEF EmitSetcc
<1>3. CASE ins.op \in Binops
  <2>1. Emit(s, ins) = EmitBinop(s, ins)
    BY <1>3, EmitCases, Zenon
  <2> QED
    BY <2>1, <1>1, PutStays, Zenon DEF EmitBinop
<1>4. CASE ins.op \in {"mov", "vmload"}
  <2>1. Emit(s, ins) = Put(s, ins.d, Apply(ins.op, ins.at, Vals(s, ins)))
    BY <1>4, EmitCases, Zenon
  <2> QED
    BY <2>1, PutStays, Zenon
<1>5. CASE ins.op = "gbrind"
  <2>1. Emit(s, ins) = IF ins.s[1] = P(RSI) THEN s ELSE Fail(s)
    BY <1>5, EmitCases, Zenon
  <2> QED
    BY <2>1, <1>1, Zenon
<1>6. CASE /\ ins.op # "setcc" /\ ins.op \notin Binops
           /\ ins.op \notin {"mov", "vmload"} /\ ins.op # "gbrind"
  <2>1. Emit(s, ins) = s
    BY <1>6, Zenon DEF Emit
  <2> QED
    BY <2>1, Zenon
<1> QED
  BY <1>2, <1>3, <1>4, <1>5, <1>6, Zenon

\* The instructions of a tail.
LEMMA TailFacts ==
  ASSUME NEW T, NEW c \in Seq(T), c # <<>>
  PROVE  /\ Tail(c) \in Seq(T) /\ Head(c) \in T /\ Head(c) = c[1]
         /\ Len(Tail(c)) = Len(c) - 1 /\ Len(c) \in Nat /\ Len(c) > 0
         /\ DOMAIN c = 1 .. Len(c) /\ DOMAIN Tail(c) = 1 .. Len(c) - 1
         /\ \A k \in 1 .. Len(c) - 1 : Tail(c)[k] = c[k + 1]
         /\ Tail(c) = <<>> <=> Len(c) = 1
<1>1. /\ Tail(c) \in Seq(T) /\ Head(c) \in T /\ Head(c) = c[1]
      /\ Len(Tail(c)) = Len(c) - 1 /\ Len(c) \in Nat /\ Len(c) > 0
      /\ DOMAIN c = 1 .. Len(c) /\ DOMAIN Tail(c) = 1 .. Len(c) - 1
  BY SMT
<1>2. \A k \in 1 .. Len(c) - 1 : Tail(c)[k] = c[k + 1]
  BY SMT
<1>3. Tail(c) = <<>> <=> Len(c) = 1
  BY <1>1, SMT
<1> QED
  BY <1>1, <1>2, <1>3, Zenon

\* What the rest of the QuickIR reads first, the instruction writes or the whole
\* reads first.
LEMMA NeededTail ==
  ASSUME NEW c \in Seq(Quick), c # <<>>, NEW v \in Needed(Tail(c))
  PROVE  v \in Needed(c) \/ Head(c).d = V(v)
<1>1. SUFFICES ASSUME c[1].d # V(v)
               PROVE  v \in Needed(c)
  BY TailFacts, Zenon
<1>2. PICK k \in DOMAIN Tail(c) : /\ \E m \in DOMAIN Tail(c)[k].s : Tail(c)[k].s[m] = V(v)
                                  /\ \A j \in 1 .. k - 1 : Tail(c)[j].d # V(v)
  BY Zenon DEF Needed
<1>3. k \in 1 .. Len(c) - 1 /\ Len(c) \in Nat /\ k + 1 \in DOMAIN c /\ Tail(c)[k] = c[k + 1]
  BY <1>2, TailFacts, SMT
<1>4. \E m \in DOMAIN c[k + 1].s : c[k + 1].s[m] = V(v)
  BY <1>2, <1>3, Zenon
<1>5. ASSUME NEW j \in 1 .. (k + 1) - 1
      PROVE  c[j].d # V(v)
  <2>1. CASE j = 1
    BY <2>1, <1>1, Zenon
  <2>2. CASE j # 1
    <3>1. j - 1 \in 1 .. k - 1 /\ j - 1 \in 1 .. Len(c) - 1 /\ (j - 1) + 1 = j
      BY <2>2, <1>3, <1>5, SMT
    <3>2. Tail(c)[j - 1] = c[j]
      BY <3>1, TailFacts, Zenon
    <3> QED
      BY <3>1, <3>2, <1>2, Zenon
  <2> QED
    BY <2>1, <2>2, Zenon
<1>6. v \in VRegs
  BY Zenon DEF Needed
<1> QED
  BY <1>3, <1>4, <1>5, <1>6, Zenon DEF Needed

\* What counts after an instruction counted before, or the instruction writes it.
LEMMA CountedTail ==
  ASSUME NEW c \in Seq(Quick), c # <<>>, NEW e, NEW f,
         \A v \in VRegs \ Gprs : f[v] = e[v] \/ Head(c).d = V(v),
         NEW v \in Counted(Tail(c), f)
  PROVE  v \in Counted(c, e) \/ Head(c).d = V(v)
<1>1. CASE v \in Gprs
  BY <1>1, Zenon DEF Counted
<1>2. CASE v \notin Gprs /\ v \in Needed(Tail(c))
  BY <1>2, NeededTail, Zenon DEF Counted
<1>3. CASE v \notin Gprs /\ v \in VRegs /\ f[v] # Junk
  BY <1>3, Zenon DEF Counted
<1> QED
  BY <1>1, <1>2, <1>3, Zenon DEF Counted

\* The inputs of the next instruction count.
LEMMA CountedInputs ==
  ASSUME NEW s, NEW e, NEW c \in Seq(Quick), c # <<>>, \A v \in Counted(c, e) : Kept(s, e, v),
         Constrained(Head(c))
  PROVE  InputsKept(s, e, Head(c))
<1>1. SUFFICES ASSUME NEW k \in DOMAIN Head(c).s, IsVGPR(Head(c).s[k])
               PROVE  Kept(s, e, Head(c).s[k][2])
  BY Zenon DEF InputsKept
<1>2. PICK v : v = Head(c).s[k][2]
  BY Zenon
<1>3. v \in VRegs /\ Head(c).s[k] = V(v)
  BY <1>1, <1>2, OperandFacts, Zenon
<1>4. 1 \in DOMAIN c /\ c[1] = Head(c) /\ 1 .. 1 - 1 = {}
  BY TailFacts, SMT
<1>5. v \in Needed(c)
  BY <1>1, <1>3, <1>4, Zenon DEF Needed
<1> QED
  BY <1>2, <1>5, Zenon DEF Counted

-----------------------------------------------------------------------------
(* Steps *)

\* What QuickIR says, by its cases.
LEMMA EvalCases ==
  ASSUME NEW ins, ins.op # "hcall"
  PROVE  /\ IsVGPR(ins.d) =>
              Eval(ins) = [env EXCEPT ![ins.d[2]] = Apply(ins.op, ins.at, Source(ins, env))]
         /\ ~IsVGPR(ins.d) => Eval(ins) = env
<1>1. CASE IsVGPR(ins.d)
  BY <1>1, Zenon DEF Eval, Source
<1>2. CASE ~IsVGPR(ins.d)
  BY <1>2, Zenon DEF Eval
<1> QED
  BY <1>1, <1>2, Zenon

\* The compiler stops with everything as it was.
LEMMA FailGood ==
  ASSUME NEW s, NEW e, NEW c, NEW i, Good(s, e, c, i)
  PROVE  Good(Fail(s), e, c, i)
<1>1. PICK t : t = Fail(s)
  BY Zenon
<1>2. /\ DOMAIN t = Fields /\ t.loc = s.loc /\ t.p = s.p /\ t.synced = s.synced /\ t.offs = s.offs
      /\ t.frame = s.frame /\ t.p2v = s.p2v /\ t.reg = s.reg /\ t.mem = s.mem /\ t.frm = s.frm
      /\ t.fail = TRUE
  BY <1>1, SMT DEF Fail, Good, Allocator, Typed, Fields
<1>3. Allocator(s)
  BY Zenon DEF Good
<1>4. Typed(t)
  BY <1>1, <1>3, FailStays, Zenon DEF Allocator, Stays
<1>5. Coherent(t)
  BY <1>2, <1>3, SMT DEF Allocator, Coherent
<1>6. Slots(t) /\ \A g \in Gprs : t.loc[g] # "DEAD"
  BY <1>2, <1>3, SMT DEF Allocator, Slots
<1>7. Allocator(t)
  BY <1>4, <1>5, <1>6, Zenon DEF Allocator
<1>8. ASSUME NEW v \in Counted(c, e)
      PROVE  Kept(t, e, v)
  <2>1. Kept(s, e, v)
    BY <1>8, Zenon DEF Good
  <2> QED
    BY <1>2, <2>1, SMT DEF Kept, InSlot
<1>9. i.op \in EndsBlock /\ c = <<>> => \A g \in Gprs : t.loc[g] = "MEM" /\ t.mem[g] = e[g]
  BY <1>2, Zenon DEF Good
<1> QED
  BY <1>1, <1>7, <1>8, <1>9, Zenon DEF Good

\* The rest of the QuickIR has the same shape.
LEMMA ShapeTail ==
  ASSUME NEW c, c # <<>>, NEW i, Shape(c, i)
  PROVE  /\ Shape(Tail(c), i)
         /\ c \in Seq(Quick) /\ Head(c) \in Quick
         /\ Head(c).op \in {"gbr", "gbrind"} => Tail(c) = <<>>
         /\ i.op \in EndsBlock /\ Tail(c) = <<>> => Head(c).op \in Exits
<1>1. /\ c \in Seq(Quick)
      /\ \A k \in 1 .. Len(c) - 1 : c[k].op \notin {"gbr", "gbrind"}
      /\ i.op \in EndsBlock => c[Len(c)].op \in Exits
  BY Zenon DEF Shape
<1>2. /\ Tail(c) \in Seq(Quick) /\ Head(c) \in Quick /\ Head(c) = c[1]
      /\ Len(Tail(c)) = Len(c) - 1 /\ Len(c) \in Nat /\ Len(c) > 0
      /\ \A k \in 1 .. Len(c) - 1 : Tail(c)[k] = c[k + 1]
      /\ Tail(c) = <<>> <=> Len(c) = 1
  BY <1>1, TailFacts, Zenon
<1>3. ASSUME NEW k \in 1 .. Len(Tail(c)) - 1
      PROVE  Tail(c)[k].op \notin {"gbr", "gbrind"}
  <2>1. k \in 1 .. Len(c) - 1 /\ k + 1 \in 1 .. Len(c) - 1
    BY <1>2, SMT
  <2> QED
    BY <2>1, <1>1, <1>2, Zenon
<1>4. ASSUME Tail(c) # <<>>
      PROVE  Tail(c)[Len(Tail(c))] = c[Len(c)]
  <2>1. Len(c) - 1 \in 1 .. Len(c) - 1 /\ (Len(c) - 1) + 1 = Len(c)
    BY <1>2, <1>4, SMT
  <2> QED
    BY <2>1, <1>2, Zenon
<1>5. Shape(Tail(c), i)
  BY <1>1, <1>2, <1>3, <1>4, Zenon DEF Shape
<1>6. Tail(c) # <<>> => 1 \in 1 .. Len(c) - 1
  BY <1>2, SMT
<1>7. Head(c).op \in {"gbr", "gbrind"} => Tail(c) = <<>>
  BY <1>1, <1>2, <1>6, Zenon
<1> QED
  BY <1>1, <1>2, <1>5, <1>7, Zenon

\* An instruction is allocated and emitted, or the compiler stops.
LEMMA VisitKeeps ==
  ASSUME Inv, code # <<>>, NEW s, NEW effect, Visit(s, effect),
         ~s.fail => Good(s, Eval(Head(code)), Tail(code), insn)
  PROVE  Inv'
<1>1. insn' = insn /\ n' = n /\ insn # NoInsn
  BY Zenon DEF Inv, Visit
<1>2. CASE s.fail
  <2>1. ra' = Fail(ra) /\ env' = env /\ code' = code
    BY <1>2, Zenon DEF Visit
  <2>2. Good(Fail(ra), env, code, insn)
    BY FailGood, Zenon DEF Inv
  <2>3. Good(ra', env', code', insn')
    BY <1>1, <2>1, <2>2, Zenon
  <2>4. Shape(code', insn')
    BY <1>1, <2>1, Zenon DEF Inv
  <2> QED
    BY <1>1, <2>3, <2>4, Zenon DEF Inv
<1>3. CASE ~s.fail
  <2>1. ra' = s /\ env' = Eval(Head(code)) /\ code' = Tail(code)
    BY <1>3, Zenon DEF Visit
  <2>2. Good(ra', env', code', insn')
    BY <1>1, <1>3, <2>1, Zenon
  <2>3. Shape(Tail(code), insn)
    BY ShapeTail, Zenon DEF Inv
  <2>4. Shape(code', insn')
    BY <1>1, <2>1, <2>3, Zenon
  <2> QED
    BY <1>1, <2>2, <2>4, Zenon DEF Inv
<1> QED
  BY <1>2, <1>3, Zenon

\* An instruction that writes no register of the region and keeps those that count.
LEMMA ExitGood ==
  ASSUME NEW s, NEW e, NEW c, c # <<>>, NEW i, Good(s, e, c, i), Shape(c, i),
         ~IsVGPR(Head(c).d), NEW u, Allocator(u),
         \A g \in Gprs : u.loc[g] = "MEM" /\ Kept(u, e, g) /\ u.mem[g] = e[g],
         Tail(c) # <<>> => \A w \in VRegs : Kept(s, e, w) => Kept(u, e, w)
  PROVE  Good(u, e, Tail(c), i)
<1>1. c \in Seq(Quick)
  BY Zenon DEF Shape
<1>2. ASSUME NEW v \in Counted(Tail(c), e)
      PROVE  Kept(u, e, v)
  <2>1. CASE v \in Gprs
    BY <2>1, Zenon
  <2>2. CASE v \notin Gprs
    <3>1. Tail(c) # <<>> /\ v \in VRegs
      BY <1>2, <2>2, Zenon DEF Counted, Needed
    <3>2. Head(c).d # V(v)
      BY SMT DEF V, IsVGPR
    <3>3. v \in Counted(c, e)
      BY <1>1, <1>2, <3>2, CountedTail, Zenon
    <3> QED
      BY <3>1, <3>3, Zenon DEF Good
  <2> QED
    BY <2>1, <2>2, Zenon
<1> QED
  BY <1>2, Zenon DEF Good

\* VisitOp: operations, loads and stores. They end no block.
LEMMA VisitOpKeeps ==
  ASSUME Inv, VisitOp
  PROVE  Inv'
<1>1. PICK ins : ins = Head(code)
  BY Zenon
<1>2. /\ code # <<>> /\ ~ra.fail /\ Good(ra, env, code, insn) /\ Shape(code, insn)
      /\ ins.op \in {"mov", "setcc", "vmload", "vmstore"} \cup Binops
  BY <1>1, Zenon DEF Inv, VisitOp, AtOp
<1>3. /\ code \in Seq(Quick) /\ ins \in Quick
      /\ insn.op \in EndsBlock /\ Tail(code) = <<>> => ins.op \in Exits
  BY <1>1, <1>2, ShapeTail, Zenon
<1>4. ins.op \notin Exits /\ ins.op \in DOMAIN RaCt
  BY <1>2, SMT DEF Exits, Binops, ArithmRR, RaCt
<1>5. Constrained(ins)
  BY <1>3, <1>4, Zenon DEF Constrained
<1>6. PICK t : t = AllocOp(ra, ins)
  BY Zenon
<1>7. PICK u : u = Emit(t.s, t.ins)
  BY Zenon
<1>8. \E effect : Visit(u, effect)
  BY <1>1, <1>6, <1>7, Zenon DEF VisitOp, EmitIn
<1>9. ASSUME ~u.fail
      PROVE  Good(u, Eval(ins), Tail(code), insn)
  <2>1. Allocator(ra) /\ DOMAIN env = VRegs /\ \A v \in Counted(code, env) : Kept(ra, env, v)
    BY <1>2, Zenon DEF Good
  <2>2. DOMAIN t.s = Fields /\ (~t.s.fail => Allocated(t, ra, ins))
    BY <1>2, <1>5, <1>6, <2>1, AllocOpKeeps, Zenon
  <2>3. Allocated(t, ra, ins)
    BY <1>7, <1>9, <2>2, EmitStays, Zenon
  <2>4. InputsKept(ra, env, ins)
    BY <1>1, <1>2, <1>3, <1>5, <2>1, CountedInputs, Zenon
  <2>5. PICK res : res = Apply(ins.op, ins.at, Source(ins, env))
    BY Zenon
  <2>6. Done(u, ra, ins, env, res)
    BY <1>2, <1>5, <1>7, <1>9, <2>1, <2>3, <2>4, <2>5, EmitKeeps, Zenon
  <2>7. ins.op # "hcall"
    BY <1>4, Zenon DEF Exits
  <2>8. PICK f : f = Eval(ins)
    BY Zenon
  <2>9. CASE ~IsVGPR(ins.d)
    <3>1. f = env
      BY <2>7, <2>8, <2>9, EvalCases, Zenon
    <3>2. ASSUME NEW v \in Counted(Tail(code), env)
          PROVE  Kept(u, env, v)
      <4>1. ins.d # V(v)
        BY <2>9, SMT DEF V, IsVGPR
      <4>2. v \in Counted(code, env)
        BY <1>1, <1>2, <1>3, <4>1, <3>2, CountedTail, Zenon
      <4>3. v \in VRegs
        BY <4>2, RegsFacts, Zenon DEF Counted, Needed
      <4> QED
        BY <2>1, <2>6, <2>9, <4>2, <4>3, Zenon DEF Done
    <3>3. Allocator(u) /\ ~(insn.op \in EndsBlock /\ Tail(code) = <<>>)
      BY <1>3, <1>4, <2>6, Zenon DEF Done
    <3> QED
      BY <2>1, <2>8, <3>1, <3>2, <3>3, Zenon DEF Good
  <2>10. CASE IsVGPR(ins.d)
    <3>1. PICK d : d = ins.d[2]
      BY Zenon
    <3>2. d \in VRegs /\ ins.d = V(d)
      BY <1>5, <2>10, <3>1, OperandFacts, Zenon
    <3>3. f = [env EXCEPT ![d] = res]
      BY <2>5, <2>7, <2>8, <2>10, <3>1, EvalCases, Zenon
    <3>4. DOMAIN f = VRegs /\ \A v \in VRegs : v # d => f[v] = env[v]
      BY <2>1, <3>3, Zenon
    <3>5. ASSUME NEW v \in Counted(Tail(code), f)
          PROVE  Kept(u, f, v)
      <4>1. v \in Counted(code, env) \/ ins.d = V(v)
        <5>1. \A w \in VRegs \ Gprs : f[w] = env[w] \/ ins.d = V(w)
          BY <3>2, <3>4, Zenon
        <5> QED
          BY <1>1, <1>2, <1>3, <5>1, <3>5, CountedTail, Zenon
      <4>2. v \in VRegs
        BY <3>5, RegsFacts, Zenon DEF Counted, Needed
      <4>3. ins.d = V(v) => v = d
        BY <3>1, SMT DEF V
      <4>4. Kept(ra, env, v) \/ v = d
        BY <2>1, <4>1, <4>3, Zenon
      <4> QED
        BY <2>6, <2>10, <3>1, <3>3, <4>2, <4>4, Zenon DEF Done
    <3>6. Allocator(u) /\ ~(insn.op \in EndsBlock /\ Tail(code) = <<>>)
      BY <1>3, <1>4, <2>6, Zenon DEF Done
    <3> QED
      BY <2>8, <3>4, <3>5, <3>6, Zenon DEF Good
  <2> QED
    BY <2>9, <2>10, Zenon
<1> QED
  BY <1>1, <1>2, <1>8, <1>9, VisitKeeps, Zenon

\* The boundaries do not undo a failure.
LEMMA BoundariesStay ==
  ASSUME NEW s, Typed(s)
  PROVE  Stays(s, BlockBoundary(s)) /\ Stays(s, RegionBoundary(s))
<1>1. PICK t : t = SyncGlobals(s)
  BY Zenon
<1>2. Stays(s, t) /\ Typed(t)
  BY <1>1, SyncGlobalsStays, Zenon DEF Stays
<1>3. Stays(t, Release(t, Gprs)) /\ Stays(t, Release(t, VRegs))
  BY <1>2, ReleaseStays, Zenon
<1>4. BlockBoundary(s) = Release(t, Gprs) /\ RegionBoundary(s) = Release(t, VRegs)
  BY <1>1, Zenon DEF BlockBoundary, SpillGlobals, RegionBoundary
<1> QED
  BY <1>2, <1>3, <1>4, Zenon DEF Stays

\* u is x between blocks, or at the end of the region where nothing is left of c.
Crossed(x, u, c) == u = BlockBoundary(x) \/ (u = RegionBoundary(x) /\ Tail(c) = <<>>)

\* A boundary after an instruction that writes no register of the region.
LEMMA BoundaryGood ==
  ASSUME NEW s, NEW e, NEW c, c # <<>>, NEW i, Good(s, e, c, i), Shape(c, i),
         ~IsVGPR(Head(c).d), NEW x, Allocator(x),
         \A w \in VRegs : Kept(s, e, w) => Kept(x, e, w),
         NEW u, Crossed(x, u, c)
  PROVE  Good(u, e, Tail(c), i)
<1>1. GlobalsSpilled(x, u)
  BY SpillGlobalsKeeps, RegionBoundaryKeeps, Zenon DEF Crossed, BlockBoundary
<1>2. Tail(c) # <<>> => \A w \in VRegs : Kept(x, e, w) => Kept(u, e, w)
  BY SpillGlobalsKeeps, Zenon DEF Crossed, BlockBoundary
<1>3. \A g \in Gprs : Kept(s, e, g)
  BY Zenon DEF Good, Counted
<1>4. \A g \in Gprs : u.loc[g] = "MEM" /\ Kept(u, e, g) /\ u.mem[g] = e[g]
  BY <1>1, <1>3, RegsFacts, Zenon DEF GlobalsSpilled
<1>5. Allocator(u)
  BY <1>1, Zenon DEF GlobalsSpilled
<1> QED
  BY <1>2, <1>4, <1>5, ExitGood, Zenon

\* VisitBr and VisitGBr.
LEMMA VisitBrKeeps ==
  ASSUME Inv, VisitBr \/ VisitGBr
  PROVE  Inv'
<1>1. PICK ins : ins = Head(code)
  BY Zenon
<1>2. /\ code # <<>> /\ Good(ra, env, code, insn) /\ Shape(code, insn)
      /\ ins.op \in {"br", "gbr"}
  BY <1>1, Zenon DEF Inv, VisitBr, VisitGBr, AtOp
<1>3. ins \in Quick /\ (ins.op = "gbr" => Tail(code) = <<>>)
  BY <1>1, <1>2, ShapeTail, Zenon
<1>4. ~IsVGPR(ins.d)
  BY <1>2, <1>3, OperandAssumption, Zenon
<1>5. \E u : Crossed(ra, u, code) /\ EmitIn(u, ins)
  <2>1. CASE VisitBr
    BY <1>1, <2>1, Zenon DEF VisitBr, Crossed
  <2>2. CASE VisitGBr
    BY <1>1, <1>3, <2>2, Zenon DEF VisitGBr, Crossed, AtOp
  <2> QED
    BY <2>1, <2>2, Zenon
<1>6. PICK u : Crossed(ra, u, code) /\ EmitIn(u, ins)
  BY <1>5, Zenon
<1>7. \E effect : Visit(u, effect)
  <2>1. Emit(u, ins) = u
    BY <1>2, EmitCases, Zenon
  <2> QED
    BY <1>6, <2>1, Zenon DEF EmitIn
<1>8. Allocator(ra)
  BY <1>2, Zenon DEF Good
<1>9. Good(u, env, Tail(code), insn)
  BY <1>1, <1>2, <1>4, <1>6, <1>8, BoundaryGood, Zenon
<1>10. Eval(ins) = env
  BY <1>2, <1>4, EvalCases, Zenon
<1> QED
  BY <1>1, <1>2, <1>7, <1>9, <1>10, VisitKeeps, Zenon

\* VisitBrcc and VisitGBrind: the operands are allocated before the boundary.
LEMMA VisitBrccKeeps ==
  ASSUME Inv, VisitBrcc \/ VisitGBrind
  PROVE  Inv'
<1>1. PICK ins : ins = Head(code)
  BY Zenon
<1>2. /\ code # <<>> /\ ~ra.fail /\ Good(ra, env, code, insn) /\ Shape(code, insn)
      /\ ins.op \in {"brcc", "gbrind"}
  BY <1>1, Zenon DEF Inv, VisitBrcc, VisitGBrind, AtOp
<1>3. ins \in Quick /\ (ins.op = "gbrind" => Tail(code) = <<>>)
  BY <1>1, <1>2, ShapeTail, Zenon
<1>4. ins.op \in DOMAIN RaCt
  BY <1>2, SMT DEF RaCt
<1>5. Constrained(ins) /\ ~IsVGPR(ins.d)
  BY <1>2, <1>3, <1>4, OperandAssumption, Zenon DEF Constrained
<1>6. PICK t : t = AllocOp(ra, ins)
  BY Zenon
<1>7. Allocator(ra)
  BY <1>2, Zenon DEF Good
<1>8. Typed(t.s) /\ (~t.s.fail => Allocated(t, ra, ins))
  BY <1>2, <1>5, <1>6, <1>7, AllocOpKeeps, Zenon
<1>9. \E x : Crossed(t.s, x, code) /\ EmitIn(x, t.ins)
  <2>1. CASE VisitBrcc
    BY <1>1, <1>6, <2>1, Zenon DEF VisitBrcc, Crossed
  <2>2. CASE VisitGBrind
    BY <1>1, <1>3, <1>6, <2>2, Zenon DEF VisitGBrind, Crossed, AtOp
  <2> QED
    BY <2>1, <2>2, Zenon
<1>10. PICK x : Crossed(t.s, x, code) /\ EmitIn(x, t.ins)
  BY <1>9, Zenon
<1>11. PICK u : u = Emit(x, t.ins)
  BY Zenon
<1>12. \E effect : Visit(u, effect)
  BY <1>10, <1>11, Zenon DEF EmitIn
<1>13. ASSUME ~u.fail
       PROVE  Good(u, env, Tail(code), insn)
  <2>1. Typed(x) /\ (t.s.fail => x.fail)
    BY <1>8, <1>10, BoundariesStay, Zenon DEF Crossed, Stays
  <2>2. DOMAIN x = Fields
    BY <2>1, Zenon DEF Typed
  <2>3. Allocated(t, ra, ins)
    BY <1>8, <1>11, <1>13, <2>1, <2>2, EmitStays, Zenon
  <2>4. /\ t.ins.op = ins.op /\ Allocator(t.s)
        /\ \A w \in VRegs : Kept(ra, env, w) => Kept(t.s, env, w)
    BY <1>5, <2>3, Zenon DEF Allocated
  <2>5. u = x
    <3>1. CASE ins.op = "brcc"
      BY <1>11, <2>4, <3>1, EmitCases, Zenon
    <3>2. CASE ins.op = "gbrind"
      <4>1. Fail(x).fail
        BY <2>2, SMT DEF Fail, Fields
      <4>2. u = x \/ u = Fail(x)
        BY <1>11, <2>4, <3>2, EmitCases, Zenon
      <4> QED
        BY <1>13, <4>1, <4>2, Zenon
    <3> QED
      BY <1>2, <3>1, <3>2, Zenon
  <2> QED
    BY <1>1, <1>2, <1>5, <1>10, <2>4, <2>5, BoundaryGood, Zenon
<1>14. Eval(ins) = env
  BY <1>2, <1>5, EvalCases, Zenon
<1> QED
  BY <1>1, <1>2, <1>12, <1>13, <1>14, VisitKeeps, Zenon

\* t is s after a helper that clobbers registers and leaves the guest registers f.
Called(s, t, f) ==
  /\ DOMAIN t = Fields /\ t.fail = s.fail
  /\ t.loc = s.loc /\ t.p = s.p /\ t.p2v = s.p2v /\ t.synced = s.synced
  /\ t.frm = s.frm /\ t.offs = s.offs /\ t.frame = s.frame
  /\ DOMAIN t.reg = PRegs /\ \A p \in PRegs \ CALL_CLOBBER : t.reg[p] = s.reg[p]
  /\ DOMAIN t.mem = 0 .. N_GPR /\ \A g \in Gprs : t.mem[g] = f[g]

\* A helper is called with the guest registers in CPUState and no register of the
\* region in a machine register that it clobbers.
LEMMA CalledKeeps ==
  ASSUME NEW s, Allocator(s), NEW e, NEW f, NEW t, Called(s, t, f),
         \A g \in Gprs : s.loc[g] = "MEM",
         \A p \in PRegs : p \in CALL_CLOBBER => s.p2v[p] = NO_VREG,
         \A v \in VRegs \ Gprs : f[v] = e[v]
  PROVE  /\ Allocator(t)
         /\ \A g \in Gprs : Kept(t, f, g)
         /\ \A v \in VRegs \ Gprs : Kept(s, e, v) => Kept(t, f, v)
<1>1. Typed(s) /\ Coherent(s) /\ Slots(s)
  BY Zenon DEF Allocator
<1>2. Typed(t)
  BY <1>1, Zenon DEF Typed, Called
<1>3. Coherent(t)
  BY <1>1, SMT DEF Coherent, Called
<1>4. Slots(t) /\ \A g \in Gprs : t.loc[g] # "DEAD"
  BY <1>1, SMT DEF Slots, Called, Allocator
<1>5. Allocator(t)
  BY <1>2, <1>3, <1>4, Zenon DEF Allocator
<1>6. \A g \in Gprs : Kept(t, f, g)
  BY Zenon DEF Kept, InSlot, Called, Global
<1>7. ASSUME NEW v \in VRegs \ Gprs, Kept(s, e, v)
      PROVE  Kept(t, f, v)
  <2>1. ASSUME s.loc[v] = "REG"
        PROVE  s.p[v] \in PRegs \ CALL_CLOBBER
    <3>1. s.p[v] \in PRegs
      BY <1>1, <1>7, Zenon DEF Typed
    <3>2. s.p2v[s.p[v]] = v /\ v # NO_VREG
      BY <1>1, <1>7, <2>1, RegsFacts, Zenon DEF Coherent
    <3> QED
      BY <3>1, <3>2, Zenon
  <2> QED
    BY <1>7, <2>1, Zenon DEF Kept, InSlot, Called, Global
<1> QED
  BY <1>5, <1>6, <1>7, Zenon

\* VisitHcall: the helper leaves in CPUState what the interpreter says.
LEMMA VisitHcallKeeps ==
  ASSUME Inv, VisitHcall
  PROVE  Inv'
<1>1. PICK ins : ins = Head(code)
  BY Zenon
<1>2. /\ code # <<>> /\ Good(ra, env, code, insn) /\ Shape(code, insn)
      /\ ins.op = "hcall"
  BY <1>1, Zenon DEF Inv, VisitHcall, AtOp
<1>3. code \in Seq(Quick) /\ ins \in Quick
  BY <1>1, <1>2, ShapeTail, Zenon
<1>4. ~IsVGPR(ins.d)
  BY <1>2, <1>3, OperandAssumption, Zenon
<1>5. Allocator(ra) /\ DOMAIN env = VRegs /\ \A v \in Counted(code, env) : Kept(ra, env, v)
  BY <1>2, Zenon DEF Good
<1>6. PICK s : s = CallOp(ra)
  BY Zenon
<1>7. /\ Allocator(s)
      /\ \A g \in Gprs : s.loc[g] = "MEM"
      /\ \A p \in PRegs : p \in CALL_CLOBBER => s.p2v[p] = NO_VREG
      /\ ~s.fail => \A w \in VRegs : Kept(ra, env, w) => Kept(s, env, w)
  BY <1>5, <1>6, CallOpKeeps, Zenon
<1>8. PICK regs : regs = [g \in Gprs |-> s.mem[g]]
  BY Zenon
<1>9. PICK R : R = Interp(insn, regs)
  BY Zenon
<1>10. PICK u : u = [s EXCEPT !.reg = [p \in PRegs |-> IF p \in CALL_CLOBBER THEN Junk ELSE @[p]],
                              !.mem = [g \in 0 .. N_GPR |-> IF g = 0 THEN @[0] ELSE R[g]]]
  BY Zenon
<1>11. \E effect : Visit(u, effect)
  BY <1>6, <1>8, <1>9, <1>10, Zenon DEF VisitHcall
<1>12. Called(s, u, R)
  <2>1. DOMAIN s = Fields /\ Gprs \subseteq (0 .. N_GPR) \ {0}
    BY <1>7, MachineAssumption, SMT DEF Allocator, Typed, Gprs
  <2>2. /\ DOMAIN u = Fields /\ u.fail = s.fail
        /\ u.loc = s.loc /\ u.p = s.p /\ u.p2v = s.p2v /\ u.synced = s.synced
        /\ u.frm = s.frm /\ u.offs = s.offs /\ u.frame = s.frame
    BY <1>10, <2>1, SMT DEF Fields
  <2>3. /\ u.reg = [p \in PRegs |-> IF p \in CALL_CLOBBER THEN Junk ELSE s.reg[p]]
        /\ u.mem = [g \in 0 .. N_GPR |-> IF g = 0 THEN s.mem[0] ELSE R[g]]
    BY <1>10, <2>1, SMT DEF Fields
  <2>4. DOMAIN u.reg = PRegs /\ \A p \in PRegs \ CALL_CLOBBER : u.reg[p] = s.reg[p]
    BY <2>3, Zenon
  <2>5. DOMAIN u.mem = 0 .. N_GPR /\ \A g \in Gprs : u.mem[g] = R[g]
    BY <2>1, <2>3, Zenon
  <2> QED
    BY <2>2, <2>4, <2>5, Zenon DEF Called
<1>13. ASSUME ~u.fail
       PROVE  Good(u, Eval(ins), Tail(code), insn)
  <2>1. ~s.fail
    BY <1>12, <1>13, Zenon DEF Called
  <2>2. \A g \in Gprs : Kept(s, env, g) /\ s.mem[g] = env[g]
    BY <1>5, <1>7, <2>1, RegsFacts, Zenon DEF Counted, Kept, InSlot, Global
  <2>3. regs = [g \in Gprs |-> env[g]]
    BY <1>8, <2>2, Zenon
  <2>4. PICK f : f = Eval(ins)
    BY Zenon
  <2>5. f = [v \in VRegs |-> IF Global(v) THEN R[v] ELSE env[v]]
    BY <1>2, <1>9, <2>3, <2>4, Zenon DEF Eval
  <2>6. /\ DOMAIN f = VRegs
        /\ \A v \in VRegs \ Gprs : f[v] = env[v]
        /\ \A g \in Gprs : f[g] = R[g]
    BY <2>5, RegsFacts, Zenon DEF Global
  <2>7. Called(s, u, f)
    BY <1>12, <2>6, Zenon DEF Called
  <2>8. /\ Allocator(u)
        /\ \A g \in Gprs : Kept(u, f, g)
        /\ \A v \in VRegs \ Gprs : Kept(s, env, v) => Kept(u, f, v)
    BY <1>7, <2>6, <2>7, CalledKeeps, Zenon
  <2>9. ASSUME NEW v \in Counted(Tail(code), f)
        PROVE  Kept(u, f, v)
    <3>1. CASE v \in Gprs
      BY <3>1, <2>8, Zenon
    <3>2. CASE v \notin Gprs
      <4>1. ins.d # V(v)
        BY <1>4, SMT DEF V, IsVGPR
      <4>2. v \in Counted(code, env)
        BY <1>1, <1>2, <1>3, <4>1, <2>6, <2>9, CountedTail, Zenon
      <4>3. v \in VRegs
        BY <3>2, <4>2, Zenon DEF Counted, Needed
      <4>4. Kept(s, env, v)
        BY <1>5, <1>7, <2>1, <4>2, <4>3, Zenon
      <4> QED
        BY <3>2, <2>8, <4>3, <4>4, Zenon
    <3> QED
      BY <3>1, <3>2, Zenon
  <2>10. \A g \in Gprs : u.loc[g] = "MEM" /\ u.mem[g] = f[g]
    BY <1>7, <2>7, Zenon DEF Called
  <2> QED
    BY <2>4, <2>6, <2>8, <2>9, <2>10, Zenon DEF Good
<1> QED
  BY <1>1, <1>2, <1>11, <1>13, VisitKeeps, Zenon

-----------------------------------------------------------------------------
(* From one guest instruction to the next *)

\* The guest registers are where they should be before an instruction.
LEMMA EnteredGood ==
  ASSUME NEW s, Allocator(s), \A g \in Gprs : Kept(s, Unknown, g)
  PROVE  Good(s, Unknown, <<>>, NoInsn)
<1>1. DOMAIN Unknown = VRegs
  BY Zenon DEF Unknown
<1>2. Counted(<<>>, Unknown) = Gprs
  BY Zenon DEF Counted
<1>3. NoInsn.op \notin EndsBlock
  BY SMT DEF NoInsn, EndsBlock, Brcc, Traps
<1> QED
  BY <1>1, <1>2, <1>3, Zenon DEF Good

\* No QuickIR is left.
LEMMA ShapeEmpty == Shape(<<>>, NoInsn)
  BY SMT DEF Shape

\* The allocator of a new region.
LEMMA PrologueGood ==
  ASSUME NEW mem, DOMAIN mem = 0 .. N_GPR, \A g \in Gprs : mem[g] = Before[g]
  PROVE  Good(Prologue(mem), Unknown, <<>>, NoInsn)
<1>1. PICK s : s = Prologue(mem)
  BY Zenon
<1>2. /\ DOMAIN s = Fields
      /\ s.loc = [v \in VRegs |-> IF Global(v) THEN "MEM" ELSE "DEAD"]
      /\ s.p = [v \in VRegs |-> 0]
      /\ s.synced = [v \in VRegs |-> FALSE]
      /\ s.offs = [v \in VRegs |-> NO_SPILL]
      /\ s.frame = 0
      /\ s.p2v = [p \in PRegs |-> NO_VREG]
      /\ s.reg = [p \in PRegs |-> Junk]
      /\ s.mem = mem
      /\ s.frm = [o \in 0 .. FRAME_SIZE - 1 |-> Junk]
      /\ s.fail = FALSE
  BY <1>1, SMT DEF Prologue, Fields
<1>3. Typed(s)
  <2>1. 0 \in PRegs /\ 0 \in 0 .. FRAME_SIZE /\ NO_SPILL \in NO_SPILL .. FRAME_SIZE - 1
    BY RegsFacts, MachineAssumption, SMT DEF NO_SPILL
  <2>2. s.loc \in [VRegs -> Locations] /\ s.synced \in [VRegs -> BOOLEAN] /\ s.fail \in BOOLEAN
    BY <1>2, Zenon DEF Locations
  <2>3. s.p \in [VRegs -> PRegs] /\ s.offs \in [VRegs -> NO_SPILL .. FRAME_SIZE - 1]
    BY <1>2, <2>1, Zenon
  <2>4. s.p2v \in [PRegs -> VRegs \cup {NO_VREG}] /\ s.frame \in 0 .. FRAME_SIZE
    BY <1>2, <2>1, Zenon
  <2>5. DOMAIN s.reg = PRegs /\ DOMAIN s.mem = 0 .. N_GPR /\ DOMAIN s.frm = 0 .. FRAME_SIZE - 1
    BY <1>2, Zenon
  <2> QED
    BY <1>2, <2>2, <2>3, <2>4, <2>5, Zenon DEF Typed
<1>4. \A v \in VRegs : s.loc[v] # "REG"
  BY <1>2, Zenon
<1>5. Coherent(s)
  BY <1>2, <1>4, MachineAssumption, Zenon DEF Coherent
<1>6. Slots(s)
  BY <1>2, SMT DEF Slots, NO_SPILL
<1>7. \A g \in Gprs : s.loc[g] = "MEM" /\ s.mem[g] = Unknown[g] /\ Global(g)
  BY <1>2, RegsFacts, Zenon DEF Global, Unknown
<1>8. \A g \in Gprs : Kept(s, Unknown, g) /\ s.loc[g] # "DEAD"
  BY <1>7, Zenon DEF Kept
<1>9. Allocator(s)
  BY <1>3, <1>5, <1>6, <1>8, Zenon DEF Allocator
<1> QED
  BY <1>1, <1>8, <1>9, EnteredGood, Zenon

\* Renaming changes values only, and gives the guest registers their new names.
LEMMA RenamedKeeps ==
  ASSUME Allocator(ra), \A g \in Gprs : Kept(ra, env, g), NEW s, s = Renamed(ra)
  PROVE  /\ Allocator(s) /\ s.loc = ra.loc
         /\ \A g \in Gprs : Kept(s, Unknown, g)
<1>1. Typed(ra) /\ Coherent(ra) /\ Slots(ra) /\ \A g \in Gprs : ra.loc[g] # "DEAD"
  BY Zenon DEF Allocator
<1>2. DOMAIN ra = Fields
  BY <1>1, Zenon DEF Typed
<1>3. /\ DOMAIN s = Fields
      /\ s.loc = ra.loc /\ s.p = ra.p /\ s.synced = ra.synced /\ s.offs = ra.offs
      /\ s.frame = ra.frame /\ s.p2v = ra.p2v /\ s.fail = ra.fail
  BY <1>2, SMT DEF Renamed, Fields
<1>4. /\ s.reg = [p \in PRegs |-> IF ra.p2v[p] \in Gprs /\ ra.reg[p] = env[ra.p2v[p]]
                                  THEN Before[ra.p2v[p]] ELSE Junk]
      /\ s.mem = [g \in 0 .. N_GPR |-> IF g # 0 /\ ra.mem[g] = env[g] THEN Before[g] ELSE Junk]
      /\ s.frm = [o \in DOMAIN ra.frm |-> Junk]
  BY <1>2, SMT DEF Renamed, Fields
<1>5. DOMAIN s.reg = PRegs /\ DOMAIN s.mem = 0 .. N_GPR /\ DOMAIN s.frm = 0 .. FRAME_SIZE - 1
  BY <1>1, <1>4, Zenon DEF Typed
<1>6. Typed(s)
  BY <1>1, <1>3, <1>5, Zenon DEF Typed
<1>7. Coherent(s)
  BY <1>1, <1>3, SMT DEF Coherent
<1>8. Slots(s) /\ \A g \in Gprs : s.loc[g] # "DEAD"
  BY <1>1, <1>3, SMT DEF Slots
<1>9. Allocator(s)
  BY <1>6, <1>7, <1>8, Zenon DEF Allocator
<1>10. ASSUME NEW g \in Gprs
       PROVE  Kept(s, Unknown, g)
  <2>1. g \in VRegs /\ g \in 0 .. N_GPR /\ g # 0
    BY RegsFacts, SMT DEF NO_VREG
  <2>2. Unknown[g] = Before[g] /\ Global(g) /\ Kept(ra, env, g)
    BY <2>1, Zenon DEF Unknown, Global
  <2>3. ASSUME s.loc[g] = "REG"
        PROVE  s.reg[s.p[g]] = Before[g]
    <3>1. PICK p : p = ra.p[g]
      BY Zenon
    <3>2. p \in PRegs
      BY <1>1, <2>1, <3>1, Zenon DEF Typed
    <3>3. ra.p2v[p] = g /\ ra.reg[p] = env[g]
      BY <1>1, <1>3, <2>1, <2>2, <2>3, <3>1, Zenon DEF Coherent, Kept
    <3>4. s.reg[p] = Before[g]
      BY <1>4, <3>2, <3>3, Zenon
    <3> QED
      BY <1>3, <3>1, <3>4, Zenon
  <2>4. ASSUME InSlot(s, g)
        PROVE  s.mem[g] = Before[g]
    <3>1. InSlot(ra, g)
      BY <1>3, <2>4, Zenon DEF InSlot
    <3>2. ra.mem[g] = env[g]
      BY <2>2, <3>1, Zenon DEF Kept
    <3> QED
      BY <1>4, <2>1, <3>2, Zenon
  <2> QED
    BY <2>2, <2>3, <2>4, Zenon DEF Kept
<1> QED
  BY <1>3, <1>9, <1>10, Zenon

\* Writing machine registers disturbs no register that is in its slot.
LEMMA JunkKeeps ==
  ASSUME NEW s, Allocator(s), NEW e, \A g \in Gprs : Kept(s, e, g) /\ s.loc[g] = "MEM",
         NEW t, t = [s EXCEPT !.reg = [p \in PRegs |-> Junk]]
  PROVE  Allocator(t) /\ \A g \in Gprs : Kept(t, e, g)
<1>1. Typed(s) /\ Coherent(s) /\ Slots(s) /\ \A g \in Gprs : s.loc[g] # "DEAD"
  BY Zenon DEF Allocator
<1>2. DOMAIN s = Fields
  BY <1>1, Zenon DEF Typed
<1>3. /\ DOMAIN t = Fields /\ t.reg = [p \in PRegs |-> Junk]
      /\ t.loc = s.loc /\ t.p = s.p /\ t.synced = s.synced /\ t.offs = s.offs /\ t.mem = s.mem
      /\ t.frame = s.frame /\ t.p2v = s.p2v /\ t.fail = s.fail /\ t.frm = s.frm
  BY <1>2, SMT DEF Fields
<1>4. Typed(t)
  BY <1>1, <1>3, Zenon DEF Typed
<1>5. Coherent(t)
  BY <1>1, <1>3, SMT DEF Coherent
<1>6. Slots(t) /\ \A g \in Gprs : t.loc[g] # "DEAD"
  BY <1>1, <1>3, SMT DEF Slots
<1>7. \A g \in Gprs : Kept(t, e, g)
  BY <1>3, SMT DEF Kept, InSlot, Global
<1> QED
  BY <1>4, <1>5, <1>6, <1>7, Zenon DEF Allocator

\* Inv holds before a guest instruction of the region.
LEMMA EndInsnKeeps ==
  ASSUME Inv, NEW s, NEW locals \in 0 .. N_LOCALS, EndInsn(s, locals),
         Good(s, Unknown, <<>>, NoInsn)
  PROVE  Inv'
<1>1. ra' = s /\ env' = Unknown /\ insn' = NoInsn /\ code' = <<>> /\ n' = locals
  BY Zenon DEF EndInsn
<1>2. Good(ra', env', code', insn')
  BY <1>1, Zenon
<1>3. Shape(code', insn')
  BY <1>1, ShapeEmpty, Zenon
<1>4. Unknown' = Unknown
  BY Zenon DEF Unknown, Before, Global, VRegs, Gprs, Junk
<1> QED
  BY <1>1, <1>2, <1>3, <1>4, Zenon DEF Inv

\* The allocator at the end of a guest instruction.
LEMMA EndFacts ==
  ASSUME Inv, code = <<>>
  PROVE  /\ Allocator(ra) /\ \A g \in Gprs : Kept(ra, env, g)
         /\ insn.op \in EndsBlock => \A g \in Gprs : ra.loc[g] = "MEM"
         /\ n \in 0 .. N_LOCALS
  BY Zenon DEF Inv, Good, Counted

\* NextInsn: the values keep their places under their new names.
LEMMA NextInsnKeeps ==
  ASSUME Inv, NextInsn
  PROVE  Inv'
<1>1. code = <<>> /\ EndInsn(Renamed(ra), n)
  BY Zenon DEF NextInsn, EndInsn
<1>2. Good(Renamed(ra), Unknown, <<>>, NoInsn)
  BY <1>1, EndFacts, RenamedKeeps, EnteredGood, Zenon
<1> QED
  BY <1>1, <1>2, EndFacts, EndInsnKeeps, Zenon

\* NextBlock: nothing is known of the machine registers, and nothing is in them.
LEMMA NextBlockKeeps ==
  ASSUME Inv, NextBlock
  PROVE  Inv'
<1>1. PICK s : s = Renamed(ra)
  BY Zenon
<1>2. PICK t : t = [s EXCEPT !.reg = [p \in PRegs |-> Junk]]
  BY Zenon
<1>3. code = <<>> /\ insn.op \in EndsBlock /\ EndInsn(t, n)
  BY <1>1, <1>2, Zenon DEF NextBlock, EndInsn
<1>4. Allocator(s) /\ \A g \in Gprs : Kept(s, Unknown, g) /\ s.loc[g] = "MEM"
  BY <1>1, <1>3, EndFacts, RenamedKeeps, Zenon
<1>5. Allocator(t) /\ \A g \in Gprs : Kept(t, Unknown, g)
  BY <1>2, <1>4, JunkKeeps, Zenon
<1>6. Good(t, Unknown, <<>>, NoInsn)
  BY <1>5, EnteredGood, Zenon
<1> QED
  BY <1>3, <1>6, EndFacts, EndInsnKeeps, Zenon

\* NextRegion: a new allocator finds the guest registers in CPUState.
LEMMA NextRegionKeeps ==
  ASSUME Inv, NextRegion
  PROVE  Inv'
<1>1. PICK s : s = Renamed(ra)
  BY Zenon
<1>2. code = <<>> /\ insn.op \in EndsBlock /\ EndInsn(Prologue(s.mem), 0)
  BY <1>1, Zenon DEF NextRegion, EndInsn
<1>3. Allocator(s) /\ \A g \in Gprs : Kept(s, Unknown, g) /\ s.loc[g] = "MEM"
  BY <1>1, <1>2, EndFacts, RenamedKeeps, Zenon
<1>4. DOMAIN s.mem = 0 .. N_GPR
  BY <1>3, Zenon DEF Allocator, Typed
<1>5. \A g \in Gprs : Unknown[g] = Before[g]
  BY RegsFacts, Zenon DEF Unknown, Global
<1>6. \A g \in Gprs : s.mem[g] = Before[g]
  BY <1>3, <1>5, Zenon DEF Kept, InSlot, Global
<1>7. Good(Prologue(s.mem), Unknown, <<>>, NoInsn)
  BY <1>4, <1>6, PrologueGood, Zenon
<1>8. 0 \in 0 .. N_LOCALS
  BY MachineAssumption, SMT
<1> QED
  BY <1>2, <1>7, <1>8, EndInsnKeeps, Zenon

\* BeginInsn: the QuickIR of an instruction reads guest registers first.
LEMMA BeginInsnKeeps ==
  ASSUME Inv, NEW i \in Insns, NEW known \in BOOLEAN, BeginInsn(i, known)
  PROVE  Inv'
<1>1. PICK q : q = Compile(i, n, known)
  BY Zenon
<1>2. /\ insn = NoInsn /\ q.n <= N_LOCALS /\ ra' = ra /\ env' = env
      /\ insn' = i /\ code' = q.code /\ n' = q.n
  BY <1>1, Zenon DEF BeginInsn
<1>3. env = Unknown /\ code = <<>> /\ n \in 0 .. N_LOCALS
  BY <1>2, Zenon DEF Inv
<1>4. /\ q.n \in Nat
      /\ q.code \in Seq(Quick)
      /\ Needed(q.code) \subseteq Gprs
      /\ \A j \in 1 .. Len(q.code) - 1 : q.code[j].op \notin {"gbr", "gbrind"}
      /\ i.op \in EndsBlock =>
           /\ q.code # <<>>
           /\ q.code[Len(q.code)].op \in {"br", "brcc", "gbr", "gbrind", "hcall"}
  BY <1>1, <1>2, <1>3, CodeAssumption, Zenon
<1>5. i # NoInsn
  BY CodeAssumption, Zenon
<1>6. Counted(q.code, Unknown) \subseteq Gprs
  <2>1. \A v \in VRegs : Unknown[v] # Junk => v \in Gprs
    BY Zenon DEF Unknown, Global
  <2> QED
    BY <1>4, <2>1, Zenon DEF Counted
<1>7. Allocator(ra) /\ \A g \in Gprs : Kept(ra, Unknown, g)
  BY <1>3, EndFacts, Zenon
<1>8. DOMAIN Unknown = VRegs
  BY Zenon DEF Unknown
<1>9. Good(ra, Unknown, q.code, i)
  BY <1>4, <1>6, <1>7, <1>8, Zenon DEF Good
<1>10. Shape(q.code, i)
  BY <1>4, Zenon DEF Shape, Exits
<1>11. Good(ra', env', code', insn') /\ Shape(code', insn') /\ insn' # NoInsn
  BY <1>2, <1>3, <1>5, <1>9, <1>10, Zenon
<1>12. n' \in 0 .. N_LOCALS
  BY <1>2, <1>4, MachineAssumption, SMT
<1> QED
  BY <1>11, <1>12, Zenon DEF Inv

\* The first region.
LEMMA InitInv ==
  ASSUME Init
  PROVE  Inv
<1>1. PICK mem : mem = [g \in 0 .. N_GPR |-> IF g = 0 THEN Junk ELSE Before[g]]
  BY Zenon
<1>2. DOMAIN mem = 0 .. N_GPR /\ \A g \in Gprs : mem[g] = Before[g]
  <2>1. \A g \in Gprs : g \in 0 .. N_GPR /\ g # 0
    BY MachineAssumption, SMT DEF Gprs
  <2> QED
    BY <1>1, <2>1, Zenon
<1>3. Good(Prologue(mem), Unknown, <<>>, NoInsn)
  BY <1>2, PrologueGood, Zenon
<1>4. ra = Prologue(mem) /\ env = Unknown /\ code = <<>> /\ insn = NoInsn /\ n = 0
  BY <1>1, Zenon DEF Init
<1>5. Good(ra, env, code, insn) /\ Shape(code, insn)
  BY <1>3, <1>4, ShapeEmpty, Zenon
<1>6. n \in 0 .. N_LOCALS
  BY <1>4, MachineAssumption, SMT
<1> QED
  BY <1>4, <1>5, <1>6, Zenon DEF Inv

\* Every step keeps Inv.
LEMMA NextInv ==
  ASSUME Inv, Next
  PROVE  Inv'
<1>1. CASE \E i \in Insns, known \in BOOLEAN : BeginInsn(i, known)
  BY <1>1, BeginInsnKeeps, Zenon
<1>2. CASE NextInsn
  BY <1>2, NextInsnKeeps, Zenon
<1>3. CASE NextBlock
  BY <1>3, NextBlockKeeps, Zenon
<1>4. CASE NextRegion
  BY <1>4, NextRegionKeeps, Zenon
<1>5. CASE VisitOp
  BY <1>5, VisitOpKeeps, Zenon
<1>6. CASE VisitBr \/ VisitGBr
  BY <1>6, VisitBrKeeps, Zenon
<1>7. CASE VisitBrcc \/ VisitGBrind
  BY <1>7, VisitBrccKeeps, Zenon
<1>8. CASE VisitHcall
  BY <1>8, VisitHcallKeeps, Zenon
<1> QED
  BY <1>1, <1>2, <1>3, <1>4, <1>5, <1>6, <1>7, <1>8, Zenon DEF Next

-----------------------------------------------------------------------------
(* Accesses: CPUState when the guest's memory is accessed *)

\* Where c is left of an access and the registers of the region hold e: the guest's
\* have not changed, and ip is stored or is stored next. In the end they are all in
\* CPUState.
Precise(s, e, c) ==
  IF c = <<>> THEN s.mem[0] = Pc(0) /\ \A g \in Gprs : s.mem[g] = Before[g]
  ELSE /\ Access(c)
       /\ \A g \in Gprs : e[g] = Before[g]
       /\ s.mem[0] = Pc(0) \/ c[1] = StoreIp

\* The inductive invariant of accesses.
PreciseInv == insn.op \in MemInsns => Precise(ra, env, code)

\* Emit writes CPUState only to store ip.
LEMMA EmitMem ==
  ASSUME NEW s, NEW ins, Constrained(ins), NEW t, Allocated(t, s, ins),
         NEW u, u = Emit(t.s, t.ins), ~u.fail,
         ins.op \in {"mov", "setcc", "vmload", "vmstore"} \cup Binops
  PROVE  /\ ins.d # IpSlot => u.mem = t.s.mem
         /\ ins = StoreIp => u.mem[0] = Pc(0)
<1>1. PICK x, y : x = t.s /\ y = t.ins
  BY Zenon
<1>2. /\ Typed(x) /\ DOMAIN x = Fields /\ DOMAIN x.mem = 0 .. N_GPR
      /\ y.op = ins.op /\ u = Emit(x, y)
  BY <1>1, Zenon DEF Allocated, Allocator, Typed
<1>3. Fail(x).fail /\ u # Fail(x)
  <2>1. Fail(x).fail
    BY <1>2, Zenon DEF Fail, Fields
  <2> QED
    BY <2>1, Zenon
<1>4. u = x \/ \E val : u = Put(x, y.d, val)
  <2>1. CASE ins.op \in {"mov", "vmload"}
    BY <1>2, <2>1, EmitCases, Zenon
  <2>2. CASE ins.op = "setcc"
    <3>1. u = EmitSetcc(x, y)
      BY <1>2, <2>2, EmitCases, Zenon
    <3> QED
      BY <3>1, Zenon DEF EmitSetcc
  <2>3. CASE ins.op \in Binops
    <3>1. u = EmitBinop(x, y)
      BY <1>2, <2>3, EmitCases, Zenon
    <3> QED
      BY <1>3, <3>1, Zenon DEF EmitBinop
  <2>4. CASE ins.op = "vmstore"
    BY <1>2, <2>4, EmitCases, Zenon
  <2> QED
    BY <2>1, <2>2, <2>3, <2>4, Zenon
<1>5. ASSUME ins.d # IpSlot PROVE u.mem = x.mem
  <2>1. CASE u = x
    BY <2>1, Zenon
  <2>2. CASE \E val : u = Put(x, y.d, val)
    <3>1. PICK val : u = Put(x, y.d, val)
      BY <2>2, Zenon
    <3>2. y.d # IpSlot
      <4>1. CASE IsVGPR(ins.d)
        <5>1. PICK q : y.d = P(q)
          BY <1>1, <4>1, Zenon DEF Allocated
        <5> QED
          BY <5>1, SMT DEF P, IpSlot
      <4>2. CASE ~IsVGPR(ins.d)
        BY <1>1, <1>5, <4>2, Zenon DEF Allocated
      <4> QED
        BY <4>1, <4>2, Zenon
    <3>3. u = [x EXCEPT !.reg[y.d[2]] = val]
      BY <1>3, <3>1, <3>2, PutCases, SMT
    <3> QED
      BY <1>2, <3>3, Zenon DEF Fields
  <2> QED
    BY <1>4, <2>1, <2>2, Zenon
<1>6. ASSUME ins = StoreIp PROVE u.mem[0] = Pc(0)
  <2>1. /\ ins.op = "mov" /\ ins.d = IpSlot /\ ~IsVGPR(ins.d)
        /\ DOMAIN ins.s = {1} /\ ins.s[1] = Pc(0)
    BY <1>6, AccessOps, Zenon
  <2>2. ~IsVGPR(Pc(0)) /\ Pc(0)[1] # "p"
    BY SMT DEF IsVGPR, Pc
  <2>3. y.d = IpSlot /\ DOMAIN y.s = {1} /\ y.s[1] = Pc(0)
    BY <1>1, <2>1, <2>2, Zenon DEF Allocated
  <2>4. PICK vals : vals = Vals(x, y)
    BY Zenon
  <2>5. vals[1] = Pc(0)
    BY <2>2, <2>3, <2>4, Zenon DEF Vals, Val
  <2>6. Apply("mov", y.at, vals) = Pc(0)
    BY <2>5, Zenon DEF Apply
  <2>7. u = Put(x, y.d, Apply("mov", y.at, vals))
    <3>1. y.op = "mov" /\ y.op \in {"mov", "vmload"}
      BY <1>2, <2>1, Zenon
    <3>2. u = Put(x, y.d, Apply(y.op, y.at, Vals(x, y)))
      BY <1>2, <3>1, EmitCases, Zenon
    <3> QED
      BY <2>4, <3>1, <3>2, Zenon
  <2>8. u = [x EXCEPT !.mem[0] = Pc(0)]
    BY <2>3, <2>6, <2>7, PutCases, SMT
  <2>9. u.mem = [x.mem EXCEPT ![0] = Pc(0)]
    BY <1>2, <2>8, Zenon DEF Fields
  <2> QED
    BY <1>2, <2>9, IpFacts, Zenon
<1> QED
  BY <1>1, <1>5, <1>6, Zenon

\* The first instruction of an access, and the rest.
LEMMA AccessTail ==
  ASSUME NEW c \in Seq(Quick), Access(c)
  PROVE  /\ Head(c) = c[1]
         /\ Tail(c) = <<>> => Head(c).op \in Accesses /\ Head(c).d # IpSlot
         /\ Tail(c) # <<>> => Access(Tail(c)) /\ (Silent(Head(c)) \/ Head(c) = StoreIp)
<1>1. c # <<>>
  BY Zenon DEF Access
<1>2. /\ Tail(c) \in Seq(Quick) /\ Head(c) = c[1]
      /\ Len(Tail(c)) = Len(c) - 1 /\ Len(c) \in Nat /\ Len(c) > 0
      /\ \A k \in 1 .. Len(c) - 1 : Tail(c)[k] = c[k + 1]
      /\ Tail(c) = <<>> <=> Len(c) = 1
  BY <1>1, TailFacts, Zenon
<1>3. ASSUME Tail(c) = <<>> PROVE Head(c).op \in Accesses /\ Head(c).d # IpSlot
  BY <1>2, <1>3, Zenon DEF Access
<1>4. ASSUME Tail(c) # <<>> PROVE Access(Tail(c)) /\ (Silent(Head(c)) \/ Head(c) = StoreIp)
  <2>1. PICK m \in Nat : m = Len(c) - 1 /\ m > 0 /\ Len(c) = m + 1
    <3>1. PICK L \in Nat : L = Len(c) /\ L > 0 /\ L # 1
      BY <1>2, <1>4, Zenon
    <3>2. L - 1 \in Nat /\ L - 1 > 0 /\ L = (L - 1) + 1
      BY <3>1, SMT
    <3> QED
      BY <3>1, <3>2, Zenon
  <2>2. Len(Tail(c)) = m /\ m \in 1 .. Len(c) - 1 /\ 1 \in 1 .. Len(c) - 1
    BY <1>2, <2>1, SMT
  <2>3. Tail(c)[m] = c[Len(c)]
    BY <1>2, <2>1, <2>2, Zenon
  <2>4. ASSUME NEW k \in 1 .. m - 1 PROVE Silent(Tail(c)[k]) \/ Tail(c)[k] = StoreIp
    <3>1. k \in 1 .. Len(c) - 1 /\ k + 1 \in 1 .. Len(c) - 1
      BY <2>1, <2>4, SMT
    <3> QED
      BY <1>2, <3>1, Zenon DEF Access
  <2> QED
    BY <1>2, <1>4, <2>2, <2>3, <2>4, Zenon DEF Access
<1> QED
  BY <1>2, <1>3, <1>4, Zenon

\* An instruction of an access is allocated and emitted.
LEMMA VisitOpPrecise ==
  ASSUME Inv, Precise(ra, env, code), NEW ins, ins = Head(code), code # <<>>, ~ra.fail,
         ins.op \in {"mov", "setcc", "vmload", "vmstore"} \cup Binops,
         NEW t, t = AllocOp(ra, ins), NEW u, u = Emit(t.s, t.ins), ~u.fail
  PROVE  Precise(u, Eval(ins), Tail(code))
<1>1. Good(ra, env, code, insn) /\ Shape(code, insn) /\ code \in Seq(Quick)
  BY Zenon DEF Inv, Shape
<1>2. /\ Access(code) /\ \A g \in Gprs : env[g] = Before[g]
      /\ ra.mem[0] = Pc(0) \/ code[1] = StoreIp
  BY Zenon DEF Precise
<1>3. /\ ins = code[1]
      /\ Tail(code) = <<>> => ins.op \in Accesses /\ ins.d # IpSlot
      /\ Tail(code) # <<>> => Access(Tail(code)) /\ (Silent(ins) \/ ins = StoreIp)
  BY <1>1, <1>2, AccessTail, Zenon
<1>4. ins \in Quick
  BY <1>1, ShapeTail, Zenon
<1>5. ins.op \in DOMAIN RaCt /\ ins.op # "hcall"
  BY SMT DEF Binops, ArithmRR, RaCt
<1>6. Constrained(ins)
  BY <1>4, <1>5, Zenon DEF Constrained
<1>7. Allocator(ra) /\ DOMAIN env = VRegs /\ \A g \in Gprs : Kept(ra, env, g)
  BY <1>1, Zenon DEF Good, Counted
<1>8. DOMAIN t.s = Fields /\ (~t.s.fail => Allocated(t, ra, ins) /\ Complete(t.s, ra, ins))
  BY <1>6, <1>7, AllocOpKeeps, Zenon
<1>9. Allocated(t, ra, ins) /\ Complete(t.s, ra, ins)
  BY <1>8, EmitStays, Zenon
<1>10. /\ ins.d # IpSlot => u.mem = t.s.mem
       /\ ins = StoreIp => u.mem[0] = Pc(0)
  BY <1>6, <1>9, EmitMem
<1>11. t.s.mem[0] = ra.mem[0]
  BY <1>9, Zenon DEF Complete
<1>12. CASE Tail(code) = <<>>
  <2>1. ins.op \in Accesses /\ u.mem = t.s.mem
    BY <1>3, <1>10, <1>12, Zenon
  <2>2. ra.mem[0] = Pc(0)
    BY <1>2, <1>3, <2>1, AccessOps, Zenon
  <2>3. \A g \in Gprs : t.s.mem[g] = Before[g]
    BY <1>2, <1>7, <1>9, <2>1, Zenon DEF Complete, Accesses
  <2> QED
    BY <1>11, <1>12, <2>1, <2>2, <2>3, Zenon DEF Precise
<1>13. CASE Tail(code) # <<>>
  <2>1. PICK f : f = Eval(ins)
    BY Zenon
  <2>2. CASE Silent(ins)
    <3>1. IsVGPR(ins.d) /\ ins.d[2] \notin Gprs /\ ins.d # IpSlot /\ ins # StoreIp
      BY <2>2, AccessOps, Zenon DEF Silent
    <3>2. u.mem[0] = Pc(0)
      BY <1>2, <1>3, <1>10, <1>11, <3>1, Zenon
    <3>3. \E val : f = [env EXCEPT ![ins.d[2]] = val]
      BY <1>5, <2>1, <3>1, EvalCases, Zenon
    <3>4. \A g \in Gprs : f[g] = env[g]
      BY <1>7, <3>1, <3>3, RegsFacts, Zenon
    <3> QED
      BY <1>2, <1>3, <1>13, <2>1, <3>2, <3>4, Zenon DEF Precise
  <2>3. CASE ins = StoreIp
    <3>1. f = env
      BY <1>5, <2>1, <2>3, AccessOps, EvalCases, Zenon
    <3> QED
      BY <1>2, <1>3, <1>10, <1>13, <2>1, <2>3, <3>1, Zenon DEF Precise
  <2> QED
    BY <1>3, <1>13, <2>2, <2>3, Zenon
<1> QED
  BY <1>12, <1>13, Zenon

\* An access branches nowhere and calls no helper.
LEMMA AccessHead ==
  ASSUME Inv, PreciseInv, insn.op \in MemInsns, code # <<>>
  PROVE  Head(code).op \in {"mov", "add"} \cup Accesses
<1>1. code \in Seq(Quick) /\ Access(code)
  BY Zenon DEF Inv, Shape, PreciseInv, Precise
<1>2. Head(code).op \in Accesses \/ Silent(Head(code)) \/ Head(code) = StoreIp
  BY <1>1, AccessTail, Zenon
<1> QED
  BY <1>2, AccessOps, Zenon DEF Silent

\* Steps of the pass.
LEMMA VisitPrecise ==
  ASSUME Inv, PreciseInv,
         VisitOp \/ VisitBr \/ VisitBrcc \/ VisitGBr \/ VisitGBrind \/ VisitHcall
  PROVE  PreciseInv'
<1>1. insn' = insn
  BY Zenon DEF VisitOp, VisitBr, VisitBrcc, VisitGBr, VisitGBrind, VisitHcall, EmitIn, Visit
<1>2. SUFFICES ASSUME insn.op \in MemInsns
               PROVE  Precise(ra', env', code')
  BY <1>1, Zenon DEF PreciseInv, MemInsns, Loads, Stores
<1>3. CASE ~VisitOp
  <2>1. code # <<>> /\ Head(code).op \in {"br", "brcc", "gbr", "gbrind", "hcall"}
    BY <1>3, Zenon DEF VisitBr, VisitBrcc, VisitGBr, VisitGBrind, VisitHcall, AtOp
  <2>2. Head(code).op \in {"mov", "add"} \cup Accesses
    BY <1>2, <2>1, AccessHead, Zenon
  <2> QED
    BY <2>1, <2>2, Zenon DEF Accesses
<1>4. CASE VisitOp
  <2>1. PICK ins, t : ins = Head(code) /\ t = AllocOp(ra, ins)
    BY Zenon
  <2>2. PICK u : u = Emit(t.s, t.ins)
    BY Zenon
  <2>3. /\ code # <<>> /\ ~ra.fail /\ Precise(ra, env, code)
        /\ ins.op \in {"mov", "setcc", "vmload", "vmstore"} \cup Binops
    BY <1>2, <1>4, <2>1, Zenon DEF VisitOp, AtOp, PreciseInv
  <2>4. /\ ra' = IF u.fail THEN Fail(ra) ELSE u
        /\ env' = IF u.fail THEN env ELSE Eval(ins)
        /\ code' = IF u.fail THEN code ELSE Tail(code)
    BY <1>4, <2>1, <2>2, Zenon DEF VisitOp, EmitIn, Visit
  <2>5. CASE u.fail
    <3>1. ra' = Fail(ra) /\ env' = env /\ code' = code
      BY <2>4, <2>5, Zenon
    <3>2. Fail(ra).mem = ra.mem
      BY Zenon DEF Inv, Good, Allocator, Typed, Fail, Fields
    <3>3. Precise(Fail(ra), env, code)
      BY <2>3, <3>2, Zenon DEF Precise
    <3> QED
      BY <3>1, <3>3, Zenon
  <2>6. CASE ~u.fail
    <3>1. Precise(u, Eval(ins), Tail(code))
      BY <2>1, <2>2, <2>3, <2>6, VisitOpPrecise
    <3> QED
      BY <2>4, <2>6, <3>1, Zenon
  <2> QED
    BY <2>5, <2>6, Zenon
<1> QED
  BY <1>3, <1>4, Zenon

\* Every step keeps PreciseInv.
LEMMA NextPrecise ==
  ASSUME Inv, PreciseInv, Next
  PROVE  PreciseInv'
<1>1. CASE \E i \in Insns, known \in BOOLEAN : BeginInsn(i, known)
  <2>1. PICK i \in Insns, known \in BOOLEAN : BeginInsn(i, known)
    BY <1>1, Zenon
  <2>2. PICK q : q = Compile(i, n, known)
    BY Zenon
  <2>3. insn = NoInsn /\ insn' = i /\ code' = q.code /\ env' = env /\ ra' = ra
    BY <2>1, <2>2, Zenon DEF BeginInsn
  <2>4. env = Unknown /\ n \in 0 .. N_LOCALS
    BY <2>3, Zenon DEF Inv
  <2>5. n \in Nat
    BY <2>4, MachineAssumption, SMT
  <2>6. \A g \in Gprs : Unknown[g] = Before[g]
    BY RegsFacts, Zenon DEF Unknown, Global
  <2>7. ASSUME i.op \in MemInsns PROVE Precise(ra, Unknown, q.code)
    <3>1. Access(q.code) /\ q.code[1] = StoreIp
      BY <2>2, <2>5, <2>7, CompileAccess, Zenon
    <3>2. q.code # <<>>
      BY <3>1, Zenon DEF Access
    <3> QED
      BY <2>6, <3>1, <3>2, Zenon DEF Precise
  <2>8. insn'.op \in MemInsns => Precise(ra', env', code')
    BY <2>3, <2>4, <2>7, Zenon
  <2> QED
    BY <2>8, Zenon DEF PreciseInv, MemInsns, Loads, Stores
<1>2. CASE NextInsn \/ NextBlock \/ NextRegion
  <2>1. insn' = NoInsn
    BY <1>2, Zenon DEF NextInsn, NextBlock, NextRegion, EndInsn
  <2>2. NoInsn.op \notin MemInsns
    BY SMT DEF NoInsn, MemInsns, Loads, Stores
  <2>3. insn'.op \notin MemInsns
    BY <2>1, <2>2, Zenon
  <2> QED
    BY <2>3, Zenon DEF PreciseInv, MemInsns, Loads, Stores
<1>3. CASE VisitOp \/ VisitBr \/ VisitBrcc \/ VisitGBr \/ VisitGBrind \/ VisitHcall
  BY <1>3, VisitPrecise, Zenon
<1> QED
  BY <1>1, <1>2, <1>3, Zenon DEF Next

-----------------------------------------------------------------------------
(* Theorems *)

\* Inv holds after any number of steps, for any pool of machine registers, frame and
\* guest instructions whose QuickIR is as CodeAssumption says.
THEOREM Invariance == Spec => []Inv
<1>1. Inv /\ UNCHANGED vars => Inv'
  <2> SUFFICES ASSUME Inv, UNCHANGED vars
               PROVE  Inv'
    OBVIOUS
  <2>1. ra' = ra /\ env' = env /\ insn' = insn /\ code' = code /\ n' = n
    BY Zenon DEF vars
  <2> QED
    BY <2>1, Zenon DEF Inv
<1> QED
  BY <1>1, InitInv, NextInv, PTL DEF Spec

\* RTracks and p2v stay each other's inverses and no register of the runtime is
\* given to a value, through every spill, fill, copy, redefinition and call, and
\* when the compiler stops as well.
THEOREM P2VCoherentHolds == Spec => []P2VCoherent
<1>1. ASSUME Inv PROVE P2VCoherent
  BY <1>1, Zenon DEF Inv, Good, Allocator, Typed, Coherent, P2VCoherent, TypeOK, Locations
<1> QED
  BY <1>1, Invariance, PTL

\* Where the allocator believes a value to be, the emitted code has put it: the
\* machine registers, CPUState and the frame hold what QuickIR says.
THEOREM ValuesKeptHolds == Spec => []ValuesKept
<1>1. ASSUME Inv PROVE ValuesKept
  <2>1. ASSUME NEW v \in VRegs, Live(v)
        PROVE  /\ ra.loc[v] = "REG" => ra.reg[ra.p[v]] = env[v]
               /\ ra.loc[v] = "MEM" \/ (ra.loc[v] = "REG" /\ ra.synced[v]) =>
                    (IF Global(v) THEN ra.mem[v] ELSE ra.frm[ra.offs[v]]) = env[v]
    <3>1. v \in Counted(code, env)
      BY <2>1, Zenon DEF Live, Counted, Global
    <3>2. Kept(ra, env, v)
      BY <1>1, <3>1, Zenon DEF Inv, Good
    <3> QED
      BY <3>2, Zenon DEF Kept, InSlot
  <2> QED
    BY <2>1, Zenon DEF ValuesKept
<1> QED
  BY <1>1, Invariance, PTL

\* At the end of a block (br, brcc, gbr, gbrind or a call of a trap's helper) every
\* guest register is in CPUState, with its value, and in no machine register.
THEOREM EdgesInMemoryHolds == Spec => []EdgesInMemory
<1>1. ASSUME Inv PROVE EdgesInMemory
  BY <1>1, Zenon DEF Inv, Good, EdgesInMemory
<1> QED
  BY <1>1, Invariance, PTL

\* When the machine accesses the guest's memory, CPUState holds the guest registers
\* from before the instruction and its address, wherever the allocator had them and
\* however QSel rewrote the instruction: PreSideeff stores ip, nothing before the
\* access changes a guest register, and SyncSideeff leaves none of them unsaved.
THEOREM PreciseStateHolds == Spec => []PreciseState
<1>1. Init => PreciseInv
  <2>1. NoInsn.op \notin MemInsns
    BY SMT DEF NoInsn, MemInsns, Loads, Stores
  <2> QED
    BY <2>1, Zenon DEF Init, PreciseInv
<1>2. Inv /\ PreciseInv /\ [Next]_vars => PreciseInv'
  <2>1. ASSUME PreciseInv, UNCHANGED vars PROVE PreciseInv'
    <3>1. ra' = ra /\ env' = env /\ insn' = insn /\ code' = code
      BY <2>1, Zenon DEF vars
    <3> QED
      BY <2>1, <3>1, Zenon DEF PreciseInv
  <2> QED
    BY <2>1, NextPrecise, Zenon
<1>3. ASSUME PreciseInv PROVE PreciseState
  BY <1>3, Zenon DEF PreciseInv, Precise, PreciseState, MemInsns
<1> QED
  BY <1>1, <1>2, <1>3, Invariance, PTL DEF Spec

=============================================================================
