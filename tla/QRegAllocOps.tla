--------------------------- MODULE QRegAllocOps ---------------------------
(***************************************************************************)
(* Lemmas about AllocOp, which gives the operands of an instruction their  *)
(* machine registers, and about the code that QEmit emits for it: together *)
(* they do what QuickIR says and disturb no other register of the region.  *)
(***************************************************************************)
EXTENDS QRegAllocMoves

-----------------------------------------------------------------------------
(* Operand constraints and AllocSrc *)

Classes == {"R", "CX", "SI"}

\* The machine registers of a class.
LEMMA RegsOfClass ==
  /\ Regs("R") = PRegs
  /\ \A cr \in Classes : Regs(cr) \in SUBSET PRegs /\ Regs(cr) # {}
<1>1. Regs("R") = PRegs
  BY Zenon DEF Regs
<1>2. Regs("CX") = {RCX}
  BY Zenon DEF Regs
<1>3. Regs("SI") = {RSI}
  BY Zenon DEF Regs
<1> QED
  BY <1>1, <1>2, <1>3, MachineAssumption DEF Classes

\* Operand constraints name one or two inputs and their classes, and the class of
\* an input that is the output is any register.
LEMMA Constraints ==
  ASSUME NEW op \in DOMAIN RaCt
  PROVE  LET in == RaCt[op].in
         IN  /\ Len(in) \in {1, 2} /\ DOMAIN in = 1 .. Len(in)
             /\ \A k \in 1 .. Len(in) : in[k].cr \in Classes
             /\ RaCt[op].alias => Len(in) = 2 /\ in[1].cr = "R"
  BY DEF RaCt, Ct, In, RS32, CXI, Classes

\* An operation allocates its inputs one after the other.
LEMMA Orders ==
  ASSUME NEW op \in DOMAIN RaCt
  PROVE  \/ Len(RaCt[op].in) = 1 /\ Order(op) = <<1>>
         \/ Len(RaCt[op].in) = 2 /\ Order(op) \in {<<1, 2>>, <<2, 1>>}
<1>1. PICK in : in = RaCt[op].in
  BY Zenon
<1>2. Len(in) \in {1, 2} /\ DOMAIN in = 1 .. Len(in)
  BY <1>1, Constraints, Zenon
<1>3. CASE Len(in) = 1
  <2>1. Order(op) = [k \in 1 .. 1 |-> k]
    BY <1>1, <1>2, <1>3 DEF Order
  <2>2. [k \in 1 .. 1 |-> k] = <<1>>
    OBVIOUS
  <2> QED
    BY <1>1, <1>3, <2>1, <2>2, Zenon
<1>4. CASE Len(in) = 2
  <2>1. Order(op) = <<2, 1>> \/ Order(op) = [k \in 1 .. 2 |-> k]
    BY <1>1, <1>2, <1>4, Zenon DEF Order
  <2>2. [k \in 1 .. 2 |-> k] = <<1, 2>>
    OBVIOUS
  <2> QED
    BY <1>1, <1>4, <2>1, <2>2, Zenon
<1> QED
  BY <1>2, <1>3, <1>4, Zenon

\* An instruction that has operand constraints.
Constrained(ins) == ins \in Quick /\ ins.op \in DOMAIN RaCt

\* Its operands are registers of the region, or no registers.
LEMMA OperandFacts ==
  ASSUME NEW ins, Constrained(ins)
  PROVE  /\ DOMAIN ins.s = 1 .. Len(RaCt[ins.op].in)
         /\ ins.s \in [1 .. Len(RaCt[ins.op].in) -> Operands]
         /\ ins.d \in Operands
         /\ \A o \in Operands : /\ o[1] # "p"
                                /\ IsVGPR(o) => o[2] \in VRegs /\ o = V(o[2])
         /\ DOMAIN ins = {"op", "at", "d", "s"}
         /\ RaCt[ins.op].alias => IsVGPR(ins.d) /\ ins.s[1] = ins.d
<1>1. /\ ins = Inst(ins.op, ins.at, ins.d, ins.s)
      /\ ins.s \in Seq(Operands) /\ Len(ins.s) = Len(RaCt[ins.op].in)
      /\ RaCt[ins.op].alias => IsVGPR(ins.d) /\ ins.s[1] = ins.d
  BY OperandAssumption, Zenon DEF Constrained
<1>2. ins.d \in Operands
  BY Zenon DEF Operands, Constrained
<1>3. \A o \in Operands : /\ o[1] # "p"
                          /\ IsVGPR(o) => o[2] \in VRegs /\ o = V(o[2])
  BY OperandAssumption DEF V
<1>4. DOMAIN ins = {"op", "at", "d", "s"}
  BY <1>1, Zenon DEF Inst
<1>5. /\ DOMAIN ins.s = 1 .. Len(RaCt[ins.op].in)
      /\ ins.s \in [1 .. Len(RaCt[ins.op].in) -> Operands]
  BY <1>1
<1> QED
  BY <1>1, <1>2, <1>3, <1>4, <1>5, Zenon

\* The desired machine registers of an input.
LEMMA Desired ==
  ASSUME NEW ins, Constrained(ins), NEW k \in DOMAIN ins.s
  PROVE  LET cr == Regs(RaCt[ins.op].in[k].cr)
         IN  /\ cr \in SUBSET PRegs /\ cr # {}
             /\ RaCt[ins.op].in[k].cr = "R" => cr = PRegs
<1>1. k \in 1 .. Len(RaCt[ins.op].in) /\ ins.op \in DOMAIN RaCt
  BY OperandFacts, Zenon DEF Constrained
<1>2. RaCt[ins.op].in[k].cr \in Classes
  BY <1>1, Constraints, Zenon
<1> QED
  BY <1>2, RegsOfClass, Zenon

\* r carries ins, where the inputs outside of K are still registers of the region.
Carries(r, ins, K) ==
  /\ DOMAIN r = {"s", "avoid", "ins"}
  /\ Typed(r.s)
  /\ DOMAIN r.ins = {"op", "at", "d", "s"}
  /\ r.ins.op = ins.op /\ r.ins.at = ins.at /\ r.ins.d = ins.d
  /\ DOMAIN r.ins.s = DOMAIN ins.s
  /\ \A k \in DOMAIN ins.s : ~IsVGPR(ins.s[k]) \/ k \notin K => r.ins.s[k] = ins.s[k]

\* t is r after input k of ins, register v of the region, is in machine register p:
\* the one that Fill brought it to, or another one of its class and a copy.
Sourced(r, t, ins, k, v, p) ==
  LET cr == Regs(RaCt[ins.op].in[k].cr)
      f  == Fill(r.s, v, cr, r.avoid)
      a  == AllocPReg(f, cr, r.avoid)
  IN  /\ \/ f.p[v] \in cr /\ p = f.p[v] /\ t.s = f
         \/ f.p[v] \notin cr /\ p = a.p /\ t.s = [a.s EXCEPT !.reg[p] = a.s.reg[a.s.p[v]]]
      /\ DOMAIN t = {"s", "avoid", "ins"}
      /\ t.avoid = r.avoid \cup {p}
      /\ t.ins = [r.ins EXCEPT !.s[k] = P(p)]

\* AllocSrc of an input that is a register of the region, and of another one.
LEMMA AllocSrcCases ==
  ASSUME NEW ins, Constrained(ins), NEW K, NEW r, Carries(r, ins, K),
         NEW k \in DOMAIN ins.s, k \notin K, NEW t, t = AllocSrc(r, k)
  PROVE  /\ ~IsVGPR(ins.s[k]) => t = r
         /\ IsVGPR(ins.s[k]) => \E p : Sourced(r, t, ins, k, ins.s[k][2], p)
<1>1. r.ins.s[k] = ins.s[k] /\ r.ins.op = ins.op
  BY Zenon DEF Carries
<1>2. ASSUME ~IsVGPR(ins.s[k]) PROVE t = r
  BY <1>1, <1>2, Zenon DEF AllocSrc
<1>3. ASSUME IsVGPR(ins.s[k]) PROVE \E p : Sourced(r, t, ins, k, ins.s[k][2], p)
  <2> DEFINE v  == r.ins.s[k][2]
             cr == Regs(RaCt[r.ins.op].in[k].cr)
             f  == Fill(r.s, v, cr, r.avoid)
             a  == AllocPReg(f, cr, r.avoid)
             p  == IF f.p[v] \in cr THEN f.p[v] ELSE a.p
  <2>1. t = [s     |-> IF f.p[v] \in cr THEN f
                       ELSE [a.s EXCEPT !.reg[p] = a.s.reg[a.s.p[v]]],
             avoid |-> r.avoid \cup {p},
             ins   |-> [r.ins EXCEPT !.s[k] = P(p)]]
    <3>1. IsVGPR(r.ins.s[k])
      BY <1>1, <1>3, Zenon
    <3> QED
      BY <3>1, Zenon DEF AllocSrc
  <2>2. v = ins.s[k][2] /\ cr = Regs(RaCt[ins.op].in[k].cr)
    BY <1>1, Zenon
  <2>3. /\ f = Fill(r.s, v, cr, r.avoid)
        /\ a = AllocPReg(f, cr, r.avoid)
        /\ p = IF f.p[v] \in cr THEN f.p[v] ELSE a.p
    BY Zenon
  <2> HIDE DEF v, cr, f, a, p
  <2>4. /\ t.s = IF f.p[v] \in cr THEN f ELSE [a.s EXCEPT !.reg[p] = a.s.reg[a.s.p[v]]]
        /\ DOMAIN t = {"s", "avoid", "ins"}
        /\ t.avoid = r.avoid \cup {p}
        /\ t.ins = [r.ins EXCEPT !.s[k] = P(p)]
    BY <2>1
  <2>5. Sourced(r, t, ins, k, v, p)
    BY <2>2, <2>3, <2>4, Zenon DEF Sourced
  <2> QED
    BY <2>2, <2>5, Zenon
<1> QED
  BY <1>2, <1>3, Zenon

\* AllocSrc leaves the other inputs, keeps the fields and does not undo a failure.
LEMMA AllocSrcStays ==
  ASSUME NEW ins, Constrained(ins), NEW K, NEW r, Carries(r, ins, K),
         NEW k \in DOMAIN ins.s, k \notin K, NEW t, t = AllocSrc(r, k)
  PROVE  /\ Carries(t, ins, K \cup {k})
         /\ r.s.fail => t.s.fail
         /\ t.s.mem[0] = r.s.mem[0]
<1>1. CASE ~IsVGPR(ins.s[k])
  <2>1. t = r
    BY <1>1, AllocSrcCases, Zenon
  <2> QED
    BY <1>1, <2>1, Zenon DEF Carries
<1>2. CASE IsVGPR(ins.s[k])
  <2>1. PICK v, cr, f, a : /\ v = ins.s[k][2] /\ cr = Regs(RaCt[ins.op].in[k].cr)
                           /\ f = Fill(r.s, v, cr, r.avoid)
                           /\ a = AllocPReg(f, cr, r.avoid)
    BY Zenon
  <2>2. PICK p : Sourced(r, t, ins, k, v, p)
    BY <1>2, <2>1, AllocSrcCases
  <2>3. /\ \/ f.p[v] \in cr /\ p = f.p[v] /\ t.s = f
           \/ f.p[v] \notin cr /\ p = a.p /\ t.s = [a.s EXCEPT !.reg[p] = a.s.reg[a.s.p[v]]]
        /\ DOMAIN t = {"s", "avoid", "ins"}
        /\ t.ins = [r.ins EXCEPT !.s[k] = P(p)]
    BY <2>1, <2>2, Zenon DEF Sourced
  <2>4. v \in VRegs /\ cr \in SUBSET PRegs /\ cr # {}
    BY <1>2, <2>1, Desired, OperandFacts, Zenon
  <2>5. Typed(r.s)
    BY Zenon DEF Carries
  <2>6. Stays(r.s, f)
    BY <2>1, <2>4, <2>5, FillStays, Zenon
  <2>7. Stays(f, a.s) /\ a.p \in PRegs
    <3>1. Typed(f)
      BY <2>6, Zenon DEF Stays
    <3>2. Stays(f, a.s) /\ a.p \in cr
      BY <2>1, <2>4, <3>1, AllocPRegStays, Zenon
    <3> QED
      BY <2>4, <3>2, Zenon
  <2>8. Typed(t.s) /\ (r.s.fail => t.s.fail) /\ t.s.mem[0] = r.s.mem[0]
    <3>1. CASE t.s = f
      BY <2>6, <3>1, Zenon DEF Stays
    <3>2. CASE p = a.p /\ t.s = [a.s EXCEPT !.reg[p] = a.s.reg[a.s.p[v]]]
      <4>1. Typed(a.s) /\ p \in PRegs
        BY <2>7, <3>2, Zenon DEF Stays
      <4>2. Stays(a.s, t.s)
        BY <3>2, <4>1, WroteKeeps
      <4> QED
        BY <2>6, <2>7, <4>2, Zenon DEF Stays
    <3> QED
      BY <2>3, <3>1, <3>2, Zenon
  <2>9. /\ DOMAIN t.ins = DOMAIN r.ins
        /\ t.ins.op = r.ins.op /\ t.ins.at = r.ins.at /\ t.ins.d = r.ins.d
        /\ t.ins.s = [r.ins.s EXCEPT ![k] = P(p)]
    BY <2>3, Zenon DEF Carries
  <2>10. DOMAIN t.ins.s = DOMAIN ins.s
    BY <2>9, Zenon DEF Carries
  <2>11. \A j \in DOMAIN ins.s : ~IsVGPR(ins.s[j]) \/ j \notin K \cup {k} =>
                                   t.ins.s[j] = ins.s[j]
    BY <1>2, <2>9, Zenon DEF Carries
  <2> QED
    BY <2>3, <2>8, <2>9, <2>10, <2>11, Zenon DEF Carries
<1> QED
  BY <1>1, <1>2, Zenon

\* The input o is x, a machine register not to be taken that holds its value.
InReg(r, s, o, x) ==
  \E p \in PRegs \cap r.avoid : x = P(p) /\ \A e : Kept(s, e, o[2]) => r.s.reg[p] = e[o[2]]

\* r is the allocation of ins in s after the inputs in K.
Held(r, s, ins, K) ==
  /\ Allocator(r.s) /\ ~r.s.fail /\ FIXED \subseteq r.avoid
  /\ \A e : \A w \in VRegs : Kept(s, e, w) => Kept(r.s, e, w)
  /\ \A k \in K : IsVGPR(ins.s[k]) => InReg(r, s, ins.s[k], r.ins.s[k])
  /\ 1 \in K /\ IsVGPR(ins.s[1]) /\ RaCt[ins.op].in[1].cr = "R" =>
       r.s.loc[ins.s[1][2]] = "REG" /\ r.s.p[ins.s[1][2]] \in r.avoid

\* AllocSrc puts the input in a machine register of its class, and takes none that
\* holds an input.
LEMMA AllocSrcKeeps ==
  ASSUME NEW s, NEW ins, Constrained(ins), NEW K \in SUBSET DOMAIN ins.s,
         NEW r, Carries(r, ins, K), Held(r, s, ins, K),
         NEW k \in DOMAIN ins.s, k \notin K, NEW t, t = AllocSrc(r, k), ~t.s.fail
  PROVE  Held(t, s, ins, K \cup {k})
<1>1. CASE ~IsVGPR(ins.s[k])
  <2>1. t = r
    BY <1>1, AllocSrcCases, Zenon
  <2> QED
    BY <1>1, <2>1, Zenon DEF Held
<1>2. CASE IsVGPR(ins.s[k])
  <2>1. PICK v, cr, f, a : /\ v = ins.s[k][2] /\ cr = Regs(RaCt[ins.op].in[k].cr)
                           /\ f = Fill(r.s, v, cr, r.avoid)
                           /\ a = AllocPReg(f, cr, r.avoid)
    BY Zenon
  <2>2. PICK p : Sourced(r, t, ins, k, v, p)
    <3>1. \E p : Sourced(r, t, ins, k, ins.s[k][2], p)
      BY <1>2, AllocSrcCases
    <3> QED
      BY <2>1, <3>1, Zenon
  <2>3. /\ \/ f.p[v] \in cr /\ p = f.p[v] /\ t.s = f
           \/ f.p[v] \notin cr /\ p = a.p /\ t.s = [a.s EXCEPT !.reg[p] = a.s.reg[a.s.p[v]]]
        /\ t.avoid = r.avoid \cup {p}
        /\ t.ins = [r.ins EXCEPT !.s[k] = P(p)]
    BY <2>1, <2>2, Zenon DEF Sourced
  <2>4. v \in VRegs /\ cr \in SUBSET PRegs /\ cr # {}
    BY <1>2, <2>1, Desired, OperandFacts, Zenon
  <2>5. Typed(r.s) /\ Allocator(r.s) /\ FIXED \subseteq r.avoid
    BY Zenon DEF Carries, Held
  <2>6. Stays(r.s, f)
    BY <2>1, <2>4, <2>5, FillStays, Zenon
  <2>7. Stays(f, a.s) /\ a.p \in PRegs
    <3>1. Typed(f)
      BY <2>6, Zenon DEF Stays
    <3>2. Stays(f, a.s) /\ a.p \in cr
      BY <2>1, <2>4, <3>1, AllocPRegStays, Zenon
    <3> QED
      BY <2>4, <3>2, Zenon
  <2>8. ~f.fail
    <3>1. CASE t.s = f
      BY <3>1, Zenon
    <3>2. CASE p = a.p /\ t.s = [a.s EXCEPT !.reg[p] = a.s.reg[a.s.p[v]]]
      <4>1. Typed(a.s) /\ p \in PRegs
        BY <2>7, <3>2, Zenon DEF Stays
      <4>2. Stays(a.s, t.s)
        BY <3>2, <4>1, WroteKeeps
      <4> QED
        BY <2>7, <4>2, Zenon DEF Stays
    <3> QED
      BY <2>3, <3>1, <3>2, Zenon
  <2>9. Filled(r.s, f, v, r.avoid)
    BY <2>1, <2>4, <2>5, <2>8, FillKeeps, Zenon
  <2>10. f.loc[v] = "REG" /\ f.p[v] \in PRegs /\ Allocator(f)
    BY <2>4, <2>9, Zenon DEF Filled, Allocator, Typed
  \* The machine holds the value of v in p, and what it held in avoid.
  <2>11. /\ Allocator(t.s) /\ p \in PRegs
         /\ \A q \in r.avoid \cap PRegs : t.s.reg[q] = f.reg[q]
         /\ t.s.reg[p] = f.reg[f.p[v]]
         /\ \A w \in VRegs : f.loc[w] = "REG" /\ f.p[w] \in r.avoid =>
                               t.s.loc[w] = "REG" /\ t.s.p[w] = f.p[w]
         /\ cr = PRegs => t.s.loc[v] = "REG" /\ t.s.p[v] = p
         /\ \A e : \A w \in VRegs : Kept(f, e, w) => Kept(t.s, e, w)
    <3>1. CASE p = f.p[v] /\ t.s = f
      BY <2>10, <3>1, Zenon
    <3>2. CASE f.p[v] \notin cr /\ p = a.p /\ t.s = [a.s EXCEPT !.reg[p] = a.s.reg[a.s.p[v]]]
      <4>1. PICK x, val : x = a.s /\ val = a.s.reg[a.s.p[v]]
        BY Zenon
      <4>2. Typed(x) /\ p \in PRegs
        BY <2>7, <3>2, <4>1, Zenon DEF Stays
      <4>3. /\ Wrote(x, t.s, p, val) /\ t.s.reg[p] = val
            /\ Allocator(x) => OthersKept(x, t.s, x.p2v[p])
        <5>1. t.s = [x EXCEPT !.reg[p] = val]
          BY <3>2, <4>1, Zenon
        <5>2. Wrote(x, t.s, p, val) /\ (Allocator(x) => OthersKept(x, t.s, x.p2v[p]))
          BY <4>2, <5>1, WroteKeeps, Zenon
        <5>3. t.s.reg[p] = val
          BY <4>2, <5>2, Zenon DEF Wrote, Typed
        <5> QED
          BY <5>2, <5>3, Zenon
      <4>4. ~x.fail
        BY <4>3, Zenon DEF Wrote
      <4>5. Taken(f, x, p, cr, r.avoid)
        BY <2>1, <2>4, <2>10, <3>2, <4>1, <4>4, AllocPRegKeeps, Zenon
      <4>6. p \in cr /\ p \notin r.avoid /\ Allocator(x) /\ x.reg = f.reg
        BY <4>5, Zenon DEF Taken
      <4>7. x.p2v[p] = NO_VREG
        BY <2>10, <4>2, <4>5, Zenon DEF Taken, Allocator, Typed
      <4>8. \A w \in VRegs : f.loc[w] = "REG" /\ f.p[w] # p =>
                               x.loc[w] = "REG" /\ x.p[w] = f.p[w]
        <5>1. ASSUME NEW w \in VRegs, f.loc[w] = "REG", f.p[w] # p PROVE w # f.p2v[p]
          BY <2>10, <4>2, <5>1, HolderInReg
        <5> QED
          BY <4>5, <5>1, Zenon DEF Taken
      <4>9. val = f.reg[f.p[v]]
        BY <2>4, <2>10, <3>2, <4>1, <4>6, <4>8, Zenon
      <4>10. \A q \in r.avoid \cap PRegs : t.s.reg[q] = f.reg[q]
        BY <4>2, <4>3, <4>6 DEF Wrote, Typed
      <4>11. \A w \in VRegs : f.loc[w] = "REG" /\ f.p[w] \in r.avoid =>
                                t.s.loc[w] = "REG" /\ t.s.p[w] = f.p[w]
        BY <4>3, <4>6, <4>8 DEF Wrote
      <4>12. \A e : \A w \in VRegs : Kept(f, e, w) => Kept(t.s, e, w)
        BY <4>3, <4>5, <4>6, <4>7, RegsFacts, Zenon DEF Taken, OthersKept
      <4>13. Allocator(t.s)
        BY <4>3, <4>6, Zenon DEF OthersKept
      <4> QED
        BY <2>10, <3>2, <4>2, <4>3, <4>9, <4>10, <4>11, <4>12, <4>13, Zenon
    <3> QED
      BY <2>3, <3>1, <3>2, Zenon
  <2> HIDE DEF Held
  <2>12. \A e : \A w \in VRegs : Kept(s, e, w) => Kept(f, e, w) /\ Kept(t.s, e, w)
    BY <2>9, <2>11, Zenon DEF Filled, Held
  <2>13. t.ins.s = [r.ins.s EXCEPT ![k] = P(p)] /\ k \in DOMAIN r.ins.s
    BY <2>3, Zenon DEF Carries
  <2>14. InReg(t, s, ins.s[k], t.ins.s[k])
    <3>1. t.ins.s[k] = P(p) /\ p \in PRegs \cap t.avoid
      BY <2>3, <2>11, <2>13, Zenon
    <3>2. ASSUME NEW e, Kept(s, e, v) PROVE t.s.reg[p] = e[v]
      <4>1. Kept(f, e, v)
        BY <2>4, <2>12, <3>2, Zenon
      <4> QED
        BY <2>10, <2>11, <4>1, Zenon DEF Kept
    <3> QED
      BY <2>1, <3>1, <3>2, Zenon DEF InReg
  <2>15. ASSUME NEW j \in K, IsVGPR(ins.s[j]) PROVE InReg(t, s, ins.s[j], t.ins.s[j])
    <3>1. j # k /\ t.ins.s[j] = r.ins.s[j] /\ InReg(r, s, ins.s[j], r.ins.s[j])
      BY <2>13, <2>15 DEF Held
    <3>2. \A q \in PRegs \cap r.avoid : q \in t.avoid /\ t.s.reg[q] = r.s.reg[q]
      BY <2>3, <2>9, <2>11 DEF Filled
    <3> QED
      BY <3>1, <3>2, Zenon DEF InReg
  <2>16. ASSUME 1 \in K \cup {k}, IsVGPR(ins.s[1]), RaCt[ins.op].in[1].cr = "R"
         PROVE  t.s.loc[ins.s[1][2]] = "REG" /\ t.s.p[ins.s[1][2]] \in t.avoid
    <3>1. CASE k = 1
      <4>1. cr = PRegs
        BY <2>1, <2>16, <3>1, Desired, Zenon
      <4> QED
        BY <2>1, <2>3, <2>11, <3>1, <4>1, Zenon
    <3>2. CASE 1 \in K
      <4>1. ins.s[1][2] \in VRegs
        BY <2>16, <3>2, OperandFacts, Zenon
      <4>2. r.s.loc[ins.s[1][2]] = "REG" /\ r.s.p[ins.s[1][2]] \in r.avoid
        BY <2>16, <3>2, Zenon DEF Held
      <4> QED
        BY <2>3, <2>9, <2>11, <4>1, <4>2 DEF Filled
    <3> QED
      BY <2>16, <3>1, <3>2, Zenon
  <2> QED
    BY <2>3, <2>5, <2>11, <2>12, <2>14, <2>15, <2>16, Zenon DEF Held
<1> QED
  BY <1>1, <1>2, Zenon

-----------------------------------------------------------------------------
(* AllocDst and AllocOp *)

\* SyncSideeff moves nothing, and completes the CPUState for an access.
LEMMA SyncSideeffKeeps ==
  ASSUME NEW ins, NEW K, NEW r, Carries(r, ins, K), NEW t, t = SyncSideeff(r)
  PROVE  /\ Carries(t, ins, K)
         /\ r.s.fail => t.s.fail
         /\ t.s.mem[0] = r.s.mem[0]
         /\ ins.op \in {"vmload", "vmstore"} /\ Allocator(r.s) => Flushed(t.s)
         /\ \A s : Held(r, s, ins, K) => Held(t, s, ins, K)
<1>1. CASE r.ins.op \notin {"vmload", "vmstore"}
  <2>1. t = r
    BY <1>1, Zenon DEF SyncSideeff
  <2>2. ins.op \notin {"vmload", "vmstore"}
    BY <1>1, Zenon DEF Carries
  <2> QED
    BY <2>1, <2>2, Zenon
<1>2. CASE r.ins.op \in {"vmload", "vmstore"}
  <2>1. t = [r EXCEPT !.s = SyncGlobals(r.s)]
    BY <1>2, Zenon DEF SyncSideeff
  <2>2. DOMAIN t = {"s", "avoid", "ins"} /\ t.s = SyncGlobals(r.s)
    BY <2>1, Zenon DEF Carries
  <2>3. t.avoid = r.avoid /\ t.ins = r.ins
    BY <2>1, Zenon DEF Carries
  <2>4. Stays(r.s, t.s)
    BY <2>2, SyncGlobalsStays, Zenon DEF Carries
  <2>5. Carries(t, ins, K)
    BY <2>2, <2>3, <2>4, Zenon DEF Carries, Stays
  <2>6. ASSUME NEW s, Held(r, s, ins, K) PROVE Held(t, s, ins, K)
    <3>1. GlobalsSynced(r.s, t.s)
      BY <2>2, <2>6, SyncGlobalsKeeps, Zenon DEF Held
    <3>2. /\ Allocator(t.s) /\ t.s.fail = r.s.fail /\ t.s.loc = r.s.loc /\ t.s.p = r.s.p
          /\ t.s.reg = r.s.reg
          /\ \A e : \A w \in VRegs : Kept(r.s, e, w) => Kept(t.s, e, w)
      BY <3>1, Zenon DEF GlobalsSynced
    <3>3. \A k \in K : IsVGPR(ins.s[k]) => InReg(t, s, ins.s[k], t.ins.s[k])
      BY <2>3, <2>6, <3>2 DEF InReg, Held
    <3> QED
      BY <2>3, <2>6, <3>2, <3>3, Zenon DEF Held
  <2>7. ASSUME Allocator(r.s) PROVE Flushed(t.s)
    <3>1. GlobalsSynced(r.s, t.s)
      BY <2>2, <2>7, SyncGlobalsKeeps, Zenon
    <3> QED
      BY <3>1, Zenon DEF GlobalsSynced, Flushed
  <2> QED
    BY <2>4, <2>5, <2>6, <2>7, Zenon DEF Stays
<1> QED
  BY <1>1, <1>2, Zenon

\* t is the allocation of ins in s: every input that is a register of the region
\* is in a machine register, and so will be the output, which is not in its slot.
Allocated(t, s, ins) ==
  /\ Allocator(t.s) /\ ~t.s.fail
  /\ t.ins.op = ins.op /\ t.ins.at = ins.at /\ DOMAIN t.ins.s = DOMAIN ins.s
  /\ \A k \in DOMAIN ins.s : /\ ~IsVGPR(ins.s[k]) => t.ins.s[k] = ins.s[k]
                             /\ IsVGPR(ins.s[k]) => InReg(t, s, ins.s[k], t.ins.s[k])
  /\ ~IsVGPR(ins.d) => /\ t.ins.d = ins.d
                       /\ \A e : \A w \in VRegs : Kept(s, e, w) => Kept(t.s, e, w)
  /\ IsVGPR(ins.d) => /\ t.s.loc[ins.d[2]] = "REG" /\ ~t.s.synced[ins.d[2]]
                      /\ t.ins.d = P(t.s.p[ins.d[2]])
                      /\ \A e : \A w \in VRegs :
                           w # ins.d[2] /\ Kept(s, e, w) => Kept(t.s, e, w)

\* t is s with the value of v not in its slot any more.
Unsynced(s, t, v) ==
  /\ DOMAIN t = Fields /\ t.fail = s.fail
  /\ t.loc = s.loc /\ t.p = s.p /\ t.p2v = s.p2v /\ t.reg = s.reg
  /\ t.synced = [s.synced EXCEPT ![v] = FALSE]
  /\ t.mem = s.mem /\ t.frm = s.frm /\ t.offs = s.offs /\ t.frame = s.frame

\* Clearing spill_synced disturbs no other register.
LEMMA UnsyncedKeeps ==
  ASSUME NEW s, Typed(s), NEW v \in VRegs, NEW t, t = [s EXCEPT !.synced[v] = FALSE]
  PROVE  /\ Unsynced(s, t, v)
         /\ ~t.synced[v]
         /\ Allocator(s) => OthersKept(s, t, v)
<1>1. Unsynced(s, t, v)
  BY Zenon DEF Unsynced, Typed, Fields
<1>2. /\ t.synced \in [VRegs -> BOOLEAN] /\ ~t.synced[v]
      /\ \A w \in VRegs : w # v => (t.synced[w] <=> s.synced[w])
  BY <1>1 DEF Unsynced, Typed
<1>3. Typed(t)
  BY <1>1, <1>2, Zenon DEF Unsynced, Typed
<1>4. ASSUME Allocator(s) PROVE OthersKept(s, t, v)
  <2>1. Coherent(t) /\ Slots(t) /\ \A g \in Gprs : t.loc[g] # "DEAD"
    BY <1>1, <1>4 DEF Allocator, Coherent, Slots, Unsynced
  <2>2. ASSUME NEW e, NEW w \in VRegs, w # v, Kept(s, e, w) PROVE Kept(t, e, w)
    <3>1. InSlot(t, w) <=> InSlot(s, w)
      BY <1>1, <1>2, <2>2, Zenon DEF InSlot, Unsynced
    <3> QED
      BY <1>1, <2>2, <3>1, Zenon DEF Kept, Unsynced
  <2> QED
    BY <1>3, <2>1, <2>2, Zenon DEF Allocator, OthersKept
<1> QED
  BY <1>1, <1>2, <1>4, Zenon

\* The output of an operation that is also its first input stays where it is.
LEMMA AllocDstAlias ==
  ASSUME NEW s, NEW ins, Constrained(ins), NEW r, Carries(r, ins, DOMAIN ins.s),
         Held(r, s, ins, DOMAIN ins.s), RaCt[ins.op].alias,
         NEW t, t = AllocDst(r)
  PROVE  Allocated(t, s, ins)
<1>1. PICK v : v = r.ins.d[2]
  BY Zenon
<1>2. /\ IsVGPR(ins.d) /\ ins.s[1] = ins.d /\ ins.d[2] \in VRegs /\ v = ins.d[2] /\ v \in VRegs
      /\ r.ins.d = ins.d
  BY <1>1, OperandFacts, Zenon DEF Carries
<1>3. 1 \in DOMAIN ins.s /\ RaCt[ins.op].in[1].cr = "R"
  BY OperandFacts, Constraints DEF Constrained
<1>4. r.s.loc[v] = "REG" /\ Typed(r.s) /\ Allocator(r.s) /\ ~r.s.fail
  BY <1>2, <1>3, Zenon DEF Held, Carries
<1>5. PICK x : x = [r.s EXCEPT !.synced[v] = FALSE]
  BY Zenon
<1>6. t = [r EXCEPT !.s = x, !.ins.d = P(r.s.p[v])]
  <2>1. IsVGPR(r.ins.d) /\ RaCt[r.ins.op].alias
    BY <1>2, Zenon DEF Carries
  <2> QED
    BY <1>1, <1>5, <2>1, Zenon DEF AllocDst
<1>7. /\ t.s = x /\ t.avoid = r.avoid /\ t.ins = [r.ins EXCEPT !.d = P(r.s.p[v])]
  BY <1>6, Zenon DEF Carries
<1>8. /\ t.ins.op = ins.op /\ t.ins.at = ins.at /\ t.ins.s = r.ins.s
      /\ t.ins.d = P(r.s.p[v])
  BY <1>7, Zenon DEF Carries
<1>9. Unsynced(r.s, x, v) /\ ~x.synced[v] /\ OthersKept(r.s, x, v)
  BY <1>2, <1>4, <1>5, UnsyncedKeeps, Zenon
<1>10. x.reg = r.s.reg /\ x.loc = r.s.loc /\ x.p = r.s.p /\ x.fail = r.s.fail
  BY <1>9, Zenon DEF Unsynced
<1>11. \A k \in DOMAIN ins.s : /\ ~IsVGPR(ins.s[k]) => t.ins.s[k] = ins.s[k]
                               /\ IsVGPR(ins.s[k]) => InReg(t, s, ins.s[k], t.ins.s[k])
  BY <1>7, <1>8, <1>10 DEF Carries, Held, InReg
<1>12. \A e : \A w \in VRegs : w # v /\ Kept(s, e, w) => Kept(x, e, w)
  BY <1>9, Zenon DEF Held, OthersKept
<1>13. Allocator(x) /\ DOMAIN t.ins.s = DOMAIN ins.s
  BY <1>8, <1>9, Zenon DEF OthersKept, Carries
<1> QED
  BY <1>2, <1>4, <1>7, <1>8, <1>9, <1>10, <1>11, <1>12, <1>13, Zenon DEF Allocated

\* t is r with the output v in the machine register p, taken from the allocator x.
Placed(r, t, x, p, v) ==
  /\ Typed(x) /\ p \in PRegs /\ v \in VRegs
  /\ t.avoid = r.avoid
  /\ t.ins = [r.ins EXCEPT !.d = P(p)]
  /\ DOMAIN t.s = Fields /\ t.s.fail = x.fail
  /\ t.s.loc = [x.loc EXCEPT ![v] = "REG"]
  /\ t.s.p = [x.p EXCEPT ![v] = p]
  /\ t.s.synced = [x.synced EXCEPT ![v] = FALSE]
  /\ t.s.p2v = IF x.loc[v] = "REG" THEN [[x.p2v EXCEPT ![x.p[v]] = NO_VREG] EXCEPT ![p] = v]
               ELSE [x.p2v EXCEPT ![p] = v]
  /\ t.s.reg = x.reg /\ t.s.mem = x.mem /\ t.s.frm = x.frm
  /\ t.s.offs = x.offs /\ t.s.frame = x.frame

\* AllocDst of an output that is a register of the region and no input.
LEMMA AllocDstFields ==
  ASSUME NEW ins, Constrained(ins), NEW K, NEW r, Carries(r, ins, K),
         ~RaCt[ins.op].alias, IsVGPR(ins.d),
         NEW a, a = AllocPReg(r.s, PRegs, r.avoid), NEW x, x = a.s, NEW p, p = a.p,
         NEW t, t = AllocDst(r)
  PROVE  Placed(r, t, x, p, ins.d[2]) /\ (r.s.fail => x.fail)
<1>0. PICK v : v = ins.d[2]
  BY Zenon
<1>1. v \in VRegs /\ v = r.ins.d[2] /\ IsVGPR(r.ins.d) /\ ~RaCt[r.ins.op].alias
  BY <1>0, OperandFacts, Zenon DEF Carries
<1>2. PRegs \in SUBSET PRegs /\ PRegs # {} /\ Typed(r.s)
  BY RegsFacts, Zenon DEF Carries
<1>3. Stays(r.s, a.s) /\ a.p \in PRegs
  BY <1>2, AllocPRegStays, Zenon
<1>4. Typed(x) /\ DOMAIN x = Fields
  BY <1>3, Zenon DEF Stays, Typed
<1>5. PICK u : u = IF x.loc[v] = "REG" THEN [x EXCEPT !.p2v[x.p[v]] = NO_VREG] ELSE x
  BY Zenon
<1>6. PICK y : y = [u EXCEPT !.loc[v] = "REG", !.p2v[p] = v, !.p[v] = p]
  BY Zenon
<1>7. PICK z : z = [y EXCEPT !.synced[v] = FALSE]
  BY Zenon
<1>8. t = [r EXCEPT !.s = z, !.ins.d = P(y.p[v])]
  BY <1>1, <1>5, <1>6, <1>7, Zenon DEF AllocDst
<1>9. t.s = z /\ t.avoid = r.avoid /\ t.ins = [r.ins EXCEPT !.d = P(y.p[v])]
  BY <1>8, Zenon DEF Carries
<1>10. /\ DOMAIN u = Fields
       /\ u.loc = x.loc /\ u.p = x.p /\ u.synced = x.synced /\ u.reg = x.reg /\ u.mem = x.mem
       /\ u.frm = x.frm /\ u.offs = x.offs /\ u.frame = x.frame /\ u.fail = x.fail
  <2>1. CASE x.loc[v] = "REG"
    BY <1>4, <1>5, <2>1, Zenon DEF Fields
  <2>2. CASE x.loc[v] # "REG"
    BY <1>4, <1>5, <2>2, Zenon DEF Fields
  <2> QED
    BY <2>1, <2>2, Zenon
<1>11. u.p2v = IF x.loc[v] = "REG" THEN [x.p2v EXCEPT ![x.p[v]] = NO_VREG] ELSE x.p2v
  <2>1. CASE x.loc[v] = "REG"
    BY <1>4, <1>5, <2>1, Zenon DEF Fields
  <2>2. CASE x.loc[v] # "REG"
    BY <1>4, <1>5, <2>2, Zenon DEF Fields
  <2> QED
    BY <2>1, <2>2, Zenon
<1>12. /\ DOMAIN y = Fields
       /\ y.loc = [u.loc EXCEPT ![v] = "REG"] /\ y.p = [u.p EXCEPT ![v] = p]
       /\ y.p2v = [u.p2v EXCEPT ![p] = v]
       /\ y.synced = u.synced /\ y.reg = u.reg /\ y.mem = u.mem
       /\ y.frm = u.frm /\ y.offs = u.offs /\ y.frame = u.frame /\ y.fail = u.fail
  BY <1>6, <1>10, Zenon DEF Fields
<1>13. /\ DOMAIN z = Fields
       /\ z.loc = y.loc /\ z.p = y.p /\ z.p2v = y.p2v
       /\ z.synced = [y.synced EXCEPT ![v] = FALSE] /\ z.reg = y.reg /\ z.mem = y.mem
       /\ z.frm = y.frm /\ z.offs = y.offs /\ z.frame = y.frame /\ z.fail = y.fail
  BY <1>7, <1>12, Zenon DEF Fields
<1>14. y.p[v] = p
  BY <1>1, <1>4, <1>10, <1>12, Zenon DEF Typed
<1>15. t.s.p2v = IF x.loc[v] = "REG" THEN [[x.p2v EXCEPT ![x.p[v]] = NO_VREG] EXCEPT ![p] = v]
                 ELSE [x.p2v EXCEPT ![p] = v]
  BY <1>9, <1>11, <1>12, <1>13, Zenon
<1>16. /\ DOMAIN t.s = Fields /\ t.s.fail = x.fail
       /\ t.s.loc = [x.loc EXCEPT ![v] = "REG"]
       /\ t.s.p = [x.p EXCEPT ![v] = p]
       /\ t.s.synced = [x.synced EXCEPT ![v] = FALSE]
       /\ t.s.reg = x.reg /\ t.s.mem = x.mem /\ t.s.frm = x.frm
       /\ t.s.offs = x.offs /\ t.s.frame = x.frame
  <2>1. t.s = z
    BY <1>9, Zenon
  <2>2. /\ z.loc = [x.loc EXCEPT ![v] = "REG"] /\ z.p = [x.p EXCEPT ![v] = p]
        /\ z.synced = [x.synced EXCEPT ![v] = FALSE]
    <3>1. /\ z.loc = y.loc /\ y.loc = [u.loc EXCEPT ![v] = "REG"] /\ u.loc = x.loc
          /\ z.p = y.p /\ y.p = [u.p EXCEPT ![v] = p] /\ u.p = x.p
          /\ z.synced = [y.synced EXCEPT ![v] = FALSE] /\ y.synced = u.synced /\ u.synced = x.synced
      BY <1>10, <1>12, <1>13, Zenon
    <3> QED
      BY <3>1
  <2>3. /\ z.fail = x.fail /\ z.reg = x.reg /\ z.mem = x.mem /\ z.frm = x.frm
        /\ z.offs = x.offs /\ z.frame = x.frame /\ DOMAIN z = Fields
    BY <1>10, <1>12, <1>13, Zenon
  <2> QED
    BY <2>1, <2>2, <2>3, Zenon
<1>17. t.ins = [r.ins EXCEPT !.d = P(p)] /\ t.avoid = r.avoid /\ p \in PRegs
  BY <1>3, <1>9, <1>14, Zenon
<1>18. Placed(r, t, x, p, v)
  BY <1>1, <1>4, <1>15, <1>16, <1>17, Zenon DEF Placed
<1> QED
  BY <1>0, <1>3, <1>18, Zenon DEF Stays

\* AllocDst does not undo a failure.
LEMMA AllocDstStays ==
  ASSUME NEW ins, Constrained(ins), NEW K, NEW r, Carries(r, ins, K),
         NEW t, t = AllocDst(r)
  PROVE  /\ DOMAIN t.s = Fields
         /\ ~IsVGPR(ins.d) => Typed(t.s)
         /\ r.s.fail => t.s.fail
<1>1. Typed(r.s) /\ DOMAIN r.s = Fields /\ r.ins.d = ins.d /\ r.ins.op = ins.op
  BY Zenon DEF Carries, Typed
<1>2. CASE ~IsVGPR(ins.d)
  <2>1. t = r
    BY <1>1, <1>2, Zenon DEF AllocDst
  <2> QED
    BY <1>1, <2>1, Zenon
<1>3. CASE IsVGPR(ins.d) /\ RaCt[ins.op].alias
  <2>1. PICK v : v = r.ins.d[2]
    BY Zenon
  <2>2. PICK x : x = [r.s EXCEPT !.synced[v] = FALSE]
    BY Zenon
  <2>3. IsVGPR(r.ins.d) /\ RaCt[r.ins.op].alias
    BY <1>1, <1>3, Zenon
  <2>4. t = [r EXCEPT !.s = x, !.ins.d = P(r.s.p[v])]
    BY <2>1, <2>2, <2>3, Zenon DEF AllocDst
  <2>5. t.s = x
    BY <2>4, Zenon DEF Carries
  <2>6. DOMAIN x = Fields /\ x.fail = r.s.fail
    BY <1>1, <2>2, Zenon DEF Fields
  <2> QED
    BY <1>3, <2>5, <2>6, Zenon
<1>4. CASE IsVGPR(ins.d) /\ ~RaCt[ins.op].alias
  <2>1. PICK a, x, p : a = AllocPReg(r.s, PRegs, r.avoid) /\ x = a.s /\ p = a.p
    BY Zenon
  <2>2. Placed(r, t, x, p, ins.d[2]) /\ (r.s.fail => x.fail)
    BY <1>4, <2>1, AllocDstFields
  <2> QED
    BY <1>4, <2>2, Zenon DEF Placed
<1> QED
  BY <1>2, <1>3, <1>4, Zenon

\* AllocDst leaves ip, and a complete CPUState.
LEMMA AllocDstFlushed ==
  ASSUME NEW ins, Constrained(ins), NEW K, NEW r, Carries(r, ins, K),
         NEW t, t = AllocDst(r)
  PROVE  /\ t.s.mem[0] = r.s.mem[0]
         /\ Allocator(r.s) /\ Flushed(r.s) => t.s.mem = r.s.mem
<1>1. Typed(r.s) /\ DOMAIN r.s = Fields /\ r.ins.d = ins.d /\ r.ins.op = ins.op
  BY Zenon DEF Carries, Typed
<1>2. CASE ~IsVGPR(ins.d)
  <2>1. t = r
    BY <1>1, <1>2, Zenon DEF AllocDst
  <2> QED
    BY <2>1, Zenon
<1>3. CASE IsVGPR(ins.d) /\ RaCt[ins.op].alias
  <2>1. PICK v : v = r.ins.d[2]
    BY Zenon
  <2>2. PICK x : x = [r.s EXCEPT !.synced[v] = FALSE]
    BY Zenon
  <2>3. IsVGPR(r.ins.d) /\ RaCt[r.ins.op].alias
    BY <1>1, <1>3, Zenon
  <2>4. t = [r EXCEPT !.s = x, !.ins.d = P(r.s.p[v])]
    BY <2>1, <2>2, <2>3, Zenon DEF AllocDst
  <2>5. t.s = x
    BY <2>4, Zenon DEF Carries
  <2>6. x.mem = r.s.mem
    BY <1>1, <2>2, Zenon DEF Fields
  <2> QED
    BY <2>5, <2>6, Zenon
<1>4. CASE IsVGPR(ins.d) /\ ~RaCt[ins.op].alias
  <2>1. PICK a : a = AllocPReg(r.s, PRegs, r.avoid)
    BY Zenon
  <2>2. PICK x, p : x = a.s /\ p = a.p
    BY Zenon
  <2>3. Placed(r, t, x, p, ins.d[2])
    BY <1>4, <2>1, <2>2, AllocDstFields
  <2>4. t.s.mem = x.mem
    BY <2>3, Zenon DEF Placed
  <2>5. PRegs \in SUBSET PRegs /\ PRegs # {}
    BY RegsFacts, Zenon
  <2>6. Stays(r.s, a.s)
    BY <1>1, <2>1, <2>5, AllocPRegStays, Zenon
  <2>7. x.mem[0] = r.s.mem[0]
    BY <2>2, <2>6, Zenon DEF Stays
  <2>8. ASSUME Allocator(r.s), Flushed(r.s) PROVE x.mem = r.s.mem
    <3>1. a.s.mem = r.s.mem
      BY <2>1, <2>5, <2>8, AllocPRegFlushed
    <3> QED
      BY <2>2, <3>1, Zenon
  <2> QED
    BY <2>4, <2>7, <2>8, Zenon
<1> QED
  BY <1>2, <1>3, <1>4, Zenon

\* The output of an operation that has no alias takes a machine register that holds
\* no input.
LEMMA AllocDstNew ==
  ASSUME NEW s, NEW ins, Constrained(ins), NEW r, Carries(r, ins, DOMAIN ins.s),
         Held(r, s, ins, DOMAIN ins.s), ~RaCt[ins.op].alias, IsVGPR(ins.d),
         NEW t, t = AllocDst(r), ~t.s.fail
  PROVE  Allocated(t, s, ins)
<1>1. PICK v, a : v = ins.d[2] /\ a = AllocPReg(r.s, PRegs, r.avoid)
  BY Zenon
<1>2. PICK x, p : x = a.s /\ p = a.p
  BY Zenon
<1>3. Placed(r, t, x, p, v)
  BY <1>1, <1>2, AllocDstFields, Zenon
<1>4. Allocator(r.s) /\ FIXED \subseteq r.avoid /\ PRegs \in SUBSET PRegs /\ ~x.fail
  BY <1>3, Zenon DEF Held, Placed
<1>5. Taken(r.s, x, p, PRegs, r.avoid)
  BY <1>1, <1>2, <1>4, AllocPRegKeeps, Zenon
<1>6. /\ Allocator(x) /\ p \in PRegs \ FIXED /\ x.reg = r.s.reg
      /\ \A e : \A w \in VRegs : Kept(r.s, e, w) => Kept(x, e, w)
  BY <1>4, <1>5, Zenon DEF Taken
<1>7. x.p2v[p] = NO_VREG
  BY <1>3, <1>4, <1>5, Zenon DEF Taken, Allocator, Typed, Placed
<1>8. t.s.p2v = [q \in PRegs |-> IF q = p THEN v ELSE IF x.p2v[q] = v THEN NO_VREG ELSE x.p2v[q]]
  <2>1. x.p2v \in [PRegs -> VRegs \cup {NO_VREG}]
    BY <1>3, Zenon DEF Typed, Placed
  <2>2. CASE x.loc[v] = "REG"
    <3>1. v \in VRegs /\ x.p[v] \in PRegs /\ x.p2v[x.p[v]] = v
      BY <1>3, <1>6, <2>2, Zenon DEF Allocator, Coherent, Typed, Placed
    <3>2. \A q \in PRegs : x.p2v[q] = v => q = x.p[v]
      BY <1>6, <3>1, HolderInReg
    <3> QED
      BY <1>3, <2>1, <2>2, <3>1, <3>2 DEF Placed
  <2>3. CASE x.loc[v] # "REG"
    <3>1. \A q \in PRegs : x.p2v[q] # v
      BY <1>3, <1>6, <2>3, HolderInReg DEF Placed
    <3> QED
      BY <1>3, <2>1, <2>3, <3>1, Zenon DEF Placed
  <2> QED
    BY <2>2, <2>3, Zenon
<1>9. Bound(x, t.s, v, p)
  <2>1. /\ t.s.synced \in [VRegs -> BOOLEAN]
        /\ \A w \in VRegs : w # v => (t.s.synced[w] <=> x.synced[w])
    BY <1>3 DEF Typed, Placed
  <2>2. DOMAIN t.s.reg = PRegs /\ \A q \in PRegs : q # p => t.s.reg[q] = x.reg[q]
    BY <1>3, Zenon DEF Typed, Placed
  <2> QED
    BY <1>3, <1>8, <2>1, <2>2, Zenon DEF Bound, Placed
<1>10. Allocator(t.s) /\ \A e : \A w \in VRegs : w # v /\ Kept(x, e, w) => Kept(t.s, e, w)
  BY <1>3, <1>6, <1>7, <1>9, BoundKeeps, Zenon DEF Placed
<1>11. t.s.loc[v] = "REG" /\ t.s.p[v] = p /\ ~t.s.synced[v]
  BY <1>3, Zenon DEF Typed, Placed
<1>12. /\ t.ins.op = ins.op /\ t.ins.at = ins.at /\ t.ins.s = r.ins.s
       /\ t.ins.d = P(p) /\ DOMAIN t.ins.s = DOMAIN ins.s
  BY <1>3, Zenon DEF Carries, Placed
<1>13. \A k \in DOMAIN ins.s : /\ ~IsVGPR(ins.s[k]) => t.ins.s[k] = ins.s[k]
                               /\ IsVGPR(ins.s[k]) => InReg(t, s, ins.s[k], t.ins.s[k])
  BY <1>3, <1>6, <1>12 DEF Carries, Held, InReg, Placed
<1>14. \A e : \A w \in VRegs : w # v /\ Kept(s, e, w) => Kept(t.s, e, w)
  BY <1>6, <1>10, Zenon DEF Held
<1> QED
  BY <1>1, <1>10, <1>11, <1>12, <1>13, <1>14, Zenon DEF Allocated

\* An output that is no register of the region is left.
LEMMA AllocDstNone ==
  ASSUME NEW s, NEW ins, Constrained(ins), NEW r, Carries(r, ins, DOMAIN ins.s),
         Held(r, s, ins, DOMAIN ins.s), ~IsVGPR(ins.d), NEW t, t = AllocDst(r)
  PROVE  Allocated(t, s, ins)
<1>1. t = r
  BY Zenon DEF AllocDst, Carries
<1>2. Allocator(r.s) /\ ~r.s.fail /\ \A e : \A w \in VRegs : Kept(s, e, w) => Kept(r.s, e, w)
  BY Zenon DEF Held
<1>3. /\ r.ins.op = ins.op /\ r.ins.at = ins.at /\ r.ins.d = ins.d
      /\ DOMAIN r.ins.s = DOMAIN ins.s
  BY Zenon DEF Carries
<1>4. \A k \in DOMAIN ins.s : /\ ~IsVGPR(ins.s[k]) => r.ins.s[k] = ins.s[k]
                              /\ IsVGPR(ins.s[k]) => InReg(r, s, ins.s[k], r.ins.s[k])
  BY Zenon DEF Carries, Held
<1>5. Allocated(r, s, ins)
  BY <1>2, <1>3, <1>4, Zenon DEF Allocated
<1> QED
  BY <1>1, <1>5, Zenon

\* The allocation of ins in s before its inputs.
Start(s, ins) == [s |-> s, avoid |-> FIXED, ins |-> ins]

\* AllocOp of an operation of one input and of two.
LEMMA AllocOpUnfolded ==
  ASSUME NEW s, NEW ins, Constrained(ins)
  PROVE  \/ /\ DOMAIN ins.s = {1}
            /\ AllocOp(s, ins) = AllocDst(SyncSideeff(AllocSrc(Start(s, ins), 1)))
         \/ /\ DOMAIN ins.s = {1, 2}
            /\ \E i, j : /\ i \in {1, 2} /\ j \in {1, 2} /\ i # j
                         /\ AllocOp(s, ins) =
                              AllocDst(SyncSideeff(AllocSrc(AllocSrc(Start(s, ins), i), j)))
<1> DEFINE order == Order(ins.op)
           Runs(f) == f = [k \in 0 .. Len(order) |->
                             IF k = 0 THEN [s |-> s, avoid |-> FIXED, ins |-> ins]
                             ELSE AllocSrc(f[k - 1], order[k])]
           after == CHOOSE f : Runs(f)
<1>1. AllocOp(s, ins) = AllocDst(SyncSideeff(after[Len(order)]))
  BY Zenon DEF AllocOp
<1>2. DOMAIN ins.s = 1 .. Len(RaCt[ins.op].in) /\ ins.op \in DOMAIN RaCt
  BY OperandFacts, Zenon DEF Constrained
<1>3. \/ Len(RaCt[ins.op].in) = 1 /\ order = <<1>>
      \/ Len(RaCt[ins.op].in) = 2 /\ order \in {<<1, 2>>, <<2, 1>>}
  BY <1>2, Orders, Zenon
<1> HIDE DEF order
<1>4. CASE Len(RaCt[ins.op].in) = 1 /\ order = <<1>>
  <2>1. PICK x, y : x = Start(s, ins) /\ y = AllocSrc(x, 1)
    BY Zenon
  <2>2. Len(order) = 1 /\ order[1] = 1
    BY <1>4, Zenon
  <2>3. Runs([k \in 0 .. 1 |-> IF k = 0 THEN x ELSE y])
    <3>1. PICK f : f = [k \in 0 .. 1 |-> IF k = 0 THEN x ELSE y]
      BY Zenon
    <3>2. f[0] = Start(s, ins) /\ f[1] = AllocSrc(f[0], order[1])
      BY <2>1, <2>2, <3>1
    <3>3. f = [k \in 0 .. 1 |-> IF k = 0 THEN Start(s, ins) ELSE AllocSrc(f[k - 1], order[k])]
      BY <3>1, <3>2
    <3> QED
      BY <2>2, <3>1, <3>3, Zenon DEF Start
  <2>4. Runs(after)
    BY <2>3, Zenon
  <2> HIDE DEF after
  <2>5. after[0] = Start(s, ins) /\ after[1] = AllocSrc(after[0], order[1])
    BY <2>2, <2>4 DEF Start
  <2>6. AllocOp(s, ins) = AllocDst(SyncSideeff(AllocSrc(Start(s, ins), 1)))
    BY <1>1, <2>2, <2>5, Zenon
  <2> QED
    BY <1>2, <1>4, <2>6
<1>5. CASE Len(RaCt[ins.op].in) = 2 /\ order \in {<<1, 2>>, <<2, 1>>}
  <2>1. PICK i, j : order = <<i, j>> /\ i \in {1, 2} /\ j \in {1, 2} /\ i # j
    BY <1>5
  <2>2. PICK x, y, z : x = Start(s, ins) /\ y = AllocSrc(x, i) /\ z = AllocSrc(y, j)
    BY Zenon
  <2>3. Len(order) = 2 /\ order[1] = i /\ order[2] = j
    BY <2>1, Zenon
  <2>4. Runs([k \in 0 .. 2 |-> IF k = 0 THEN x ELSE IF k = 1 THEN y ELSE z])
    <3>1. PICK f : f = [k \in 0 .. 2 |-> IF k = 0 THEN x ELSE IF k = 1 THEN y ELSE z]
      BY Zenon
    <3>2. /\ f[0] = Start(s, ins) /\ f[1] = AllocSrc(f[0], order[1])
          /\ f[2] = AllocSrc(f[1], order[2])
      BY <2>2, <2>3, <3>1
    <3>3. f = [k \in 0 .. 2 |-> IF k = 0 THEN Start(s, ins) ELSE AllocSrc(f[k - 1], order[k])]
      BY <3>1, <3>2
    <3> QED
      BY <2>3, <3>1, <3>3, Zenon DEF Start
  <2>5. Runs(after)
    BY <2>4, Zenon
  <2> HIDE DEF after
  <2>6. /\ after[0] = Start(s, ins) /\ after[1] = AllocSrc(after[0], order[1])
        /\ after[2] = AllocSrc(after[1], order[2])
    BY <2>3, <2>5 DEF Start
  <2>7. AllocOp(s, ins) = AllocDst(SyncSideeff(AllocSrc(AllocSrc(Start(s, ins), i), j)))
    BY <1>1, <2>3, <2>6, Zenon
  <2>8. DOMAIN ins.s = {1, 2}
    BY <1>2, <1>5
  <2> QED
    BY <2>1, <2>7, <2>8, Zenon
<1> QED
  BY <1>3, <1>4, <1>5, Zenon

\* AllocDst after all inputs.
LEMMA AllocDstKeeps ==
  ASSUME NEW s, NEW ins, Constrained(ins), NEW r, Carries(r, ins, DOMAIN ins.s),
         Held(r, s, ins, DOMAIN ins.s), NEW t, t = AllocDst(r), ~t.s.fail
  PROVE  Allocated(t, s, ins)
<1>1. CASE ~IsVGPR(ins.d)
  BY <1>1, AllocDstNone, Zenon
<1>2. CASE IsVGPR(ins.d) /\ RaCt[ins.op].alias
  BY <1>2, AllocDstAlias, Zenon
<1>3. CASE IsVGPR(ins.d) /\ ~RaCt[ins.op].alias
  BY <1>3, AllocDstNew, Zenon
<1> QED
  BY <1>1, <1>2, <1>3, Zenon

\* The CPUState of t has the ip of s and, when ins accesses the memory, the values
\* that s has kept.
Complete(t, s, ins) ==
  /\ t.mem[0] = s.mem[0]
  /\ ins.op \in {"vmload", "vmstore"} => \A e : \A g \in Gprs : Kept(s, e, g) => t.mem[g] = e[g]

\* AllocOp gives every register operand a machine register, and disturbs no value
\* but the one that the operation is about to write; for an access, the CPUState is
\* complete.
LEMMA AllocOpKeeps ==
  ASSUME NEW s, Allocator(s), ~s.fail, NEW ins, Constrained(ins),
         NEW t, t = AllocOp(s, ins)
  PROVE  /\ DOMAIN t.s = Fields
         /\ ~IsVGPR(ins.d) => Typed(t.s)
         /\ ~t.s.fail => Allocated(t, s, ins) /\ Complete(t.s, s, ins)
<1> DEFINE Goal == /\ DOMAIN t.s = Fields
                   /\ ~IsVGPR(ins.d) => Typed(t.s)
                   /\ ~t.s.fail => Allocated(t, s, ins) /\ Complete(t.s, s, ins)
<1>1. PICK x : x = Start(s, ins)
  BY Zenon
<1>2. x.s = s /\ x.avoid = FIXED /\ x.ins = ins /\ DOMAIN x = {"s", "avoid", "ins"}
  BY <1>1, Zenon DEF Start
<1>3. PICK K : K = {}
  BY Zenon
<1>4. Carries(x, ins, K) /\ Held(x, s, ins, K) /\ K \in SUBSET DOMAIN ins.s
  <2>1. Carries(x, ins, K)
    BY <1>2, <1>3, OperandFacts, Zenon DEF Carries, Allocator
  <2>2. Held(x, s, ins, K)
    BY <1>2, <1>3, Zenon DEF Held
  <2> QED
    BY <1>3, <2>1, <2>2, Zenon
<1>5. ASSUME NEW z, Carries(z, ins, DOMAIN ins.s), z.s.mem[0] = s.mem[0],
             ~z.s.fail => Held(z, s, ins, DOMAIN ins.s), t = AllocDst(SyncSideeff(z))
      PROVE  Goal
  <2>1. PICK w : w = SyncSideeff(z)
    BY Zenon
  <2>2. /\ Carries(w, ins, DOMAIN ins.s)
        /\ z.s.fail => w.s.fail
        /\ w.s.mem[0] = z.s.mem[0]
        /\ ins.op \in {"vmload", "vmstore"} /\ Allocator(z.s) => Flushed(w.s)
    BY <1>5, <2>1, SyncSideeffKeeps
  <2>3. /\ DOMAIN t.s = Fields /\ (~IsVGPR(ins.d) => Typed(t.s))
        /\ w.s.fail => t.s.fail
    BY <1>5, <2>1, <2>2, AllocDstStays, Zenon
  <2>4. ~w.s.fail => Held(w, s, ins, DOMAIN ins.s)
    BY <1>5, <2>1, <2>2, SyncSideeffKeeps, Zenon
  <2>5. ~t.s.fail => Allocated(t, s, ins)
    BY <1>5, <2>1, <2>2, <2>3, <2>4, AllocDstKeeps, Zenon
  <2>6. /\ t.s.mem[0] = w.s.mem[0]
        /\ Allocator(w.s) /\ Flushed(w.s) => t.s.mem = w.s.mem
    <3>1. Carries(w, ins, DOMAIN ins.s) /\ t = AllocDst(w)
      BY <1>5, <2>1, <2>2, Zenon
    <3> QED
      BY <3>1, AllocDstFlushed
  <2>7. ASSUME ~t.s.fail, ins.op \in {"vmload", "vmstore"}, NEW e, NEW g \in Gprs, Kept(s, e, g)
        PROVE  t.s.mem[g] = e[g]
    <3>1. Held(z, s, ins, DOMAIN ins.s) /\ Held(w, s, ins, DOMAIN ins.s)
      BY <1>5, <2>2, <2>3, <2>4, <2>7, Zenon
    <3>2. Allocator(z.s) /\ Allocator(w.s)
      BY <3>1, Zenon DEF Held
    <3>3. Flushed(w.s)
      BY <2>2, <2>7, <3>2, Zenon
    <3>4. Kept(w.s, e, g)
      BY <2>7, <3>1, RegsFacts, Zenon DEF Held
    <3>5. w.s.mem[g] = e[g]
      BY <3>3, <3>4, Zenon DEF Flushed, Kept, Global
    <3>6. t.s.mem = w.s.mem
      BY <2>6, <3>2, <3>3, Zenon
    <3> QED
      BY <3>5, <3>6, Zenon
  <2>8. ~t.s.fail => Complete(t.s, s, ins)
    BY <1>5, <2>2, <2>6, <2>7, Zenon DEF Complete
  <2> QED
    BY <2>3, <2>5, <2>8, Zenon
<1> HIDE DEF Goal
<1>6. ASSUME DOMAIN ins.s = {1}, t = AllocDst(SyncSideeff(AllocSrc(x, 1))) PROVE Goal
  <2>1. PICK z, I : z = AllocSrc(x, 1) /\ I = K \cup {1}
    BY Zenon
  <2>2. I = DOMAIN ins.s /\ 1 \in DOMAIN ins.s /\ 1 \notin K
    BY <1>3, <1>6, <2>1, Zenon
  <2>3. Carries(z, ins, I) /\ z.s.mem[0] = s.mem[0]
    <3>1. Carries(z, ins, I) /\ z.s.mem[0] = x.s.mem[0]
      BY <1>4, <2>1, <2>2, AllocSrcStays
    <3> QED
      BY <1>2, <3>1, Zenon
  <2>4. ~z.s.fail => Held(z, s, ins, I)
    BY <1>4, <2>1, <2>2, AllocSrcKeeps
  <2>5. t = AllocDst(SyncSideeff(z))
    BY <1>6, <2>1, Zenon
  <2>6. Carries(z, ins, DOMAIN ins.s) /\ (~z.s.fail => Held(z, s, ins, DOMAIN ins.s))
    BY <2>2, <2>3, <2>4, Zenon
  <2> QED
    BY <1>5, <2>3, <2>5, <2>6, Zenon
<1>7. ASSUME NEW i, NEW j, i \in {1, 2}, j \in {1, 2}, i # j, DOMAIN ins.s = {1, 2},
             t = AllocDst(SyncSideeff(AllocSrc(AllocSrc(x, i), j)))
      PROVE  Goal
  <2>1. PICK y, z, I, J : /\ y = AllocSrc(x, i) /\ z = AllocSrc(y, j)
                          /\ I = K \cup {i} /\ J = I \cup {j}
    BY Zenon
  <2>2. /\ i \in DOMAIN ins.s /\ i \notin K
        /\ I \in SUBSET DOMAIN ins.s /\ j \in DOMAIN ins.s /\ j \notin I
        /\ J = DOMAIN ins.s
    BY <1>3, <1>7, <2>1
  <2>3. Carries(y, ins, I) /\ y.s.mem[0] = s.mem[0]
    <3>1. Carries(y, ins, I) /\ y.s.mem[0] = x.s.mem[0]
      BY <1>4, <2>1, <2>2, AllocSrcStays
    <3> QED
      BY <1>2, <3>1, Zenon
  <2>4. Carries(z, ins, J) /\ (y.s.fail => z.s.fail) /\ z.s.mem[0] = s.mem[0]
    <3>1. Carries(z, ins, J) /\ (y.s.fail => z.s.fail) /\ z.s.mem[0] = y.s.mem[0]
      BY <2>1, <2>2, <2>3, AllocSrcStays
    <3> QED
      BY <2>3, <3>1, Zenon
  <2>5. ~y.s.fail => Held(y, s, ins, I)
    BY <1>4, <2>1, <2>2, AllocSrcKeeps, Zenon
  <2>6. ~z.s.fail => Held(z, s, ins, J)
    BY <2>1, <2>2, <2>3, <2>4, <2>5, AllocSrcKeeps
  <2>7. t = AllocDst(SyncSideeff(z))
    BY <1>7, <2>1, Zenon
  <2>8. Carries(z, ins, DOMAIN ins.s) /\ (~z.s.fail => Held(z, s, ins, DOMAIN ins.s))
    BY <2>2, <2>4, <2>6, Zenon
  <2> QED
    BY <1>5, <2>4, <2>7, <2>8, Zenon
<1>8. Goal
  <2>1. CASE /\ DOMAIN ins.s = {1}
             /\ AllocOp(s, ins) = AllocDst(SyncSideeff(AllocSrc(Start(s, ins), 1)))
    BY <1>1, <1>6, <2>1, Zenon
  <2>2. CASE /\ DOMAIN ins.s = {1, 2}
             /\ \E i, j : /\ i \in {1, 2} /\ j \in {1, 2} /\ i # j
                          /\ AllocOp(s, ins) =
                               AllocDst(SyncSideeff(AllocSrc(AllocSrc(Start(s, ins), i), j)))
    <3>1. PICK i, j : /\ i \in {1, 2} /\ j \in {1, 2} /\ i # j
                      /\ t = AllocDst(SyncSideeff(AllocSrc(AllocSrc(x, i), j)))
      BY <1>1, <2>2, Zenon
    <3> QED
      BY <1>7, <2>2, <3>1, Zenon
  <2> QED
    BY <2>1, <2>2, AllocOpUnfolded, Zenon
<1> QED
  BY <1>8, Zenon DEF Goal

-----------------------------------------------------------------------------
(* Emit *)

\* The values of the inputs of ins where the registers of the region hold e.
Source(ins, e) ==
  [k \in DOMAIN ins.s |-> IF IsVGPR(ins.s[k]) THEN e[ins.s[k][2]] ELSE ins.s[k]]

\* The inputs of ins that are registers of the region are where they should be.
InputsKept(s, e, ins) == \A k \in DOMAIN ins.s : IsVGPR(ins.s[k]) => Kept(s, e, ins.s[k][2])

\* The machine operands of an allocated instruction have the values of its inputs.
LEMMA ValsOfInputs ==
  ASSUME NEW s, NEW e, NEW ins, Constrained(ins), InputsKept(s, e, ins),
         NEW t, Allocated(t, s, ins)
  PROVE  Vals(t.s, t.ins) = Source(ins, e)
<1>1. ASSUME NEW k \in DOMAIN ins.s
      PROVE  Val(t.s, t.ins.s[k]) = IF IsVGPR(ins.s[k]) THEN e[ins.s[k][2]] ELSE ins.s[k]
  <2>1. CASE IsVGPR(ins.s[k])
    <3>1. PICK p \in PRegs : t.ins.s[k] = P(p) /\ t.s.reg[p] = e[ins.s[k][2]]
      BY <2>1, Zenon DEF Allocated, InReg, InputsKept
    <3> QED
      BY <2>1, <3>1 DEF Val, P
  <2>2. CASE ~IsVGPR(ins.s[k])
    <3>1. t.ins.s[k] = ins.s[k] /\ ins.s[k][1] # "p"
      BY <2>2, OperandFacts, Zenon DEF Allocated
    <3> QED
      BY <2>2, <3>1, Zenon DEF Val
  <2> QED
    BY <2>1, <2>2, Zenon
<1>2. DOMAIN t.ins.s = DOMAIN ins.s
  BY Zenon DEF Allocated
<1> QED
  BY <1>1, <1>2, Zenon DEF Vals, Source

\* u is s with the operation ins done and its result res.
Done(u, s, ins, e, res) ==
  /\ Allocator(u)
  /\ ~IsVGPR(ins.d) => \A w \in VRegs : Kept(s, e, w) => Kept(u, e, w)
  /\ IsVGPR(ins.d) => \A w \in VRegs : Kept(s, e, w) \/ w = ins.d[2] =>
                                         Kept(u, [e EXCEPT ![ins.d[2]] = res], w)

\* The slot of ip belongs to no register of the region.
LEMMA IpWritten ==
  ASSUME NEW s, Allocator(s), NEW val, NEW t, t = [s EXCEPT !.mem[0] = val]
  PROVE  /\ Allocator(t)
         /\ t.reg = s.reg
         /\ \A e : \A w \in VRegs : Kept(s, e, w) => Kept(t, e, w)
<1>1. /\ DOMAIN t = Fields /\ t.fail = s.fail
      /\ t.loc = s.loc /\ t.p = s.p /\ t.p2v = s.p2v /\ t.synced = s.synced
      /\ t.reg = s.reg /\ t.frm = s.frm /\ t.offs = s.offs /\ t.frame = s.frame
      /\ t.mem = [s.mem EXCEPT ![0] = val]
  BY Zenon DEF Allocator, Typed, Fields
<1>2. DOMAIN t.mem = 0 .. N_GPR /\ \A g \in Gprs : t.mem[g] = s.mem[g]
  BY <1>1, MachineAssumption DEF Allocator, Typed, Gprs
<1>3. Typed(t)
  BY <1>1, <1>2, Zenon DEF Allocator, Typed
<1>4. Coherent(t) /\ Slots(t) /\ \A g \in Gprs : t.loc[g] # "DEAD"
  BY <1>1 DEF Allocator, Coherent, Slots
<1>5. ASSUME NEW e, NEW w \in VRegs, Kept(s, e, w) PROVE Kept(t, e, w)
  BY <1>1, <1>2, <1>5, Zenon DEF Kept, InSlot, Global
<1> QED
  BY <1>1, <1>3, <1>4, <1>5, Zenon DEF Allocator

\* Put, by its cases.
LEMMA PutCases ==
  ASSUME NEW s, NEW d, NEW val
  PROVE  /\ d[1] = "p" => Put(s, d, val) = [s EXCEPT !.reg[d[2]] = val]
         /\ d = IpSlot => Put(s, d, val) = [s EXCEPT !.mem[0] = val]
         /\ d[1] # "p" /\ d # IpSlot => Put(s, d, val) = Fail(s)
<1>1. ~(d[1] = "p" /\ d = IpSlot)
  BY DEF IpSlot
<1>2. ASSUME d[1] = "p" PROVE Put(s, d, val) = [s EXCEPT !.reg[d[2]] = val]
  BY <1>1, <1>2, Zenon DEF Put
<1>3. ASSUME d = IpSlot PROVE Put(s, d, val) = [s EXCEPT !.mem[0] = val]
  BY <1>1, <1>3, Zenon DEF Put
<1>4. ASSUME d[1] # "p", d # IpSlot PROVE Put(s, d, val) = Fail(s)
  BY <1>4, Zenon DEF Put
<1> QED
  BY <1>2, <1>3, <1>4, Zenon

\* Writing the result of an allocated instruction.
LEMMA PutKeeps ==
  ASSUME NEW s, NEW e, DOMAIN e = VRegs, NEW ins, Constrained(ins),
         NEW t, Allocated(t, s, ins), NEW res, NEW u, u = Put(t.s, t.ins.d, res), ~u.fail
  PROVE  Done(u, s, ins, e, res)
<1>1. Allocator(t.s) /\ Typed(t.s)
  BY Zenon DEF Allocated, Allocator
<1>2. CASE IsVGPR(ins.d)
  <2>1. PICK v, q : v = ins.d[2] /\ q = t.s.p[v]
    BY Zenon
  <2>2. v \in VRegs /\ t.s.loc[v] = "REG" /\ ~t.s.synced[v] /\ t.ins.d = P(q)
    BY <1>2, <2>1, OperandFacts, Zenon DEF Allocated
  <2>3. q \in PRegs /\ t.s.p2v[q] = v
    BY <1>1, <2>1, <2>2, Zenon DEF Allocator, Coherent, Typed
  <2>4. u = [t.s EXCEPT !.reg[q] = res]
    <3>1. t.ins.d[1] = "p" /\ t.ins.d[2] = q
      BY <2>2 DEF P
    <3> QED
      BY <3>1, PutCases
  <2>5. Wrote(t.s, u, q, res) /\ u.reg[q] = res /\ OthersKept(t.s, u, v)
    <3>1. PICK x : x = t.s
      BY Zenon
    <3>2. Typed(x) /\ Allocator(x) /\ u = [x EXCEPT !.reg[q] = res] /\ x.p2v[q] = v
      BY <1>1, <2>3, <2>4, <3>1, Zenon
    <3>3. Wrote(x, u, q, res)
      BY <2>3, <3>2, WroteKeeps, Zenon
    <3>4. u.reg[q] = res
      BY <2>3, <3>2, <3>3, Zenon DEF Wrote, Typed
    <3>5. OthersKept(x, u, x.p2v[q])
      BY <2>3, <3>2, WroteKeeps, Zenon
    <3> QED
      BY <3>1, <3>2, <3>3, <3>4, <3>5, Zenon
  <2>6. PICK e2 : e2 = [e EXCEPT ![v] = res]
    BY Zenon
  <2>7. e2[v] = res /\ \A w \in VRegs : w # v => e2[w] = e[w]
    BY <2>2, <2>6, Zenon
  <2>8. Kept(u, e2, v)
    BY <2>1, <2>2, <2>5, <2>7, Zenon DEF Kept, InSlot, Wrote
  <2>9. ASSUME NEW w \in VRegs, w # v, Kept(s, e, w) PROVE Kept(u, e2, w)
    <3>1. Kept(t.s, e, w)
      BY <1>2, <2>1, <2>9, Zenon DEF Allocated
    <3>2. Kept(u, e, w)
      BY <2>5, <2>9, <3>1, Zenon DEF OthersKept
    <3> QED
      BY <2>7, <2>9, <3>2, Zenon DEF Kept
  <2>10. Allocator(u)
    BY <2>5, Zenon DEF OthersKept
  <2> QED
    BY <1>2, <2>1, <2>6, <2>8, <2>9, <2>10, Zenon DEF Done
<1>3. CASE ~IsVGPR(ins.d)
  <2>1. t.ins.d = ins.d /\ ins.d[1] # "p"
    BY <1>3, OperandFacts, Zenon DEF Allocated
  <2>2. CASE ins.d = IpSlot
    <3>1. u = [t.s EXCEPT !.mem[0] = res]
      BY <2>1, <2>2, PutCases
    <3>2. Allocator(u) /\ \A w \in VRegs : Kept(t.s, e, w) => Kept(u, e, w)
      BY <1>1, <3>1, IpWritten, Zenon
    <3>3. \A w \in VRegs : Kept(s, e, w) => Kept(t.s, e, w)
      BY <1>3, Zenon DEF Allocated
    <3> QED
      BY <1>3, <3>2, <3>3, Zenon DEF Done
  <2>3. CASE ins.d # IpSlot
    <3>1. u = Fail(t.s)
      BY <2>1, <2>3, PutCases
    <3> QED
      BY <1>1, <3>1, Zenon DEF Fail, Typed, Fields
  <2> QED
    BY <2>2, <2>3, Zenon
<1> QED
  BY <1>2, <1>3, Zenon

\* What Emit does, by the operation.
LEMMA EmitCases ==
  ASSUME NEW s, NEW ins
  PROVE  /\ ins.op = "setcc" => Emit(s, ins) = EmitSetcc(s, ins)
         /\ ins.op \in Binops => Emit(s, ins) = EmitBinop(s, ins)
         /\ ins.op \in {"mov", "vmload"} =>
              Emit(s, ins) = Put(s, ins.d, Apply(ins.op, ins.at, Vals(s, ins)))
         /\ ins.op = "gbrind" => Emit(s, ins) = IF ins.s[1] = P(RSI) THEN s ELSE Fail(s)
         /\ ins.op \in {"vmstore", "br", "brcc", "gbr"} => Emit(s, ins) = s
<1>1. ASSUME ins.op = "setcc" PROVE Emit(s, ins) = EmitSetcc(s, ins)
  <2>1. ins.op \notin Binops /\ ins.op \notin {"mov", "vmload"} /\ ins.op # "gbrind"
    BY <1>1, Zenon DEF Binops, ArithmRR
  <2> QED
    BY <1>1, <2>1, Zenon DEF Emit
<1>2. ASSUME ins.op \in Binops PROVE Emit(s, ins) = EmitBinop(s, ins)
  <2>1. ins.op # "setcc" /\ ins.op \notin {"mov", "vmload"} /\ ins.op # "gbrind"
    BY <1>2, Zenon DEF Binops, ArithmRR
  <2> QED
    BY <1>2, <2>1, Zenon DEF Emit
<1>3. ASSUME ins.op \in {"mov", "vmload"}
      PROVE  Emit(s, ins) = Put(s, ins.d, Apply(ins.op, ins.at, Vals(s, ins)))
  <2>1. ins.op # "setcc" /\ ins.op \notin Binops /\ ins.op # "gbrind"
    BY <1>3, Zenon DEF Binops, ArithmRR
  <2> QED
    BY <1>3, <2>1, Zenon DEF Emit
<1>4. ASSUME ins.op = "gbrind"
      PROVE  Emit(s, ins) = IF ins.s[1] = P(RSI) THEN s ELSE Fail(s)
  <2>1. ins.op # "setcc" /\ ins.op \notin Binops /\ ins.op \notin {"mov", "vmload"}
    BY <1>4, Zenon DEF Binops, ArithmRR
  <2> QED
    BY <1>4, <2>1, Zenon DEF Emit
<1>5. ASSUME ins.op \in {"vmstore", "br", "brcc", "gbr"} PROVE Emit(s, ins) = s
  <2>1. /\ ins.op # "setcc" /\ ins.op \notin Binops /\ ins.op \notin {"mov", "vmload"}
        /\ ins.op # "gbrind"
    BY <1>5, Zenon DEF Binops, ArithmRR
  <2> QED
    BY <2>1, Zenon DEF Emit
<1> QED
  BY <1>1, <1>2, <1>3, <1>4, <1>5, Zenon

\* Clearing the output of a setcc before the comparison leaves its inputs.
LEMMA SetccInputs ==
  ASSUME NEW s, NEW ins, Constrained(ins), ins.op = "setcc", NEW t, Allocated(t, s, ins),
         t.ins.d \notin {t.ins.s[1], t.ins.s[2]}
  PROVE  Vals(Put(t.s, t.ins.d, C(0)), t.ins) = Vals(t.s, t.ins)
<1>1. DOMAIN t.ins.s = {1, 2}
  <2>1. Len(RaCt["setcc"].in) = 2
    BY Zenon DEF RaCt, Ct, In
  <2>2. DOMAIN ins.s = 1 .. 2
    BY <2>1, OperandFacts
  <2>3. DOMAIN t.ins.s = DOMAIN ins.s
    BY Zenon DEF Allocated
  <2> QED
    BY <2>2, <2>3
<1>2. Typed(t.s) /\ DOMAIN t.s = Fields
  BY Zenon DEF Allocated, Allocator, Typed
<1>3. PICK x, u, d : x = t.s /\ u = Put(t.s, t.ins.d, C(0)) /\ d = t.ins.d
  BY Zenon
<1>4. ASSUME NEW k \in DOMAIN t.ins.s PROVE Val(u, t.ins.s[k]) = Val(x, t.ins.s[k])
  <2>1. PICK o : o = t.ins.s[k] /\ o # d
    BY <1>1, <1>3, Zenon
  <2>2. CASE o[1] # "p"
    BY <2>1, <2>2, Zenon DEF Val
  <2>3. CASE o[1] = "p"
    <3>1. PICK p \in PRegs : o = P(p)
      <4>1. k \in DOMAIN ins.s
        BY Zenon DEF Allocated
      <4>2. IsVGPR(ins.s[k])
        BY <2>1, <2>3, <4>1, OperandFacts DEF Allocated
      <4> QED
        BY <2>1, <4>1, <4>2, Zenon DEF Allocated, InReg
    <3>2. u.reg[p] = x.reg[p]
      <4>1. CASE IsVGPR(ins.d)
        <5>1. PICK q : d = P(q)
          BY <1>3, <4>1, Zenon DEF Allocated
        <5>2. d[1] = "p" /\ d[2] = q /\ p # q
          BY <2>1, <3>1, <5>1, Zenon DEF P
        <5>3. u = [x EXCEPT !.reg[q] = C(0)]
          BY <1>3, <5>2, PutCases
        <5>4. u.reg = [x.reg EXCEPT ![q] = C(0)]
          BY <1>2, <1>3, <5>3, Zenon DEF Fields
        <5> QED
          BY <1>2, <1>3, <5>2, <5>4, Zenon DEF Typed
      <4>2. CASE ~IsVGPR(ins.d)
        <5>1. d[1] # "p"
          BY <1>3, <4>2, OperandFacts, Zenon DEF Allocated
        <5>2. u = [x EXCEPT !.mem[0] = C(0)] \/ u = Fail(x)
          BY <1>3, <5>1, PutCases
        <5>3. u.reg = x.reg
          BY <1>2, <1>3, <5>2, Zenon DEF Fields, Fail
        <5> QED
          BY <5>3, Zenon
      <4> QED
        BY <4>1, <4>2, Zenon
    <3> QED
      BY <2>1, <3>1, <3>2 DEF Val, P
  <2> QED
    BY <2>2, <2>3, Zenon
<1> QED
  BY <1>3, <1>4, Zenon DEF Vals

\* An instruction that is allocated and emitted does what QuickIR says, and
\* disturbs no other register.
LEMMA EmitKeeps ==
  ASSUME NEW s, NEW e, DOMAIN e = VRegs, NEW ins, Constrained(ins), InputsKept(s, e, ins),
         ins.op \in {"mov", "setcc", "vmload", "vmstore"} \cup Binops,
         NEW t, Allocated(t, s, ins), NEW u, u = Emit(t.s, t.ins), ~u.fail
  PROVE  Done(u, s, ins, e, Apply(ins.op, ins.at, Source(ins, e)))
<1>1. PICK res : res = Apply(ins.op, ins.at, Source(ins, e))
  BY Zenon
<1>2. /\ t.ins.op = ins.op /\ t.ins.at = ins.at /\ Vals(t.s, t.ins) = Source(ins, e)
      /\ Allocator(t.s) /\ Typed(t.s) /\ DOMAIN t.s = Fields
  <2>1. Vals(t.s, t.ins) = Source(ins, e)
    BY ValsOfInputs, Zenon
  <2> QED
    BY <2>1, Zenon DEF Allocated, Allocator, Typed
<1>3. u = Put(t.s, t.ins.d, res) \/ u = Fail(t.s) \/ (ins.op = "vmstore" /\ u = t.s)
  <2>1. CASE ins.op \in {"mov", "vmload"}
    <3>1. u = Put(t.s, t.ins.d, Apply(t.ins.op, t.ins.at, Vals(t.s, t.ins)))
      BY <1>2, <2>1, EmitCases, Zenon
    <3> QED
      BY <1>1, <1>2, <3>1, Zenon
  <2>2. CASE ins.op = "setcc"
    <3>1. u = EmitSetcc(t.s, t.ins)
      BY <1>2, <2>2, EmitCases
    <3>2. CASE t.ins.d \in {t.ins.s[1], t.ins.s[2]}
      <4>1. u = Put(t.s, t.ins.d, Apply("setcc", t.ins.at, Vals(t.s, t.ins)))
        BY <3>1, <3>2, Zenon DEF EmitSetcc
      <4> QED
        BY <1>1, <1>2, <2>2, <4>1, Zenon
    <3>3. CASE t.ins.d \notin {t.ins.s[1], t.ins.s[2]}
      <4>1. u = Put(t.s, t.ins.d,
                    Apply("setcc", t.ins.at, Vals(Put(t.s, t.ins.d, C(0)), t.ins)))
        BY <3>1, <3>3, Zenon DEF EmitSetcc
      <4>2. Vals(Put(t.s, t.ins.d, C(0)), t.ins) = Vals(t.s, t.ins)
        BY <2>2, <3>3, SetccInputs, Zenon
      <4> QED
        BY <1>1, <1>2, <2>2, <4>1, <4>2, Zenon
    <3> QED
      BY <3>2, <3>3, Zenon
  <2>3. CASE ins.op \in Binops
    <3>1. u = EmitBinop(t.s, t.ins)
      BY <1>2, <2>3, EmitCases, Zenon
    <3>2. u = Put(t.s, t.ins.d, Apply(t.ins.op, t.ins.at, Vals(t.s, t.ins))) \/ u = Fail(t.s)
      BY <3>1, Zenon DEF EmitBinop
    <3> QED
      BY <1>1, <1>2, <3>2, Zenon
  <2>4. CASE ins.op = "vmstore"
    BY <1>2, <2>4, EmitCases, Zenon
  <2> QED
    BY <2>1, <2>2, <2>3, <2>4, Zenon
<1>4. CASE u = Put(t.s, t.ins.d, res)
  BY <1>1, <1>4, PutKeeps, Zenon
<1>5. CASE u = Fail(t.s)
  BY <1>2, <1>5, Zenon DEF Fail, Fields
<1>6. CASE ins.op = "vmstore" /\ u = t.s
  <2>1. ~IsVGPR(ins.d)
    BY <1>6, OperandAssumption, Zenon DEF Constrained
  <2> QED
    BY <1>2, <1>6, <2>1, Zenon DEF Done, Allocated
<1> QED
  BY <1>3, <1>4, <1>5, <1>6, Zenon

=============================================================================
