-------------------------- MODULE QRegAllocAccess --------------------------
(***************************************************************************)
(* The QuickIR of a load or a store, for any operands: it stores ip first, *)
(* changes no guest register before it accesses the memory, and accesses   *)
(* the memory at its end (Access). RV32Translator emits it so, and neither *)
(* the folder nor QSel undoes it: what they put before an instruction      *)
(* writes locals only (Locals).                                            *)
(***************************************************************************)
EXTENDS QRegAlloc, TLAPS

\* The operations that access the guest's memory.
Accesses == {"vmload", "vmstore"}

\* The guest instructions that access the memory.
MemInsns == DOMAIN Loads \cup DOMAIN Stores

\* The instruction that stores ip.
StoreIp == Mov(IpSlot, Pc(0))

\* x writes a local.
Silent(x) == x.op \in {"mov", "add"} /\ IsVGPR(x.d) /\ x.d[2] \notin Gprs

\* c accesses the memory at its end, and changes no guest register before.
Access(c) ==
  /\ c # <<>> /\ c[Len(c)].op \in Accesses /\ c[Len(c)].d # IpSlot
  /\ \A k \in 1 .. Len(c) - 1 : Silent(c[k]) \/ c[k] = StoreIp

\* The operations of an access are not each other.
LEMMA AccessOps ==
  /\ StoreIp.op = "mov" /\ StoreIp.op \notin Accesses /\ ~IsVGPR(StoreIp.d) /\ StoreIp.d = IpSlot
  /\ StoreIp.at = "" /\ DOMAIN StoreIp.s = {1} /\ StoreIp.s[1] = Pc(0) /\ ~Silent(StoreIp)
  /\ \A x : Silent(x) => x.op \notin Accesses /\ x.d # IpSlot
<1>1. StoreIp = [op |-> "mov", at |-> "", d |-> IpSlot, s |-> <<Pc(0)>>]
  BY Zenon DEF StoreIp, Mov, Inst
<1>2. /\ StoreIp.op = "mov" /\ StoreIp.d = IpSlot /\ StoreIp.at = "" /\ StoreIp.s = <<Pc(0)>>
  BY <1>1, Zenon
<1>3. \A x : IsVGPR(x) => x # IpSlot
  BY SMT DEF IsVGPR, IpSlot
<1>4. DOMAIN StoreIp.s = {1} /\ StoreIp.s[1] = Pc(0)
  <2>1. PICK y : y = Pc(0)
    BY Zenon
  <2>2. DOMAIN <<y>> = {1} /\ <<y>>[1] = y
    BY SMT
  <2> QED
    BY <1>2, <2>1, <2>2, Zenon
<1>5. "mov" \notin Accesses /\ "add" \notin Accesses
  BY Zenon DEF Accesses
<1>6. \A x : Silent(x) => x.op \notin Accesses /\ x.d # IpSlot
  BY <1>3, <1>5, Zenon DEF Silent
<1> QED
  BY <1>2, <1>3, <1>4, <1>5, <1>6, Zenon

-----------------------------------------------------------------------------
(* Sequences of instructions *)

\* c writes locals only.
Locals(c) == \E S : c \in Seq(S) /\ \A x \in S : Silent(x)

\* c stores ip, and writes locals only.
Begun(c) ==
  /\ c # <<>> /\ c[1] = StoreIp
  /\ \E S : c \in Seq(S) /\ \A x \in S : Silent(x) \/ x = StoreIp

\* Sequences of one instruction and of none.
LEMMA LocalsFacts ==
  /\ Locals(<<>>)
  /\ \A x : Silent(x) => Locals(<<x>>)
  /\ Begun(<<StoreIp>>)
<1>1. ASSUME NEW x PROVE <<x>> \in Seq({x}) /\ <<x>> # <<>> /\ <<x>>[1] = x
  BY SMT
<1>2. PICK E : E = {}
  BY Zenon
<1>3. Locals(<<>>)
  <2>1. <<>> \in Seq(E)
    BY SMT
  <2>2. \A y \in E : Silent(y)
    BY <1>2, Zenon
  <2> QED
    BY <2>1, <2>2, Zenon DEF Locals
<1>4. ASSUME NEW x, Silent(x) PROVE Locals(<<x>>)
  <2>1. PICK S : S = {x}
    BY Zenon
  <2>2. <<x>> \in Seq(S) /\ \A y \in S : Silent(y)
    BY <1>1, <1>4, <2>1, Zenon
  <2> QED
    BY <2>2, Zenon DEF Locals
<1>5. Begun(<<StoreIp>>)
  <2>1. PICK S : S = {StoreIp}
    BY Zenon
  <2>2. <<StoreIp>> \in Seq(S) /\ \A y \in S : Silent(y) \/ y = StoreIp
    BY <1>1, <2>1, Zenon
  <2> QED
    BY <1>1, <2>2, Zenon DEF Begun
<1> QED
  BY <1>3, <1>4, <1>5, Zenon

\* Two sequences, one after the other.
LEMMA JoinFacts ==
  ASSUME NEW A, NEW B, NEW a \in Seq(A), NEW b \in Seq(B)
  PROVE  /\ a \o b \in Seq(A \cup B)
         /\ Len(a \o b) = Len(a) + Len(b)
         /\ \A k \in 1 .. Len(a) : (a \o b)[k] = a[k] /\ a[k] \in A
         /\ a # <<>> => Len(a) > 0 /\ a \o b # <<>> /\ 1 \in 1 .. Len(a)
<1>1. Len(a) \in Nat /\ Len(b) \in Nat /\ a \in Seq(A \cup B) /\ b \in Seq(A \cup B)
  BY SMT
<1>2. a \o b \in Seq(A \cup B) /\ Len(a \o b) = Len(a) + Len(b)
  BY <1>1, SMT
<1>3. \A k \in 1 .. Len(a) : (a \o b)[k] = a[k] /\ a[k] \in A
  BY <1>1, SMT
<1>4. ASSUME a # <<>> PROVE Len(a) > 0 /\ a \o b # <<>> /\ 1 \in 1 .. Len(a)
  <2>1. Len(a) > 0
    BY <1>1, <1>4, SMT
  <2>2. Len(a \o b) > 0
    BY <1>1, <1>2, <2>1, SMT
  <2> QED
    BY <1>1, <1>2, <2>1, <2>2, SMT
<1> QED
  BY <1>2, <1>3, <1>4, Zenon

\* Code that writes locals, one after the other.
LEMMA LocalsJoin ==
  ASSUME NEW a, Locals(a), NEW b, Locals(b)
  PROVE  Locals(a \o b)
<1>1. PICK A : a \in Seq(A) /\ \A x \in A : Silent(x)
  BY Zenon DEF Locals
<1>2. PICK B : b \in Seq(B) /\ \A x \in B : Silent(x)
  BY Zenon DEF Locals
<1>3. a \o b \in Seq(A \cup B)
  BY <1>1, <1>2, JoinFacts, Zenon
<1>4. \A x \in A \cup B : Silent(x)
  BY <1>1, <1>2, Zenon
<1> QED
  BY <1>3, <1>4, Zenon DEF Locals

\* Code that writes locals after the first instructions of an access.
LEMMA BegunJoin ==
  ASSUME NEW a, Begun(a), NEW b, Locals(b)
  PROVE  Begun(a \o b)
<1>1. a # <<>> /\ a[1] = StoreIp
  BY Zenon DEF Begun
<1>2. PICK A : a \in Seq(A) /\ \A x \in A : Silent(x) \/ x = StoreIp
  BY Zenon DEF Begun
<1>3. PICK B : b \in Seq(B) /\ \A x \in B : Silent(x)
  BY Zenon DEF Locals
<1>4. a \o b \in Seq(A \cup B) /\ a \o b # <<>> /\ (a \o b)[1] = a[1]
  BY <1>1, <1>2, <1>3, JoinFacts
<1>5. \A x \in A \cup B : Silent(x) \/ x = StoreIp
  BY <1>2, <1>3, Zenon
<1> QED
  BY <1>1, <1>4, <1>5, Zenon DEF Begun

\* An access after its first instructions.
LEMMA AccessJoin ==
  ASSUME NEW a, Begun(a), NEW x, x.op \in Accesses, x.d # IpSlot, NEW c, c = a \o <<x>>
  PROVE  Access(c) /\ c[1] = StoreIp
<1>1. a # <<>> /\ a[1] = StoreIp
  BY Zenon DEF Begun
<1>2. PICK A : a \in Seq(A) /\ \A y \in A : Silent(y) \/ y = StoreIp
  BY Zenon DEF Begun
<1>3. <<x>> \in Seq({x}) /\ Len(<<x>>) = 1
  BY SMT
<1>4. /\ Len(c) = Len(a) + 1 /\ c # <<>> /\ c[1] = a[1]
      /\ \A k \in 1 .. Len(a) : c[k] = a[k] /\ a[k] \in A
  BY <1>1, <1>2, <1>3, JoinFacts
<1>5. c[Len(c)] = x
  BY <1>2, <1>4, SMT
<1>6. Len(c) - 1 = Len(a)
  BY <1>2, <1>4, SMT
<1>7. \A k \in 1 .. Len(c) - 1 : Silent(c[k]) \/ c[k] = StoreIp
  BY <1>2, <1>4, <1>6, Zenon
<1> QED
  BY <1>1, <1>4, <1>5, <1>7, Zenon DEF Access

-----------------------------------------------------------------------------
(* QSel *)

\* Every local is a register of the region and not a guest's.
LEMMA TempFacts ==
  ASSUME NEW k \in Nat, k > 0
  PROVE  IsVGPR(Temp(k)) /\ Temp(k)[2] \notin Gprs
<1>1. Temp(k)[1] = "v" /\ Temp(k)[2] = N_GPR + k
  BY SMT DEF Temp, V
<1>2. N_GPR + k \notin Gprs
  BY MachineAssumption, SMT DEF Gprs
<1> QED
  BY <1>1, <1>2, Zenon DEF IsVGPR

\* Mov to a local.
LEMMA MovSilent ==
  ASSUME NEW d, IsVGPR(d), d[2] \notin Gprs, NEW o
  PROVE  Silent(Mov(d, o)) /\ Locals(<<Mov(d, o)>>)
<1>1. PICK x : x = Mov(d, o)
  BY Zenon
<1>2. x.op = "mov" /\ x.d = d
  BY <1>1, Zenon DEF Mov, Inst
<1>3. Silent(x)
  BY <1>2, Zenon DEF Silent
<1> QED
  BY <1>1, <1>3, LocalsFacts, Zenon

\* r is x with its operands selected: code that writes locals comes before it.
Selected(r, x) ==
  /\ r.n \in Nat /\ Locals(r.pre)
  /\ DOMAIN r.ins = {"op", "at", "d", "s"} /\ r.ins.op = x.op /\ r.ins.d = x.d

\* x is an instruction whose output, when it is the first input, is a local.
Selectable(x) ==
  /\ DOMAIN x = {"op", "at", "d", "s"}
  /\ x.op \in {"mov", "add"} \cup Accesses
  /\ x.op = "add" => IsVGPR(x.d) /\ x.d[2] \notin Gprs
  /\ Len(x.s) \in {1, 2}

\* A constant that an operand cannot encode goes to a new local.
LEMMA LowerConstSelects ==
  ASSUME NEW r, NEW x, Selected(r, x), NEW k
  PROVE  Selected(LowerConst(r, k), x)
<1>1. CASE LowerConst(r, k) = r
  BY <1>1, Zenon
<1>2. CASE LowerConst(r, k) # r
  <2>1. PICK o, tmp : o = r.ins.s[k] /\ tmp = Temp(r.n + 1)
    BY Zenon
  <2>2. PICK pre, ins : pre = Append(r.pre, Mov(tmp, o)) /\ ins = [r.ins EXCEPT !.s[k] = tmp]
    BY Zenon
  <2>3. LowerConst(r, k) = [n |-> r.n + 1, pre |-> pre, ins |-> ins]
    BY <1>2, <2>1, <2>2, Zenon DEF LowerConst
  <2>4. r.n + 1 \in Nat /\ r.n + 1 > 0
    BY SMT DEF Selected
  <2>5. Silent(Mov(tmp, o))
    BY <2>1, <2>4, TempFacts, MovSilent, Zenon
  <2>6. Locals(pre)
    <3>1. PICK y : y = Mov(tmp, o)
      BY Zenon
    <3>2. PICK S : r.pre \in Seq(S) /\ \A z \in S : Silent(z)
      BY Zenon DEF Selected, Locals
    <3>3. PICK T : T = S \cup {y}
      BY Zenon
    <3>4. pre \in Seq(T)
      BY <2>2, <3>1, <3>2, <3>3, SMT
    <3>5. \A z \in T : Silent(z)
      BY <2>5, <3>1, <3>2, <3>3, Zenon
    <3> QED
      BY <3>4, <3>5, Zenon DEF Locals
  <2>7. DOMAIN ins = {"op", "at", "d", "s"} /\ ins.op = x.op /\ ins.d = x.d
    BY <2>2, Zenon DEF Selected
  <2>8. PICK y : y = LowerConst(r, k)
    BY Zenon
  <2>9. y.n = r.n + 1 /\ y.pre = pre /\ y.ins = ins
    BY <2>3, <2>8
  <2>10. Selected(y, x)
    BY <2>4, <2>6, <2>7, <2>9, Zenon DEF Selected
  <2> QED
    BY <2>8, <2>10, Zenon
<1> QED
  BY <1>1, <1>2, Zenon

\* The copies for an output that is the first input write locals.
LEMMA SatisfyAliasSelects ==
  ASSUME NEW x, Selectable(x), NEW m \in Nat
  PROVE  Selected(SatisfyAlias(x, m), x)
<1>1. PICK live, y : live = (x.s[2] = x.d) /\ y = SatisfyAlias(x, m)
  BY Zenon
<1>2. PICK tmp : tmp = Temp(m + 1)
  BY Zenon
<1>3. CASE SatisfyAlias(x, m) = [n |-> m, pre |-> <<>>, ins |-> x]
  <2>1. y.n = m /\ y.pre = <<>> /\ y.ins = x
    BY <1>1, <1>3
  <2>2. Selected(y, x)
    BY <2>1, LocalsFacts, Zenon DEF Selected, Selectable
  <2> QED
    BY <1>1, <2>2, Zenon
<1>4. CASE SatisfyAlias(x, m) # [n |-> m, pre |-> <<>>, ins |-> x]
  <2>1. RaCt[x.op].alias
    BY <1>4, Zenon DEF SatisfyAlias
  <2>2. x.op = "add"
    <3>1. ~RaCt["mov"].alias /\ ~RaCt["vmload"].alias /\ ~RaCt["vmstore"].alias
      BY Zenon DEF RaCt, Ct
    <3> QED
      BY <2>1, <3>1, Zenon DEF Selectable, Accesses
  <2>3. IsVGPR(x.d) /\ x.d[2] \notin Gprs
    BY <2>2, Zenon DEF Selectable
  <2>4. PICK rest : rest = <<x.d, IF live THEN tmp ELSE x.s[2]>>
    BY Zenon
  <2>5. PICK pre : pre = (IF live THEN <<Mov(tmp, x.d)>> ELSE <<>>) \o <<Mov(x.d, x.s[1])>>
    BY Zenon
  <2>6. PICK ins : ins = [x EXCEPT !.s = rest]
    BY Zenon
  <2>7. SatisfyAlias(x, m) = [n |-> IF live THEN m + 1 ELSE m, pre |-> pre, ins |-> ins]
    BY <1>1, <1>2, <1>4, <2>4, <2>5, <2>6, Zenon DEF SatisfyAlias
  <2>8. m + 1 \in Nat /\ m + 1 > 0
    BY SMT
  <2>9. Locals(pre)
    <3>1. IsVGPR(tmp) /\ tmp[2] \notin Gprs
      BY <1>2, <2>8, TempFacts, Zenon
    <3>2. Locals(<<Mov(tmp, x.d)>>) /\ Locals(<<Mov(x.d, x.s[1])>>) /\ Locals(<<>>)
      BY <2>3, <3>1, MovSilent, LocalsFacts, Zenon
    <3> QED
      BY <2>5, <3>2, LocalsJoin, Zenon
  <2>10. DOMAIN ins = {"op", "at", "d", "s"} /\ ins.op = x.op /\ ins.d = x.d
    BY <2>6, Zenon DEF Selectable
  <2>11. y.n \in {m, m + 1} /\ y.pre = pre /\ y.ins = ins
    <3>1. PICK j \in {m, m + 1} : j = IF live THEN m + 1 ELSE m
      BY Zenon
    <3>2. y = [n |-> j, pre |-> pre, ins |-> ins]
      BY <1>1, <2>7, <3>1, Zenon
    <3> QED
      BY <3>2
  <2>12. Selected(y, x)
    BY <2>8, <2>9, <2>10, <2>11, Zenon DEF Selected
  <2> QED
    BY <1>1, <2>12, Zenon
<1> QED
  BY <1>3, <1>4, Zenon

\* SelectOperands, unfolded.
LEMMA SelectOperandsUnfolded ==
  ASSUME NEW x, NEW m, x.op \in DOMAIN RaCt
  PROVE  /\ Len(x.s) = 1 => SelectOperands(x, m) = LowerConst(SatisfyAlias(x, m), 1)
         /\ Len(x.s) = 2 => SelectOperands(x, m) =
                              LowerConst(LowerConst(SatisfyAlias(x, m), 1), 2)
<1> DEFINE Runs(f) == f = [k \in 0 .. Len(x.s) |->
                             IF k = 0 THEN SatisfyAlias(x, m) ELSE LowerConst(f[k - 1], k)]
           after == CHOOSE f : Runs(f)
<1>1. SelectOperands(x, m) = after[Len(x.s)]
  BY Zenon DEF SelectOperands
<1>2. PICK a, b, c : /\ a = SatisfyAlias(x, m) /\ b = LowerConst(a, 1)
                     /\ c = LowerConst(b, 2)
  BY Zenon
<1>3. ASSUME Len(x.s) = 1 PROVE SelectOperands(x, m) = b
  <2>1. PICK f : f = [k \in 0 .. 1 |-> IF k = 0 THEN a ELSE b]
    BY Zenon
  <2>2. f[0] = a /\ f[1] = b
    BY <2>1
  <2>3. f = [k \in 0 .. 1 |-> IF k = 0 THEN a ELSE LowerConst(f[k - 1], k)]
    BY <1>2, <2>1, <2>2
  <2>4. Runs(f)
    BY <1>2, <1>3, <2>3, Zenon
  <2>5. Runs(after)
    BY <2>4, Zenon
  <2> HIDE DEF after
  <2>6. after[0] = a /\ after[1] = LowerConst(after[0], 1)
    BY <1>2, <1>3, <2>5
  <2> QED
    BY <1>1, <1>2, <1>3, <2>6, Zenon
<1>4. ASSUME Len(x.s) = 2 PROVE SelectOperands(x, m) = c
  <2>1. PICK f : f = [k \in 0 .. 2 |-> IF k = 0 THEN a ELSE IF k = 1 THEN b ELSE c]
    BY Zenon
  <2>2. f[0] = a /\ f[1] = b /\ f[2] = c
    BY <2>1
  <2>3. f = [k \in 0 .. 2 |-> IF k = 0 THEN a ELSE LowerConst(f[k - 1], k)]
    BY <1>2, <2>1, <2>2
  <2>4. Runs(f)
    BY <1>2, <1>4, <2>3, Zenon
  <2>5. Runs(after)
    BY <2>4, Zenon
  <2> HIDE DEF after
  <2>6. after[0] = a /\ after[1] = LowerConst(after[0], 1) /\ after[2] = LowerConst(after[1], 2)
    BY <1>2, <1>4, <2>5
  <2> QED
    BY <1>1, <1>2, <1>4, <2>6, Zenon
<1> QED
  BY <1>2, <1>3, <1>4, Zenon

\* What QSel puts before an instruction of an access writes locals, and the
\* instruction keeps its operation and its output.
LEMMA SelectOperandsSelects ==
  ASSUME NEW x, Selectable(x), NEW m \in Nat
  PROVE  Selected(SelectOperands(x, m), x)
<1>1. x.op \in DOMAIN RaCt
  BY SMT DEF Selectable, Accesses, RaCt
<1>2. PICK a, b, c : /\ a = SatisfyAlias(x, m) /\ b = LowerConst(a, 1)
                     /\ c = LowerConst(b, 2)
  BY Zenon
<1>3. Selected(a, x)
  BY <1>2, SatisfyAliasSelects, Zenon
<1>4. Selected(b, x)
  BY <1>2, <1>3, LowerConstSelects, Zenon
<1>5. Selected(c, x)
  BY <1>2, <1>4, LowerConstSelects, Zenon
<1>6. SelectOperands(x, m) \in {b, c}
  BY <1>1, <1>2, SelectOperandsUnfolded, Zenon DEF Selectable
<1> QED
  BY <1>4, <1>5, <1>6, Zenon

\* QSel leaves the instruction that stores ip.
LEMMA StoreIpSelected ==
  ASSUME NEW m
  PROVE  SelectOperands(StoreIp, m) = [n |-> m, pre |-> <<>>, ins |-> StoreIp]
<1>1. StoreIp.op = "mov" /\ Len(StoreIp.s) = 1
  <2>1. \A y : Len(<<y>>) = 1
    BY SMT
  <2> QED
    BY <2>1, Zenon DEF StoreIp, Mov, Inst
<1>2. /\ "mov" \in DOMAIN RaCt /\ ~RaCt["mov"].alias
      /\ RaCt["mov"].in[1].ci = {"ANY"}
  BY SMT DEF RaCt, Ct, In
<1>3. PICK a : a = SatisfyAlias(StoreIp, m)
  BY Zenon
<1>4. a = [n |-> m, pre |-> <<>>, ins |-> StoreIp]
  BY <1>1, <1>2, <1>3, Zenon DEF SatisfyAlias
<1>5. a.ins = StoreIp
  BY <1>4, Zenon
<1>6. match_gp_const(a.ins.s[1][2], RaCt[a.ins.op].in[1].ci)
  BY <1>1, <1>2, <1>5, Zenon DEF match_gp_const
<1>7. LowerConst(a, 1) = a
  BY <1>6, Zenon DEF LowerConst
<1> QED
  BY <1>1, <1>2, <1>3, <1>4, <1>7, SelectOperandsUnfolded, Zenon

\* QSel::Run over one more instruction.
Chosen(r, x) ==
  LET t == SelectOperands(x, r.n) IN [n |-> t.n, code |-> r.code \o t.pre \o <<t.ins>>]

\* Select, unfolded.
LEMMA SelectUnfolded ==
  ASSUME NEW c, NEW m, NEW r0, r0 = [n |-> m, code |-> <<>>]
  PROVE  /\ Len(c) = 2 => Select(c, m) = Chosen(Chosen(r0, c[1]), c[2])
         /\ Len(c) = 3 => Select(c, m) = Chosen(Chosen(Chosen(r0, c[1]), c[2]), c[3])
<1> DEFINE Runs(f) == f = [k \in 0 .. Len(c) |->
                             LET r == f[k - 1]
                                 t == SelectOperands(c[k], r.n)
                             IN  IF k = 0 THEN [n |-> m, code |-> <<>>]
                                 ELSE [n |-> t.n, code |-> r.code \o t.pre \o <<t.ins>>]]
           Steps(f) == f = [k \in 0 .. Len(c) |-> IF k = 0 THEN r0 ELSE Chosen(f[k - 1], c[k])]
           after == CHOOSE f : Runs(f)
<1>1. Select(c, m) = after[Len(c)]
  BY Zenon DEF Select
<1>2. ASSUME NEW f PROVE Runs(f) <=> Steps(f)
  BY Zenon DEF Chosen
<1>3. PICK r1, r2, r3 : /\ r1 = Chosen(r0, c[1]) /\ r2 = Chosen(r1, c[2])
                        /\ r3 = Chosen(r2, c[3])
  BY Zenon
<1> HIDE DEF Runs
<1>4. ASSUME Len(c) = 2 PROVE Select(c, m) = r2
  <2>1. PICK f : f = [k \in 0 .. 2 |-> IF k = 0 THEN r0 ELSE IF k = 1 THEN r1 ELSE r2]
    BY Zenon
  <2>2. f[0] = r0 /\ f[1] = r1 /\ f[2] = r2
    BY <2>1
  <2>3. f = [k \in 0 .. 2 |-> IF k = 0 THEN r0 ELSE Chosen(f[k - 1], c[k])]
    BY <1>3, <2>1, <2>2
  <2>4. Runs(f)
    BY <1>2, <1>4, <2>3, Zenon
  <2>5. Steps(after)
    BY <1>2, <2>4, Zenon
  <2> HIDE DEF after
  <2>6. after[0] = r0 /\ after[1] = Chosen(after[0], c[1]) /\ after[2] = Chosen(after[1], c[2])
    BY <1>4, <2>5
  <2> QED
    BY <1>1, <1>3, <1>4, <2>6, Zenon
<1>5. ASSUME Len(c) = 3 PROVE Select(c, m) = r3
  <2>1. PICK f : f = [k \in 0 .. 3 |-> IF k = 0 THEN r0 ELSE IF k = 1 THEN r1
                                       ELSE IF k = 2 THEN r2 ELSE r3]
    BY Zenon
  <2>2. f[0] = r0 /\ f[1] = r1 /\ f[2] = r2 /\ f[3] = r3
    BY <2>1
  <2>3. f = [k \in 0 .. 3 |-> IF k = 0 THEN r0 ELSE Chosen(f[k - 1], c[k])]
    BY <1>3, <2>1, <2>2
  <2>4. Runs(f)
    BY <1>2, <1>5, <2>3, Zenon
  <2>5. Steps(after)
    BY <1>2, <2>4, Zenon
  <2> HIDE DEF after
  <2>6. /\ after[0] = r0 /\ after[1] = Chosen(after[0], c[1])
        /\ after[2] = Chosen(after[1], c[2]) /\ after[3] = Chosen(after[2], c[3])
    BY <1>5, <2>5
  <2> QED
    BY <1>1, <1>3, <1>5, <2>6, Zenon
<1> QED
  BY <1>3, <1>4, <1>5, Zenon

\* The first instruction of an access.
LEMMA FirstChosen ==
  ASSUME NEW m \in Nat, NEW r, r = Chosen([n |-> m, code |-> <<>>], StoreIp)
  PROVE  r.n \in Nat /\ Begun(r.code)
<1>1. PICK t : t = [n |-> m, pre |-> <<>>, ins |-> StoreIp]
  BY Zenon
<1>2. SelectOperands(StoreIp, [n |-> m, code |-> <<>>].n) = t
  BY <1>1, StoreIpSelected, Zenon
<1>3. r = [n |-> t.n, code |-> <<>> \o t.pre \o <<t.ins>>]
  BY <1>2, Zenon DEF Chosen
<1>4. t.n = m /\ t.pre = <<>> /\ t.ins = StoreIp
  BY <1>1
<1>5. \A y : <<>> \o <<>> \o <<y>> = <<y>>
  BY SMT
<1>6. r = [n |-> m, code |-> <<StoreIp>>]
  BY <1>3, <1>4, <1>5, Zenon
<1>7. r.n = m /\ r.code = <<StoreIp>>
  BY <1>6
<1> QED
  BY <1>7, LocalsFacts, Zenon

\* The next ones.
LEMMA NextChosen ==
  ASSUME NEW r, r.n \in Nat, Begun(r.code), NEW x, Selectable(x), NEW u, u = Chosen(r, x)
  PROVE  /\ u.n \in Nat
         /\ Silent(x) => Begun(u.code)
         /\ x.op \in Accesses /\ x.d # IpSlot => Access(u.code) /\ u.code[1] = StoreIp
<1>1. PICK t : t = SelectOperands(x, r.n)
  BY Zenon
<1>2. Selected(t, x)
  BY <1>1, SelectOperandsSelects, Zenon
<1>3. PICK a, y : a = r.code \o t.pre /\ y = t.ins
  BY Zenon
<1>4. u = [n |-> t.n, code |-> a \o <<y>>]
  BY <1>1, <1>3, Zenon DEF Chosen
<1>5. u.n = t.n /\ u.code = a \o <<y>>
  BY <1>4
<1>6. Begun(a) /\ y.op = x.op /\ y.d = x.d /\ t.n \in Nat
  BY <1>2, <1>3, BegunJoin, Zenon DEF Selected
<1>7. ASSUME Silent(x) PROVE Begun(u.code)
  <2>1. Silent(y)
    BY <1>6, <1>7, Zenon DEF Silent
  <2> QED
    BY <1>5, <1>6, <2>1, LocalsFacts, BegunJoin, Zenon
<1>8. ASSUME x.op \in Accesses, x.d # IpSlot PROVE Access(u.code) /\ u.code[1] = StoreIp
  BY <1>5, <1>6, <1>8, AccessJoin, Zenon
<1> QED
  BY <1>5, <1>6, <1>7, <1>8, Zenon

-----------------------------------------------------------------------------
(* Builder::Create and RV32Translator *)

\* The folder leaves everything but additions.
LEMMA CreateOther ==
  ASSUME NEW op, op # "add", NEW at, NEW d, NEW s
  PROVE  Create(op, at, d, s) = <<Inst(op, at, d, s)>>
<1>1. PICK x : x = Inst(op, at, d, s)
  BY Zenon
<1>2. x.op = op
  BY <1>1, Zenon DEF Inst
<1>3. Fold(x) = x
  BY <1>2, Zenon DEF Fold
<1> QED
  BY <1>1, <1>3, Zenon DEF Create

\* An addition to a local is folded to an addition or to a mov.
LEMMA CreateAdd ==
  ASSUME NEW d, IsVGPR(d), d[2] \notin Gprs, NEW a, NEW b
  PROVE  \E x : Selectable(x) /\ Silent(x) /\ Create("add", "", d, <<a, b>>) = <<x>>
<1>1. PICK x, s : x = Inst("add", "", d, <<a, b>>) /\ s = IF IsConst(a) THEN <<b, a>> ELSE <<a, b>>
  BY Zenon
<1>2. DOMAIN x = {"op", "at", "d", "s"} /\ x.op = "add" /\ x.d = d /\ x.s = <<a, b>>
  <2>1. PICK at : x = Inst("add", at, d, <<a, b>>)
    BY <1>1, Zenon
  <2> QED
    BY <2>1, SMT DEF Inst
<1>3. x.s[1] = a /\ x.s[2] = b
  BY <1>2
<1>4. \A y, z : Len(<<y>>) = 1 /\ Len(<<y, z>>) = 2
  BY SMT
<1>5. s = IF IsConst(x.s[1]) THEN <<x.s[2], x.s[1]>> ELSE x.s
  BY <1>1, <1>2, <1>3, Zenon
<1>6. PICK f : f = Fold(x)
  BY Zenon
<1>7. \/ \E y : f = Inst("mov", "", d, <<y>>)
      \/ f = [x EXCEPT !.s = s]
  <2>1. CASE IsConst(x.s[1]) /\ IsConst(x.s[2])
    <3>1. IsConst(s[1])
      <4>1. s = <<b, a>>
        BY <1>1, <1>3, <2>1, Zenon
      <4>2. s[1] = b
        BY <4>1
      <4> QED
        BY <1>3, <2>1, <4>2, Zenon
    <3>2. f = Inst("mov", "", x.d, <<C(x.s[1][2] + x.s[2][2])>>)
      BY <1>2, <1>5, <1>6, <2>1, <3>1, Zenon DEF Fold
    <3> QED
      BY <1>2, <3>2, Zenon
  <2>2. CASE ~(IsConst(x.s[1]) /\ IsConst(x.s[2])) /\ ~IsConst(s[1]) /\ s[2] = C(0)
    <3>1. f = Inst("mov", "", x.d, <<s[1]>>)
      BY <1>2, <1>5, <1>6, <2>2, Zenon DEF Fold
    <3> QED
      BY <1>2, <3>1, Zenon
  <2>3. CASE ~(IsConst(x.s[1]) /\ IsConst(x.s[2])) /\ ~(~IsConst(s[1]) /\ s[2] = C(0))
    BY <1>2, <1>5, <1>6, <2>3, Zenon DEF Fold
  <2> QED
    BY <2>1, <2>2, <2>3, Zenon
<1>8. DOMAIN f = {"op", "at", "d", "s"} /\ f.op \in {"mov", "add"} /\ f.d = d /\ Len(f.s) \in {1, 2}
  <2>1. CASE \E y : f = Inst("mov", "", d, <<y>>)
    <3>1. PICK at, y : f = Inst("mov", at, d, <<y>>)
      BY <2>1, Zenon
    <3>2. DOMAIN f = {"op", "at", "d", "s"} /\ f.op = "mov" /\ f.d = d /\ f.s = <<y>>
      BY <3>1, SMT DEF Inst
    <3> QED
      BY <1>4, <3>2, Zenon
  <2>2. CASE f = [x EXCEPT !.s = s]
    <3>1. DOMAIN f = {"op", "at", "d", "s"} /\ f.op = "add" /\ f.d = d /\ f.s = s
      BY <1>2, <2>2, Zenon
    <3>2. Len(s) = 2
      BY <1>1, <1>4, Zenon
    <3> QED
      BY <3>1, <3>2, Zenon
  <2> QED
    BY <1>7, <2>1, <2>2, Zenon
<1>9. Selectable(f) /\ Silent(f)
  BY <1>8, Zenon DEF Selectable, Silent
<1>10. Create("add", "", d, <<a, b>>) = <<f>>
  BY <1>1, <1>6, Zenon DEF Create
<1> QED
  BY <1>9, <1>10, Zenon

\* No register operand is the slot of ip.
LEMMA NotIpSlot ==
  /\ NoOperand # IpSlot
  /\ \A r : V(r) # IpSlot /\ gprop(r) # IpSlot
  /\ \A r : Temp(r) # IpSlot
<1>1. NoOperand # IpSlot
  BY SMT DEF NoOperand, IpSlot
<1>2. \A r : V(r) # IpSlot
  BY SMT DEF V, IpSlot
<1>3. \A r : C(r) # IpSlot
  BY SMT DEF C, IpSlot
<1>4. \A r : gprop(r) # IpSlot
  BY <1>2, <1>3, Zenon DEF gprop
<1> QED
  BY <1>1, <1>2, <1>4, Zenon DEF Temp

\* c stores ip, computes an address in a local or not at all, and accesses the memory.
Accessing(c, y) ==
  /\ Selectable(y) /\ y.op \in Accesses /\ y.d # IpSlot
  /\ \/ c = <<StoreIp>> \o <<y>>
     \/ \E x : Selectable(x) /\ Silent(x) /\ c = <<StoreIp>> \o (<<x>> \o <<y>>)

\* The translation of a load or a store.
LEMMA TranslateAccess ==
  ASSUME NEW i, i.op \in MemInsns, NEW k \in Nat, NEW known, NEW c, c = Translate(i, k, known)
  PROVE  \E y : Accessing(c, y)
<1>1. PICK tmp : tmp = Temp(k + 1)
  BY Zenon
<1>2. IsVGPR(tmp) /\ tmp[2] \notin Gprs
  <2>1. k + 1 \in Nat /\ k + 1 > 0
    BY SMT
  <2> QED
    BY <1>1, <2>1, TempFacts, Zenon
<1>3. PreSideeff(i) = <<StoreIp>>
  <2>1. i.op \in StoresIp
    BY Zenon DEF MemInsns, StoresIp
  <2> QED
    BY <2>1, CreateOther, Zenon DEF PreSideeff, StoreIp, Mov
<1>4. /\ i.op \in {"lb", "lh", "lw", "lbu", "lhu"} <=> i.op \in DOMAIN Loads
      /\ i.op \in {"sb", "sh", "sw"} <=> i.op \in DOMAIN Stores
  BY SMT DEF Loads, Stores
<1>5. i.op \in DOMAIN Loads \/ i.op \in DOMAIN Stores
  BY Zenon DEF MemInsns
<1>6. /\ i.op \notin ArithmRR
      /\ i.op \notin {"lui", "auipc", "jal", "jalr", "ovf"}
      /\ i.op \notin Helpers
      /\ ~(i.op \in DOMAIN Loads /\ i.op \in DOMAIN Stores)
  BY <1>4, <1>5, Zenon DEF ArithmRR, Helpers, Atomics, OtherAtomics, Traps
<1>7. /\ i.op \notin DOMAIN ArithmRI /\ i.op \notin DOMAIN SetccRR /\ i.op \notin DOMAIN SetccRI
      /\ i.op \notin DOMAIN Brcc
  BY <1>4, <1>5, SMT DEF ArithmRI, SetccRR, SetccRI, Brcc
<1>8. c = <<StoreIp>> \o IF i.op \in DOMAIN Loads THEN TranslateLoad(i, tmp)
                          ELSE TranslateStore(i, tmp)
  <2>1. CASE i.op \in DOMAIN Loads
    BY <1>1, <1>3, <1>6, <1>7, <2>1, Zenon DEF Translate
  <2>2. CASE i.op \in DOMAIN Stores
    BY <1>1, <1>3, <1>6, <1>7, <2>2, Zenon DEF Translate
  <2> QED
    BY <1>5, <2>1, <2>2, Zenon
<1>9. \E y : /\ Selectable(y) /\ y.op \in Accesses /\ y.d # IpSlot
             /\ c = <<StoreIp>> \o (EmitAddress(i, tmp) \o <<y>>)
  <2>1. Addr(i, tmp) # IpSlot
    BY <1>1, NotIpSlot, Zenon DEF Addr
  <2>2. \A y, z : Len(<<y>>) = 1 /\ Len(<<y, z>>) = 2
    BY SMT
  <2>3. CASE i.op \in DOMAIN Loads
    <3>1. PICK at, d : at = Loads[i.op] /\ d = IF i.rd = 0 THEN Addr(i, tmp) ELSE V(i.rd)
      BY Zenon
    <3>2. PICK y : y = Inst("vmload", at, d, <<Addr(i, tmp)>>)
      BY Zenon
    <3>3. TranslateLoad(i, tmp) = EmitAddress(i, tmp) \o <<y>>
      BY <3>1, <3>2, CreateOther, Zenon DEF TranslateLoad
    <3>4. DOMAIN y = {"op", "at", "d", "s"} /\ y.op = "vmload" /\ y.d = d /\ Len(y.s) = 1
      <4>1. PICK o : o = Addr(i, tmp)
        BY Zenon
      <4>2. DOMAIN y = {"op", "at", "d", "s"} /\ y.op = "vmload" /\ y.d = d /\ y.s = <<o>>
        BY <3>2, <4>1, SMT DEF Inst
      <4> QED
        BY <2>2, <4>2, Zenon
    <3>5. d # IpSlot
      BY <2>1, <3>1, NotIpSlot, Zenon
    <3>6. Selectable(y) /\ y.op \in Accesses
      BY <3>4, Zenon DEF Selectable, Accesses
    <3> QED
      BY <1>8, <2>3, <3>3, <3>4, <3>5, <3>6, Zenon
  <2>4. CASE i.op \in DOMAIN Stores
    <3>1. PICK at : at = Stores[i.op]
      BY Zenon
    <3>2. PICK y : y = Inst("vmstore", at, NoOperand, <<Addr(i, tmp), gprop(i.rs2)>>)
      BY Zenon
    <3>3. TranslateStore(i, tmp) = EmitAddress(i, tmp) \o <<y>>
      BY <3>1, <3>2, CreateOther, Zenon DEF TranslateStore
    <3>4. DOMAIN y = {"op", "at", "d", "s"} /\ y.op = "vmstore" /\ y.d = NoOperand /\ Len(y.s) = 2
      <4>1. PICK o, q : o = Addr(i, tmp) /\ q = gprop(i.rs2)
        BY Zenon
      <4>2. /\ DOMAIN y = {"op", "at", "d", "s"} /\ y.op = "vmstore" /\ y.d = NoOperand
            /\ y.s = <<o, q>>
        BY <3>2, <4>1, SMT DEF Inst
      <4> QED
        BY <2>2, <4>2, Zenon
    <3>5. Selectable(y) /\ y.op \in Accesses
      BY <3>4, Zenon DEF Selectable, Accesses
    <3> QED
      BY <1>6, <1>8, <2>4, <3>3, <3>4, <3>5, NotIpSlot, Zenon
  <2> QED
    BY <1>5, <2>3, <2>4, Zenon
<1>10. PICK y : /\ Selectable(y) /\ y.op \in Accesses /\ y.d # IpSlot
                /\ c = <<StoreIp>> \o (EmitAddress(i, tmp) \o <<y>>)
  BY <1>9, Zenon
<1>11. CASE i.imm = 0
  <2>1. EmitAddress(i, tmp) = <<>>
    BY <1>11, Zenon DEF EmitAddress
  <2>2. <<>> \o <<y>> = <<y>>
    BY SMT
  <2> QED
    BY <1>10, <2>1, <2>2, Zenon DEF Accessing
<1>12. CASE i.imm # 0
  <2>1. PICK x : Selectable(x) /\ Silent(x) /\ EmitAddress(i, tmp) = <<x>>
    BY <1>2, <1>12, CreateAdd, Zenon DEF EmitAddress
  <2> QED
    BY <1>10, <2>1, Zenon DEF Accessing
<1> QED
  BY <1>11, <1>12, Zenon

-----------------------------------------------------------------------------
(* A guest instruction *)

\* The QuickIR of a load or a store.
LEMMA CompileAccess ==
  ASSUME NEW i, i.op \in MemInsns, NEW k \in Nat, NEW known, NEW q, q = Compile(i, k, known)
  PROVE  Access(q.code) /\ q.code[1] = StoreIp
<1>1. PICK c, m : c = Translate(i, k, known) /\ m = k + TranslateTemps(i)
  BY Zenon
<1>2. m \in Nat
  <2>1. TranslateTemps(i) \in {0, 1}
    BY Zenon DEF TranslateTemps
  <2> QED
    BY <1>1, <2>1, SMT
<1>3. PICK y : Accessing(c, y)
  BY <1>1, TranslateAccess
<1>4. PICK r0, r1 : r0 = [n |-> m, code |-> <<>>] /\ r1 = Chosen(r0, StoreIp)
  BY Zenon
<1>5. r1.n \in Nat /\ Begun(r1.code)
  BY <1>2, <1>4, FirstChosen, Zenon
<1>6. q = Select(c, m)
  BY <1>1, Zenon DEF Compile
<1>7. CASE c = <<StoreIp>> \o <<y>>
  <2>1. PICK z : z = StoreIp
    BY Zenon
  <2>2. c = <<z>> \o <<y>>
    BY <1>7, <2>1, Zenon
  <2>3. Len(c) = 2 /\ c[1] = z /\ c[2] = y
    BY <2>2, SMT
  <2>4. q = Chosen(r1, y)
    BY <1>4, <1>6, <2>1, <2>3, SelectUnfolded, Zenon
  <2> QED
    BY <1>3, <1>5, <2>4, NextChosen, Zenon DEF Accessing
<1>8. CASE \E x : Selectable(x) /\ Silent(x) /\ c = <<StoreIp>> \o (<<x>> \o <<y>>)
  <2>1. PICK x : Selectable(x) /\ Silent(x) /\ c = <<StoreIp>> \o (<<x>> \o <<y>>)
    BY <1>8, Zenon
  <2>2. PICK z : z = StoreIp
    BY Zenon
  <2>3. Len(c) = 3 /\ c[1] = z /\ c[2] = x /\ c[3] = y
    <3>1. c = <<z>> \o (<<x>> \o <<y>>)
      BY <2>1, <2>2, Zenon
    <3> QED
      BY <3>1, SMT
  <2>4. PICK r2 : r2 = Chosen(r1, x)
    BY Zenon
  <2>5. q = Chosen(r2, y)
    BY <1>4, <1>6, <2>2, <2>3, <2>4, SelectUnfolded, Zenon
  <2>6. r2.n \in Nat /\ Begun(r2.code)
    BY <1>5, <2>1, <2>4, NextChosen, Zenon
  <2> QED
    BY <1>3, <2>5, <2>6, NextChosen, Zenon DEF Accessing
<1> QED
  BY <1>3, <1>7, <1>8, Zenon DEF Accessing

=============================================================================
