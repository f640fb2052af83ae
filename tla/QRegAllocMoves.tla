-------------------------- MODULE QRegAllocMoves --------------------------
(***************************************************************************)
(* Lemmas about the operations with which the register allocator moves     *)
(* values: spills, fills, the boundaries of blocks and regions, and calls, *)
(* for any pool of machine registers, any frame and any QuickIR.           *)
(*                                                                         *)
(* Allocator(s) holds of the allocator's state s between any two of them,  *)
(* and an operation that does not stop the compiler keeps the value of     *)
(* every register of the region where the allocator believes it to be      *)
(* (Kept).                                                                 *)
(***************************************************************************)
EXTENDS QRegAlloc, WellFoundedInduction, TLAPS

Locations == {"DEAD", "MEM", "REG"}

Fields == {"loc", "p", "synced", "offs", "frame", "p2v", "reg", "mem", "frm", "fail"}

\* The fields of the allocator and of the machine.
Typed(s) ==
  /\ DOMAIN s = Fields
  /\ s.loc \in [VRegs -> Locations]
  /\ s.p \in [VRegs -> PRegs]
  /\ s.synced \in [VRegs -> BOOLEAN]
  /\ s.offs \in [VRegs -> NO_SPILL .. FRAME_SIZE - 1]
  /\ s.frame \in 0 .. FRAME_SIZE
  /\ s.p2v \in [PRegs -> VRegs \cup {NO_VREG}]
  /\ s.fail \in BOOLEAN
  /\ DOMAIN s.reg = PRegs
  /\ DOMAIN s.mem = 0 .. N_GPR
  /\ DOMAIN s.frm = 0 .. FRAME_SIZE - 1

\* p2v is the inverse of the registers in use, without the fixed ones.
Coherent(s) ==
  /\ \A p \in PRegs : s.p2v[p] # NO_VREG => s.loc[s.p2v[p]] = "REG" /\ s.p[s.p2v[p]] = p
  /\ \A v \in VRegs : s.loc[v] = "REG" => s.p2v[s.p[v]] = v
  /\ \A p \in FIXED : s.p2v[p] = NO_VREG

\* The frame slots in use are below frame and no two registers share one.
Slots(s) ==
  /\ \A v \in VRegs : s.offs[v] < s.frame
  /\ \A v, w \in VRegs : s.offs[v] # NO_SPILL /\ s.offs[v] = s.offs[w] => v = w

Allocator(s) ==
  /\ Typed(s)
  /\ Coherent(s)
  /\ Slots(s)
  /\ \A g \in Gprs : s.loc[g] # "DEAD"

InSlot(s, v) == s.loc[v] = "MEM" \/ (s.loc[v] = "REG" /\ s.synced[v])

\* The value of v is where the allocator believes it to be.
Kept(s, e, v) ==
  /\ s.loc[v] = "REG" => s.reg[s.p[v]] = e[v]
  /\ InSlot(s, v) /\ Global(v) => s.mem[v] = e[v]
  /\ InSlot(s, v) /\ ~Global(v) => s.offs[v] # NO_SPILL /\ s.frm[s.offs[v]] = e[v]

-----------------------------------------------------------------------------
(* Facts about the constants. *)

\* Guest registers are registers of a region, 0 is none, and there is a
\* machine register.
LEMMA RegsFacts ==
  /\ Gprs \subseteq VRegs
  /\ NO_VREG \notin VRegs
  /\ 0 \in PRegs
  /\ PRegs \subseteq Nat
  /\ Gprs \subseteq 0 .. N_GPR
  /\ NO_SPILL \notin Nat
  BY MachineAssumption DEF Gprs, VRegs, NO_VREG, PRegs, NO_SPILL

-----------------------------------------------------------------------------
(* SyncSpill *)

\* The code that EmitSpill emits, for a global and for a local with and without
\* a slot.
LEMMA EmitSpillCases ==
  ASSUME NEW s, Typed(s), NEW v \in VRegs
  PROVE  LET a == [s EXCEPT !.offs[v] = s.frame, !.frame = s.frame + 1]
         IN  /\ Global(v) => EmitSpill(s, v) = [s EXCEPT !.mem[v] = s.reg[s.p[v]]]
             /\ ~Global(v) /\ s.offs[v] # NO_SPILL =>
                  EmitSpill(s, v) = [s EXCEPT !.frm[s.offs[v]] = s.reg[s.p[v]]]
             /\ ~Global(v) /\ s.offs[v] = NO_SPILL /\ s.frame = FRAME_SIZE =>
                  EmitSpill(s, v) = Fail(s)
             /\ ~Global(v) /\ s.offs[v] = NO_SPILL /\ s.frame # FRAME_SIZE =>
                  EmitSpill(s, v) = [a EXCEPT !.frm[a.offs[v]] = a.reg[a.p[v]]]
<1> DEFINE a == [s EXCEPT !.offs[v] = s.frame, !.frame = s.frame + 1]
<1>1. ASSUME Global(v)
      PROVE  EmitSpill(s, v) = [s EXCEPT !.mem[v] = s.reg[s.p[v]]]
  BY <1>1, Zenon DEF EmitSpill
<1>2. ASSUME ~Global(v), s.offs[v] # NO_SPILL
      PROVE  EmitSpill(s, v) = [s EXCEPT !.frm[s.offs[v]] = s.reg[s.p[v]]]
  BY <1>2, Zenon DEF EmitSpill
<1>3. ASSUME ~Global(v), s.offs[v] = NO_SPILL, s.frame = FRAME_SIZE
      PROVE  EmitSpill(s, v) = Fail(s)
  <2>1. AllocFrameSlot(s, v) = Fail(s)
    BY <1>3, Zenon DEF AllocFrameSlot
  <2>2. Fail(s).offs[v] = NO_SPILL
    BY <1>3, Zenon DEF Fail, Fields, Typed
  <2> QED
    BY <1>3, <2>1, <2>2, Zenon DEF EmitSpill
<1>4. ASSUME ~Global(v), s.offs[v] = NO_SPILL, s.frame # FRAME_SIZE
      PROVE  EmitSpill(s, v) = [a EXCEPT !.frm[a.offs[v]] = a.reg[a.p[v]]]
  <2>1. AllocFrameSlot(s, v) = a
    BY <1>4, Zenon DEF AllocFrameSlot
  <2>2. a.offs[v] # NO_SPILL
    BY <1>4, MachineAssumption DEF Fields, Typed, NO_SPILL
  <2> HIDE DEF a
  <2> QED
    BY <1>4, <2>1, <2>2, Zenon DEF EmitSpill
<1> QED
  BY <1>1, <1>2, <1>3, <1>4, Zenon

\* SyncSpill of a register that is in a machine register.
LEMMA SyncSpillCases ==
  ASSUME NEW s, Typed(s), NEW v \in VRegs, s.loc[v] = "REG"
  PROVE  /\ s.synced[v] => SyncSpill(s, v) = s
         /\ ~s.synced[v] => SyncSpill(s, v) = [EmitSpill(s, v) EXCEPT !.synced[v] = TRUE]
<1>1. s.loc[v] # "MEM"
  BY Zenon
<1>2. ASSUME s.synced[v] PROVE SyncSpill(s, v) = s
  BY <1>2, Zenon DEF SyncSpill
<1>3. ASSUME ~s.synced[v]
      PROVE  SyncSpill(s, v) = [EmitSpill(s, v) EXCEPT !.synced[v] = TRUE]
  BY <1>1, <1>3, Zenon DEF SyncSpill
<1> QED
  BY <1>2, <1>3, Zenon

\* t is s after the value of v is written to its slot, which may be a new one.
Spilled(s, t, v) ==
  /\ DOMAIN t = Fields
  /\ t.loc = s.loc /\ t.p = s.p /\ t.p2v = s.p2v /\ t.reg = s.reg /\ t.fail = s.fail
  /\ t.synced = [s.synced EXCEPT ![v] = TRUE]
  /\ \/ /\ Global(v)
        /\ t.mem = [s.mem EXCEPT ![v] = s.reg[s.p[v]]]
        /\ t.frm = s.frm /\ t.offs = s.offs /\ t.frame = s.frame
     \/ /\ ~Global(v) /\ s.offs[v] # NO_SPILL
        /\ t.frm = [s.frm EXCEPT ![s.offs[v]] = s.reg[s.p[v]]]
        /\ t.mem = s.mem /\ t.offs = s.offs /\ t.frame = s.frame
     \/ /\ ~Global(v) /\ s.offs[v] = NO_SPILL /\ s.frame # FRAME_SIZE
        /\ t.frm = [s.frm EXCEPT ![s.frame] = s.reg[s.p[v]]]
        /\ t.offs = [s.offs EXCEPT ![v] = s.frame] /\ t.frame = s.frame + 1
        /\ t.mem = s.mem

\* t is s after a spill that found the frame full.
Overflowed(s, t, v) ==
  /\ DOMAIN t = Fields
  /\ t.loc = s.loc /\ t.p = s.p /\ t.p2v = s.p2v /\ t.reg = s.reg
  /\ t.synced = [s.synced EXCEPT ![v] = TRUE]
  /\ t.mem = s.mem /\ t.frm = s.frm /\ t.offs = s.offs /\ t.frame = s.frame
  /\ t.fail = TRUE

\* A spill changes the slot of the register that is spilled and nothing else.
LEMMA SyncSpillFields ==
  ASSUME NEW s, Typed(s), NEW v \in VRegs, s.loc[v] = "REG", ~s.synced[v],
         NEW t, t = SyncSpill(s, v)
  PROVE  Spilled(s, t, v) \/ Overflowed(s, t, v)
<1> DEFINE a == [s EXCEPT !.offs[v] = s.frame, !.frame = s.frame + 1]
           u == EmitSpill(s, v)
<1>1. DOMAIN s = Fields
  BY Zenon DEF Typed
<1>2. t = [u EXCEPT !.synced[v] = TRUE]
  BY SyncSpillCases, Zenon
<1> HIDE DEF u
<1>3. CASE Global(v)
  <2>1. u = [s EXCEPT !.mem[v] = s.reg[s.p[v]]]
    BY <1>3, EmitSpillCases, Zenon DEF u
  <2> QED
    BY <1>1, <1>2, <1>3, <2>1, Zenon DEF Fields, Spilled
<1>4. CASE ~Global(v) /\ s.offs[v] # NO_SPILL
  <2>1. u = [s EXCEPT !.frm[s.offs[v]] = s.reg[s.p[v]]]
    BY <1>4, EmitSpillCases, Zenon DEF u
  <2> QED
    BY <1>1, <1>2, <1>4, <2>1, Zenon DEF Fields, Spilled
<1>5. CASE ~Global(v) /\ s.offs[v] = NO_SPILL /\ s.frame # FRAME_SIZE
  <2>1. u = [a EXCEPT !.frm[a.offs[v]] = a.reg[a.p[v]]]
    BY <1>5, EmitSpillCases, Zenon DEF u
  <2>2. /\ DOMAIN a = Fields
        /\ a.loc = s.loc /\ a.p = s.p /\ a.p2v = s.p2v /\ a.reg = s.reg /\ a.fail = s.fail
        /\ a.synced = s.synced /\ a.mem = s.mem /\ a.frm = s.frm
        /\ a.offs = [s.offs EXCEPT ![v] = s.frame] /\ a.frame = s.frame + 1
    BY <1>1, Zenon DEF Fields
  <2>3. a.offs[v] = s.frame
    BY <2>2 DEF Typed
  <2> HIDE DEF a
  <2>4. /\ DOMAIN u = Fields
        /\ u.loc = a.loc /\ u.p = a.p /\ u.p2v = a.p2v /\ u.reg = a.reg /\ u.fail = a.fail
        /\ u.synced = a.synced /\ u.mem = a.mem /\ u.offs = a.offs /\ u.frame = a.frame
        /\ u.frm = [a.frm EXCEPT ![a.offs[v]] = a.reg[a.p[v]]]
    BY <2>1, <2>2, Zenon DEF Fields
  <2>5. /\ DOMAIN t = Fields
        /\ t.loc = u.loc /\ t.p = u.p /\ t.p2v = u.p2v /\ t.reg = u.reg /\ t.fail = u.fail
        /\ t.mem = u.mem /\ t.offs = u.offs /\ t.frame = u.frame /\ t.frm = u.frm
        /\ t.synced = [u.synced EXCEPT ![v] = TRUE]
    BY <1>2, <2>4, Zenon DEF Fields
  <2> QED
    BY <1>5, <2>2, <2>3, <2>4, <2>5 DEF Spilled
<1>6. CASE ~Global(v) /\ s.offs[v] = NO_SPILL /\ s.frame = FRAME_SIZE
  <2>1. u = [s EXCEPT !.fail = TRUE]
    BY <1>6, EmitSpillCases, Zenon DEF u, Fail
  <2>2. Overflowed(s, t, v)
    BY <1>1, <1>2, <2>1, Zenon DEF Fields, Overflowed
  <2> QED
    BY <2>2, Zenon
<1> QED
  BY <1>3, <1>4, <1>5, <1>6, Zenon

\* Spilling a register that is in a machine register keeps the allocator in order
\* and, unless the frame is full, every value where it is believed to be.
LEMMA SyncSpillKeeps ==
  ASSUME NEW s, Allocator(s), NEW v \in VRegs, s.loc[v] = "REG",
         NEW t, t = SyncSpill(s, v)
  PROVE  /\ Allocator(t)
         /\ t.loc = s.loc /\ t.p = s.p /\ t.p2v = s.p2v /\ t.reg = s.reg
         /\ s.fail => t.fail
         /\ InSlot(t, v)
         /\ ~t.fail => \A e : \A w \in VRegs : Kept(s, e, w) => Kept(t, e, w)
<1>1. Typed(s) /\ Slots(s)
  BY Zenon DEF Allocator
<1>2. CASE s.synced[v]
  <2>1. t = s
    BY <1>1, <1>2, SyncSpillCases, Zenon
  <2> QED
    BY <1>2, <2>1, Zenon DEF InSlot
<1>3. CASE ~s.synced[v] /\ Overflowed(s, t, v)
  <2>1. t.synced \in [VRegs -> BOOLEAN] /\ t.synced[v]
    BY <1>1, <1>3 DEF Typed, Overflowed
  <2>2. Typed(t) /\ InSlot(t, v)
    BY <1>1, <1>3, <2>1, Zenon DEF Typed, Overflowed, InSlot
  <2>3. Coherent(t) /\ Slots(t) /\ \A g \in Gprs : t.loc[g] # "DEAD"
    BY <1>3 DEF Allocator, Coherent, Slots, Overflowed
  <2> QED
    BY <1>3, <2>2, <2>3, Zenon DEF Allocator, Overflowed
<1>4. CASE ~s.synced[v] /\ Spilled(s, t, v)
  <2>0. Spilled(s, t, v)
    BY <1>4, Zenon
  <2>1. /\ DOMAIN t = Fields
        /\ t.loc = s.loc /\ t.p = s.p /\ t.p2v = s.p2v /\ t.reg = s.reg /\ t.fail = s.fail
        /\ t.synced = [s.synced EXCEPT ![v] = TRUE]
    BY <2>0, Zenon DEF Spilled
  <2>2. InSlot(t, v)
    BY <1>1, <2>1, Zenon DEF Typed, InSlot
  <2>3. Coherent(t) /\ \A g \in Gprs : t.loc[g] # "DEAD"
    BY <2>1 DEF Allocator, Coherent
  <2>4. \A w \in VRegs : w # v => (InSlot(t, w) <=> InSlot(s, w))
    BY <1>1, <2>1, Zenon DEF Typed, InSlot
  <2>5. CASE /\ Global(v)
             /\ t.mem = [s.mem EXCEPT ![v] = s.reg[s.p[v]]]
             /\ t.frm = s.frm /\ t.offs = s.offs /\ t.frame = s.frame
    <3>1. Typed(t)
      BY <1>1, <2>1, <2>5 DEF Typed
    <3>2. Slots(t)
      BY <1>1, <2>5 DEF Slots
    <3>3. v \in DOMAIN s.mem
      BY <1>1, <2>5, RegsFacts, Zenon DEF Typed, Global
    <3>4. ASSUME NEW e, NEW w \in VRegs, Kept(s, e, w) PROVE Kept(t, e, w)
      <4>1. CASE w = v
        BY <2>1, <2>5, <3>3, <3>4, <4>1, Zenon DEF Kept
      <4>2. CASE w # v
        BY <1>1, <2>1, <2>4, <2>5, <3>3, <3>4, <4>2 DEF Kept
      <4> QED
        BY <4>1, <4>2, Zenon
    <3> QED
      BY <2>1, <2>2, <2>3, <3>1, <3>2, <3>4, Zenon DEF Allocator
  <2>6. CASE /\ ~Global(v) /\ s.offs[v] # NO_SPILL
             /\ t.frm = [s.frm EXCEPT ![s.offs[v]] = s.reg[s.p[v]]]
             /\ t.mem = s.mem /\ t.offs = s.offs /\ t.frame = s.frame
    <3>1. Typed(t)
      BY <1>1, <2>1, <2>6 DEF Typed
    <3>2. Slots(t)
      BY <1>1, <2>6 DEF Slots
    <3>3. \A w \in VRegs : s.offs[w] # NO_SPILL => s.offs[w] \in DOMAIN s.frm
      BY <1>1, MachineAssumption DEF Typed, NO_SPILL
    <3>4. ASSUME NEW e, NEW w \in VRegs, Kept(s, e, w) PROVE Kept(t, e, w)
      <4>1. CASE w = v
        BY <2>1, <2>6, <3>3, <3>4, <4>1, Zenon DEF Kept
      <4>2. CASE w # v
        <5>1. s.offs[w] # NO_SPILL => s.offs[w] # s.offs[v]
          BY <1>1, <4>2, Zenon DEF Slots
        <5> QED
          BY <1>1, <2>1, <2>4, <2>6, <3>3, <3>4, <4>2, <5>1 DEF Kept
      <4> QED
        BY <4>1, <4>2, Zenon
    <3> QED
      BY <2>1, <2>2, <2>3, <3>1, <3>2, <3>4, Zenon DEF Allocator
  <2>7. CASE /\ ~Global(v) /\ s.offs[v] = NO_SPILL /\ s.frame # FRAME_SIZE
             /\ t.frm = [s.frm EXCEPT ![s.frame] = s.reg[s.p[v]]]
             /\ t.offs = [s.offs EXCEPT ![v] = s.frame] /\ t.frame = s.frame + 1
             /\ t.mem = s.mem
    <3>1. s.frame \in 0 .. FRAME_SIZE - 1 /\ s.frame # NO_SPILL
      BY <1>1, <2>7, MachineAssumption DEF Typed, NO_SPILL
    <3>2. Typed(t)
      BY <1>1, <2>1, <2>7, <3>1, MachineAssumption DEF Typed, NO_SPILL
    <3>3. \A w \in VRegs : s.offs[w] < s.frame /\ s.offs[w] \in Int
      BY <1>1, MachineAssumption DEF Slots, Typed, NO_SPILL
    <3>4. t.offs[v] = s.frame /\ \A w \in VRegs : w # v => t.offs[w] = s.offs[w]
      BY <1>1, <2>7, Zenon DEF Typed
    <3>5. Slots(t)
      BY <1>1, <2>7, <3>1, <3>3, <3>4 DEF Slots
    <3>6. t.frm[s.frame] = s.reg[s.p[v]]
      BY <1>1, <2>7, <3>1, Zenon DEF Typed
    <3>7. ASSUME NEW e, NEW w \in VRegs, Kept(s, e, w) PROVE Kept(t, e, w)
      <4>1. CASE w = v
        BY <2>1, <2>7, <3>1, <3>4, <3>6, <3>7, <4>1, Zenon DEF Kept
      <4>2. CASE w # v
        <5>1. s.offs[w] # NO_SPILL => s.offs[w] \in DOMAIN s.frm /\ s.offs[w] # s.frame
          BY <1>1, <3>1, <3>3, MachineAssumption DEF Typed, NO_SPILL
        <5> QED
          BY <2>1, <2>4, <2>7, <3>4, <3>7, <4>2, <5>1 DEF Kept
      <4> QED
        BY <4>1, <4>2, Zenon
    <3> QED
      BY <2>1, <2>2, <2>3, <3>2, <3>5, <3>7, Zenon DEF Allocator
  <2> QED
    BY <2>0, <2>5, <2>6, <2>7, Zenon DEF Spilled
<1> QED
  BY <1>1, <1>2, <1>3, <1>4, SyncSpillFields, Zenon

-----------------------------------------------------------------------------
(* Release and Spill *)

\* t is s with the registers vs released.
Released(s, t, vs) ==
  /\ DOMAIN t = Fields
  /\ t.offs = s.offs /\ t.frame = s.frame /\ t.reg = s.reg /\ t.mem = s.mem
  /\ t.frm = s.frm /\ t.fail = s.fail
  /\ t.loc = [v \in VRegs |-> IF v \in vs THEN "MEM" ELSE s.loc[v]]
  /\ t.p = [v \in VRegs |-> IF v \in vs THEN 0 ELSE s.p[v]]
  /\ t.synced = [v \in VRegs |-> v \notin vs /\ s.synced[v]]
  /\ t.p2v = [p \in PRegs |-> IF s.p2v[p] \in vs THEN NO_VREG ELSE s.p2v[p]]

\* Release gives back the machine registers of the registers it releases.
LEMMA ReleaseFields ==
  ASSUME NEW s, Allocator(s), NEW vs \in SUBSET VRegs, NEW t, t = Release(s, vs)
  PROVE  Released(s, t, vs)
<1>1. DOMAIN s = Fields /\ s.p2v \in [PRegs -> VRegs \cup {NO_VREG}] /\ Coherent(s)
  BY Zenon DEF Allocator, Typed
<1> DEFINE InUse(p) == \E v \in vs : s.loc[v] = "REG" /\ s.p[v] = p
<1>2. /\ DOMAIN t = Fields
      /\ t.offs = s.offs /\ t.frame = s.frame /\ t.reg = s.reg /\ t.mem = s.mem
      /\ t.frm = s.frm /\ t.fail = s.fail
      /\ t.loc = [v \in VRegs |-> IF v \in vs THEN "MEM" ELSE s.loc[v]]
      /\ t.p = [v \in VRegs |-> IF v \in vs THEN 0 ELSE s.p[v]]
      /\ t.synced = [v \in VRegs |-> v \notin vs /\ s.synced[v]]
      /\ t.p2v = [p \in PRegs |-> IF InUse(p) THEN NO_VREG ELSE s.p2v[p]]
  BY <1>1, Zenon DEF Release, Fields
<1>3. ASSUME NEW p \in PRegs PROVE InUse(p) <=> s.p2v[p] \in vs
  <2>1. ASSUME InUse(p) PROVE s.p2v[p] \in vs
    BY <1>1, <2>1 DEF Coherent
  <2>2. ASSUME s.p2v[p] \in vs PROVE InUse(p)
    BY <1>1, <2>2, RegsFacts, Zenon DEF Coherent
  <2> QED
    BY <2>1, <2>2, Zenon
<1> HIDE DEF InUse
<1> QED
  BY <1>2, <1>3, Zenon DEF Released

\* Registers whose values are in their slots can be released.
LEMMA ReleaseKeeps ==
  ASSUME NEW s, Allocator(s), NEW vs \in SUBSET VRegs, NEW t, Released(s, t, vs)
  PROVE  /\ Allocator(t)
         /\ \A e : \A w \in VRegs :
              Kept(s, e, w) /\ (w \in vs => InSlot(s, w)) => Kept(t, e, w)
<1>1. Typed(s) /\ Coherent(s) /\ Slots(s)
  BY Zenon DEF Allocator
<1>2. Typed(t)
  BY <1>1, RegsFacts DEF Typed, Released, Locations
<1>3. Slots(t)
  BY <1>1 DEF Slots, Released
<1>4. Coherent(t)
  <2>1. ASSUME NEW p \in PRegs, t.p2v[p] # NO_VREG
        PROVE  t.loc[t.p2v[p]] = "REG" /\ t.p[t.p2v[p]] = p
    <3>1. t.p2v[p] = s.p2v[p] /\ s.p2v[p] \notin vs /\ s.p2v[p] \in VRegs
      BY <1>1, <2>1 DEF Released, Typed
    <3> QED
      BY <1>1, <3>1, <2>1 DEF Coherent, Released
  <2>2. ASSUME NEW v \in VRegs, t.loc[v] = "REG"
        PROVE  t.p2v[t.p[v]] = v
    <3>1. v \notin vs /\ s.loc[v] = "REG" /\ t.p[v] = s.p[v] /\ s.p[v] \in PRegs
      BY <1>1, <2>2 DEF Released, Typed
    <3> QED
      BY <1>1, <3>1 DEF Coherent, Released
  <2>3. \A p \in FIXED : t.p2v[p] = NO_VREG
    BY <1>1, MachineAssumption DEF Coherent, Released
  <2> QED
    BY <2>1, <2>2, <2>3, Zenon DEF Coherent
<1>5. \A g \in Gprs : t.loc[g] # "DEAD"
  BY RegsFacts, Zenon DEF Allocator, Released
<1>6. ASSUME NEW e, NEW w \in VRegs, Kept(s, e, w), w \in vs => InSlot(s, w)
      PROVE  Kept(t, e, w)
  <2>1. CASE w \in vs
    <3>1. t.loc[w] = "MEM"
      BY <2>1, Zenon DEF Released
    <3> QED
      BY <1>6, <2>1, <3>1, Zenon DEF Kept, InSlot, Released
  <2>2. CASE w \notin vs
    <3>1. t.loc[w] = s.loc[w] /\ t.p[w] = s.p[w] /\ (t.synced[w] <=> s.synced[w])
      BY <2>2, Zenon DEF Released
    <3> QED
      BY <1>6, <3>1 DEF Kept, InSlot, Released
  <2> QED
    BY <2>1, <2>2, Zenon
<1> QED
  BY <1>2, <1>3, <1>4, <1>5, <1>6, Zenon DEF Allocator

\* t is s with the machine register p given back by the register that holds it.
Evicted(s, t, p) ==
  /\ Allocator(t)
  /\ t.reg = s.reg
  /\ t.p2v = [s.p2v EXCEPT ![p] = NO_VREG]
  /\ \A w \in VRegs : w # s.p2v[p] => t.loc[w] = s.loc[w] /\ t.p[w] = s.p[w]
  /\ s.fail => t.fail
  /\ ~t.fail => \A e : \A w \in VRegs : Kept(s, e, w) => Kept(t, e, w)

\* Spill writes the register to its slot and gives its machine register back.
LEMMA SpillKeeps ==
  ASSUME NEW s, Allocator(s), NEW p \in PRegs, s.p2v[p] # NO_VREG,
         NEW t, t = Spill(s, s.p2v[p])
  PROVE  Evicted(s, t, p)
<1>1. PICK v \in VRegs : v = s.p2v[p]
  BY Zenon DEF Allocator, Typed
<1>2. s.loc[v] = "REG" /\ s.p[v] = p /\ s.p2v \in [PRegs -> VRegs \cup {NO_VREG}]
  BY <1>1, Zenon DEF Allocator, Coherent, Typed
<1>3. PICK u : u = SyncSpill(s, v)
  BY Zenon
<1>4. t = Release(u, {v})
  BY <1>1, <1>3, Zenon DEF Spill
<1>5. /\ Allocator(u) /\ InSlot(u, v)
      /\ u.loc = s.loc /\ u.p = s.p /\ u.p2v = s.p2v /\ u.reg = s.reg
      /\ s.fail => u.fail
      /\ ~u.fail => \A e : \A w \in VRegs : Kept(s, e, w) => Kept(u, e, w)
  BY <1>2, <1>3, SyncSpillKeeps
<1>6. {v} \in SUBSET VRegs
  BY Zenon
<1>7. Released(u, t, {v})
  BY <1>4, <1>5, <1>6, ReleaseFields, Zenon
<1>8. t.reg = s.reg /\ t.fail = u.fail
  BY <1>5, <1>7, Zenon DEF Released
<1>9. /\ Allocator(t)
      /\ \A e : \A w \in VRegs : Kept(u, e, w) => Kept(t, e, w)
  BY <1>5, <1>6, <1>7, ReleaseKeeps
<1>10. t.p2v = [s.p2v EXCEPT ![p] = NO_VREG]
  <2>1. t.p2v = [q \in PRegs |-> IF s.p2v[q] = v THEN NO_VREG ELSE s.p2v[q]]
    BY <1>5, <1>7 DEF Released
  <2>2. \A q \in PRegs : s.p2v[q] = v <=> q = p
    BY <1>1, <1>2, RegsFacts, Zenon DEF Allocator, Coherent
  <2> QED
    BY <1>2, <2>1, <2>2
<1>11. \A w \in VRegs : w # v => t.loc[w] = s.loc[w] /\ t.p[w] = s.p[w]
  BY <1>5, <1>7 DEF Released
<1> QED
  BY <1>1, <1>5, <1>8, <1>9, <1>10, <1>11, Zenon DEF Evicted

-----------------------------------------------------------------------------
(* AllocPReg *)

\* A non-empty set of naturals has a least element.
LEMMA LeastNatural ==
  ASSUME NEW T, T \subseteq Nat, T # {}
  PROVE  \E x \in T : \A y \in T : x <= y
<1> DEFINE R == OpToRel(<, Nat)
<1>1. IsWellFoundedOn(R, Nat)
  BY NatLessThanWellFounded, Zenon
<1>2. \A a, b \in Nat : a < b => <<a, b>> \in R
  BY Zenon DEF OpToRel
<1> HIDE DEF R
<1>3. PICK x \in T : \A y \in T : ~(<<y, x>> \in R)
  BY <1>1, WFMin, Zenon
<1>4. ASSUME NEW y \in T PROVE x <= y
  <2>1. ~(y < x)
    BY <1>2, <1>3, Zenon
  <2> QED
    BY <2>1
<1> QED
  BY <1>4, Zenon

\* Min of machine registers is one of them.
LEMMA MinIn ==
  ASSUME NEW T, T \subseteq PRegs, T # {}
  PROVE  Min(T) \in T
<1>1. \E x \in T : \A y \in T : x <= y
  BY LeastNatural, RegsFacts, Zenon
<1> QED
  BY <1>1, Zenon DEF Min

\* The CPUState slot of ip, 0, is no register's.
LEMMA IpFacts == 0 \notin Gprs /\ 0 \in 0 .. N_GPR
  BY MachineAssumption DEF Gprs

\* The fields keep their types, an operation does not undo a failure, and ip stays.
Stays(s, t) == Typed(t) /\ (s.fail => t.fail) /\ t.mem[0] = s.mem[0]

\* Fail keeps the fields.
LEMMA FailStays ==
  ASSUME NEW s, Typed(s)
  PROVE  Stays(s, Fail(s))
<1>1. DOMAIN s = Fields
  BY Zenon DEF Typed
<1>2. PICK t : t = Fail(s)
  BY Zenon
<1>3. /\ DOMAIN t = Fields /\ t.fail = TRUE
      /\ t.loc = s.loc /\ t.p = s.p /\ t.p2v = s.p2v /\ t.reg = s.reg /\ t.synced = s.synced
      /\ t.mem = s.mem /\ t.frm = s.frm /\ t.offs = s.offs /\ t.frame = s.frame
  BY <1>1, <1>2, Zenon DEF Fail, Fields
<1> QED
  BY <1>2, <1>3, Zenon DEF Stays, Typed

\* SyncSpill of any register keeps the fields.
LEMMA SyncSpillStays ==
  ASSUME NEW s, Typed(s), NEW v \in VRegs
  PROVE  Stays(s, SyncSpill(s, v))
<1>1. CASE s.synced[v] \/ s.loc[v] = "MEM"
  <2>1. SyncSpill(s, v) = s
    BY <1>1, Zenon DEF SyncSpill
  <2> QED
    BY <2>1, Zenon DEF Stays
<1>2. CASE ~s.synced[v] /\ s.loc[v] = "REG"
  <2>1. PICK t : t = SyncSpill(s, v)
    BY Zenon
  <2>2. Spilled(s, t, v) \/ Overflowed(s, t, v)
    BY <1>2, <2>1, SyncSpillFields, Zenon
  <2>3. CASE Overflowed(s, t, v)
    <3>1. Typed(t)
      <4>1. t.synced \in [VRegs -> BOOLEAN]
        BY <2>3 DEF Overflowed, Typed
      <4>2. t.fail \in BOOLEAN
        BY <2>3, Zenon DEF Overflowed
      <4> QED
        BY <2>3, <4>1, <4>2, Zenon DEF Overflowed, Typed
    <3>2. t.fail
      BY <2>3, Zenon DEF Overflowed
    <3>3. t.mem = s.mem
      BY <2>3, Zenon DEF Overflowed
    <3> QED
      BY <2>1, <3>1, <3>2, <3>3, Zenon DEF Stays
  <2>4. CASE Spilled(s, t, v)
    <3>1. /\ DOMAIN t = Fields
          /\ t.loc = s.loc /\ t.p = s.p /\ t.p2v = s.p2v /\ t.reg = s.reg /\ t.fail = s.fail
          /\ t.synced = [s.synced EXCEPT ![v] = TRUE]
      BY <2>4, Zenon DEF Spilled
    <3>2. DOMAIN t.mem = 0 .. N_GPR /\ DOMAIN t.frm = 0 .. FRAME_SIZE - 1
      BY <2>4, Zenon DEF Spilled, Typed
    <3>3. t.frame \in 0 .. FRAME_SIZE /\ t.offs \in [VRegs -> NO_SPILL .. FRAME_SIZE - 1]
      <4>1. s.frame \in 0 .. FRAME_SIZE /\ s.offs \in [VRegs -> NO_SPILL .. FRAME_SIZE - 1]
        BY Zenon DEF Typed
      <4>2. \/ t.offs = s.offs /\ t.frame = s.frame
            \/ /\ s.frame # FRAME_SIZE
               /\ t.offs = [s.offs EXCEPT ![v] = s.frame] /\ t.frame = s.frame + 1
        BY <2>4, Zenon DEF Spilled
      <4>3. s.frame # FRAME_SIZE => s.frame \in NO_SPILL .. FRAME_SIZE - 1
        BY <4>1, MachineAssumption DEF NO_SPILL
      <4>4. t.frame \in 0 .. FRAME_SIZE
        BY <4>1, <4>2, MachineAssumption
      <4> QED
        BY <4>1, <4>2, <4>3, <4>4, Zenon
    <3>4. Typed(t)
      BY <3>1, <3>2, <3>3 DEF Typed
    <3>5. t.mem[0] = s.mem[0]
      <4>1. t.mem = s.mem \/ (Global(v) /\ t.mem = [s.mem EXCEPT ![v] = s.reg[s.p[v]]])
        BY <2>4, Zenon DEF Spilled
      <4>2. 0 \in DOMAIN s.mem /\ (Global(v) => v # 0)
        BY IpFacts, Zenon DEF Global, Typed
      <4> QED
        BY <4>1, <4>2, Zenon
    <3> QED
      BY <2>1, <3>1, <3>4, <3>5, Zenon DEF Stays
  <2> QED
    BY <2>2, <2>3, <2>4, Zenon
<1>3. CASE ~s.synced[v] /\ s.loc[v] # "MEM" /\ s.loc[v] # "REG"
  <2>1. SyncSpill(s, v) = Fail(s)
    BY <1>3, Zenon DEF SyncSpill
  <2> QED
    BY <2>1, FailStays, Zenon
<1> QED
  BY <1>1, <1>2, <1>3, Zenon

\* Release of any registers keeps the fields.
LEMMA ReleaseStays ==
  ASSUME NEW s, Typed(s), NEW vs
  PROVE  Stays(s, Release(s, vs))
<1>1. DOMAIN s = Fields
  BY Zenon DEF Typed
<1>2. PICK t : t = Release(s, vs)
  BY Zenon
<1> DEFINE InUse(p) == \E v \in vs : s.loc[v] = "REG" /\ s.p[v] = p
<1>3. /\ DOMAIN t = Fields
      /\ t.offs = s.offs /\ t.frame = s.frame /\ t.reg = s.reg /\ t.mem = s.mem
      /\ t.frm = s.frm /\ t.fail = s.fail
      /\ t.loc = [v \in VRegs |-> IF v \in vs THEN "MEM" ELSE s.loc[v]]
      /\ t.p = [v \in VRegs |-> IF v \in vs THEN 0 ELSE s.p[v]]
      /\ t.synced = [v \in VRegs |-> v \notin vs /\ s.synced[v]]
      /\ t.p2v = [p \in PRegs |-> IF InUse(p) THEN NO_VREG ELSE s.p2v[p]]
  BY <1>1, <1>2, Zenon DEF Release, Fields
<1> HIDE DEF InUse
<1>4. t.loc \in [VRegs -> Locations] /\ t.p \in [VRegs -> PRegs]
  BY <1>3, RegsFacts DEF Typed, Locations
<1>5. t.synced \in [VRegs -> BOOLEAN] /\ t.p2v \in [PRegs -> VRegs \cup {NO_VREG}]
  BY <1>3 DEF Typed
<1> QED
  BY <1>2, <1>3, <1>4, <1>5, Zenon DEF Stays, Typed

\* Spill of any register keeps the fields.
LEMMA SpillStays ==
  ASSUME NEW s, Typed(s), NEW v \in VRegs
  PROVE  Stays(s, Spill(s, v))
  BY SyncSpillStays, ReleaseStays, Zenon DEF Spill, Stays

\* AllocPReg keeps the fields, and names a machine register when it fails too.
LEMMA AllocPRegStays ==
  ASSUME NEW s, Typed(s), NEW desire \in SUBSET PRegs, desire # {}, NEW avoid,
         NEW a, a = AllocPReg(s, desire, avoid)
  PROVE  Stays(s, a.s) /\ a.p \in desire
<1> DEFINE target == desire \ avoid
           free   == {p \in target : s.p2v[p] = NO_VREG}
<1>1. CASE free # {}
  <2>1. a = [s |-> s, p |-> Min(free)]
    BY <1>1, Zenon DEF AllocPReg
  <2>2. Min(free) \in free
    BY <1>1, MinIn, Zenon
  <2> QED
    BY <2>1, <2>2 DEF Stays
<1>2. CASE free = {} /\ target # {}
  <2>1. a = [s |-> Spill(s, s.p2v[Min(target)]), p |-> Min(target)]
    BY <1>2, Zenon DEF AllocPReg
  <2>2. Min(target) \in target
    BY <1>2, MinIn, Zenon
  <2>3. PICK p \in target : p = Min(target)
    BY <2>2, Zenon
  <2>4. s.p2v[p] # NO_VREG
    BY <1>2, Zenon
  <2>5. s.p2v[p] \in VRegs
    BY <2>4, Zenon DEF Typed
  <2>6. Stays(s, Spill(s, s.p2v[p]))
    BY <2>5, SpillStays, Zenon
  <2> QED
    BY <2>1, <2>3, <2>6
<1>3. CASE target = {}
  <2>1. free = {}
    BY <1>3, Zenon
  <2>2. a = [s |-> Fail(s), p |-> Min(desire)]
    BY <1>3, <2>1, Zenon DEF AllocPReg
  <2> QED
    BY <2>2, MinIn, FailStays
<1> QED
  BY <1>1, <1>2, <1>3, Zenon

\* t is s with the machine register p, taken outside of avoid, in no use: at most
\* the register that held it has moved, to its slot.
Taken(s, t, p, desire, avoid) ==
  /\ p \in desire \ avoid
  /\ Allocator(t)
  /\ t.reg = s.reg /\ ~s.fail
  /\ t.p2v = [s.p2v EXCEPT ![p] = NO_VREG]
  /\ \A w \in VRegs : w # s.p2v[p] => t.loc[w] = s.loc[w] /\ t.p[w] = s.p[w]
  /\ \A e : \A w \in VRegs : Kept(s, e, w) => Kept(t, e, w)

\* AllocPReg finds a free register or spills one, outside of avoid.
LEMMA AllocPRegKeeps ==
  ASSUME NEW s, Allocator(s), NEW desire \in SUBSET PRegs, NEW avoid,
         NEW a, a = AllocPReg(s, desire, avoid), ~a.s.fail
  PROVE  Taken(s, a.s, a.p, desire, avoid)
<1> DEFINE target == desire \ avoid
           free   == {p \in target : s.p2v[p] = NO_VREG}
<1>1. CASE free # {}
  <2>1. a = [s |-> s, p |-> Min(free)]
    BY <1>1, Zenon DEF AllocPReg
  <2>2. Min(free) \in free
    BY <1>1, MinIn, Zenon
  <2>3. a.s = s /\ a.p \in free
    BY <2>1, <2>2
  <2>4. s.p2v = [s.p2v EXCEPT ![a.p] = NO_VREG]
    BY <2>3, Zenon DEF Allocator, Typed
  <2> QED
    BY <2>3, <2>4, Zenon DEF Taken
<1>2. CASE free = {} /\ target # {}
  <2>1. a = [s |-> Spill(s, s.p2v[Min(target)]), p |-> Min(target)]
    BY <1>2, Zenon DEF AllocPReg
  <2>2. Min(target) \in target
    BY <1>2, MinIn, Zenon
  <2>3. PICK p \in target : p = Min(target)
    BY <2>2, Zenon
  <2>4. s.p2v[p] # NO_VREG
    BY <1>2, Zenon
  <2>5. Evicted(s, a.s, p)
    <3>1. a.s = Spill(s, s.p2v[p])
      BY <2>1, <2>3
    <3> QED
      BY <2>4, <3>1, SpillKeeps, Zenon
  <2>6. a.p = p
    BY <2>1, <2>3
  <2> QED
    BY <2>5, <2>6, Zenon DEF Evicted, Taken
<1>3. CASE target = {}
  <2>1. free = {}
    BY <1>3, Zenon
  <2>2. a = [s |-> Fail(s), p |-> Min(desire)]
    BY <1>3, <2>1, Zenon DEF AllocPReg
  <2>3. a.s.fail
    BY <2>2 DEF Fail, Allocator, Typed, Fields
  <2> QED
    BY <2>3, Zenon
<1> QED
  BY <1>1, <1>2, <1>3, Zenon

-----------------------------------------------------------------------------
(* Fill *)

\* The register that holds a machine register.
LEMMA HolderInReg ==
  ASSUME NEW s, Allocator(s), NEW p \in PRegs, NEW v \in VRegs, v = s.p2v[p]
  PROVE  s.loc[v] = "REG" /\ s.p[v] = p
<1>1. s.p2v[p] # NO_VREG
  BY RegsFacts, Zenon
<1> QED
  BY <1>1, Zenon DEF Allocator, Coherent

\* The guest's registers are in their slots.
Flushed(s) == \A g \in Gprs : InSlot(s, g)

\* AllocPReg then writes no CPUState.
LEMMA AllocPRegFlushed ==
  ASSUME NEW s, Allocator(s), Flushed(s), NEW desire \in SUBSET PRegs, NEW avoid,
         NEW a, a = AllocPReg(s, desire, avoid)
  PROVE  a.s.mem = s.mem
<1> DEFINE target == desire \ avoid
           free   == {p \in target : s.p2v[p] = NO_VREG}
<1>1. Typed(s) /\ DOMAIN s = Fields
  BY Zenon DEF Allocator, Typed
<1>2. CASE free # {}
  <2>1. a = [s |-> s, p |-> Min(free)]
    BY <1>2, Zenon DEF AllocPReg
  <2> QED
    BY <2>1
<1>3. CASE free = {} /\ target # {}
  <2>1. a = [s |-> Spill(s, s.p2v[Min(target)]), p |-> Min(target)]
    BY <1>3, Zenon DEF AllocPReg
  <2>2. Min(target) \in target
    BY <1>3, MinIn, Zenon
  <2>3. PICK p \in target : p = Min(target)
    BY <2>2, Zenon
  <2>4. PICK v : v = s.p2v[p]
    BY Zenon
  <2>5. v \in VRegs
    BY <1>1, <1>3, <2>4, Zenon DEF Typed
  <2>6. s.loc[v] = "REG"
    BY <2>4, <2>5, HolderInReg
  <2>7. PICK x : x = SyncSpill(s, v)
    BY Zenon
  <2>8. x.mem = s.mem
    <3>1. CASE s.synced[v]
      BY <1>1, <2>5, <2>6, <2>7, <3>1, SyncSpillCases, Zenon
    <3>2. CASE ~s.synced[v]
      <4>1. Spilled(s, x, v) \/ Overflowed(s, x, v)
        BY <1>1, <2>5, <2>6, <2>7, <3>2, SyncSpillFields, Zenon
      <4>2. ~Global(v)
        <5>1. s.loc[v] # "MEM"
          BY <2>6, Zenon
        <5> QED
          BY <3>2, <5>1, Zenon DEF Flushed, InSlot, Global
      <4> QED
        BY <4>1, <4>2, Zenon DEF Spilled, Overflowed
    <3> QED
      BY <3>1, <3>2, Zenon
  <2>9. DOMAIN x = Fields
    BY <1>1, <2>5, <2>7, SyncSpillStays, Zenon DEF Stays, Typed
  <2>10. PICK y : y = Release(x, {v})
    BY Zenon
  <2>11. y.mem = x.mem
    BY <2>9, <2>10, Zenon DEF Release, Fields
  <2>12. Spill(s, s.p2v[Min(target)]) = y
    BY <2>3, <2>4, <2>7, <2>10, Zenon DEF Spill
  <2> QED
    BY <2>1, <2>8, <2>11, <2>12
<1>4. CASE target = {}
  <2>1. free = {}
    BY <1>4, Zenon
  <2>2. a = [s |-> Fail(s), p |-> Min(desire)]
    BY <1>4, <2>1, Zenon DEF AllocPReg
  <2>3. Fail(s).mem = s.mem
    BY <1>1, Zenon DEF Fail, Fields
  <2> QED
    BY <2>2, <2>3
<1> QED
  BY <1>2, <1>3, <1>4, Zenon

\* y is x with v moved to the free machine register p.
Bound(x, y, v, p) ==
  /\ DOMAIN y = Fields
  /\ y.loc = [x.loc EXCEPT ![v] = "REG"]
  /\ y.p = [x.p EXCEPT ![v] = p]
  /\ y.p2v = [q \in PRegs |-> IF q = p THEN v ELSE IF x.p2v[q] = v THEN NO_VREG ELSE x.p2v[q]]
  /\ y.offs = x.offs /\ y.frame = x.frame /\ y.mem = x.mem /\ y.frm = x.frm
  /\ y.fail = x.fail
  /\ y.synced \in [VRegs -> BOOLEAN]
  /\ \A w \in VRegs : w # v => (y.synced[w] <=> x.synced[w])
  /\ DOMAIN y.reg = PRegs
  /\ \A q \in PRegs : q # p => y.reg[q] = x.reg[q]

\* Moving a register to a free machine register disturbs no other.
LEMMA BoundKeeps ==
  ASSUME NEW x, Allocator(x), NEW v \in VRegs, NEW p \in PRegs \ FIXED, x.p2v[p] = NO_VREG,
         NEW y, Bound(x, y, v, p)
  PROVE  /\ Allocator(y)
         /\ \A e : \A w \in VRegs : w # v /\ Kept(x, e, w) => Kept(y, e, w)
<1>1. Typed(x) /\ Coherent(x) /\ Slots(x)
  BY Zenon DEF Allocator
<1>2. Typed(y)
  BY <1>1 DEF Typed, Bound, Locations
<1>3. Slots(y)
  BY <1>1 DEF Slots, Bound
<1>4. y.loc[v] = "REG" /\ y.p[v] = p
  BY <1>1, Zenon DEF Typed, Bound
<1>5. \A w \in VRegs : w # v => y.loc[w] = x.loc[w] /\ y.p[w] = x.p[w]
  BY <1>1, Zenon DEF Typed, Bound
<1>6. Coherent(y)
  <2>1. ASSUME NEW q \in PRegs, y.p2v[q] # NO_VREG
        PROVE  y.loc[y.p2v[q]] = "REG" /\ y.p[y.p2v[q]] = q
    <3>1. CASE q = p
      BY <1>4, <3>1, Zenon DEF Bound
    <3>2. CASE q # p
      <4>1. y.p2v[q] = x.p2v[q] /\ x.p2v[q] # v /\ x.p2v[q] \in VRegs
        BY <1>1, <2>1, <3>2 DEF Bound, Typed
      <4> QED
        BY <1>1, <1>5, <2>1, <4>1 DEF Coherent
    <3> QED
      BY <3>1, <3>2, Zenon
  <2>2. ASSUME NEW w \in VRegs, y.loc[w] = "REG"
        PROVE  y.p2v[y.p[w]] = w
    <3>1. CASE w = v
      BY <1>4, <3>1, Zenon DEF Bound
    <3>2. CASE w # v
      <4>1. x.loc[w] = "REG" /\ y.p[w] = x.p[w] /\ x.p[w] \in PRegs
        BY <1>1, <1>5, <2>2, <3>2, Zenon DEF Typed
      <4>2. x.p2v[x.p[w]] = w /\ x.p[w] # p
        BY <1>1, <4>1, RegsFacts DEF Coherent
      <4> QED
        BY <3>2, <4>1, <4>2 DEF Bound
    <3> QED
      BY <3>1, <3>2, Zenon
  <2>3. \A q \in FIXED : y.p2v[q] = NO_VREG
    BY <1>1, MachineAssumption DEF Coherent, Bound
  <2> QED
    BY <2>1, <2>2, <2>3, Zenon DEF Coherent
<1>7. \A g \in Gprs : y.loc[g] # "DEAD"
  BY <1>4, <1>5, RegsFacts, Zenon DEF Allocator
<1>8. ASSUME NEW e, NEW w \in VRegs, w # v, Kept(x, e, w) PROVE Kept(y, e, w)
  <2>1. x.loc[w] = "REG" => x.p[w] \in PRegs /\ x.p[w] # p
    BY <1>1, RegsFacts, Zenon DEF Coherent, Typed
  <2>2. x.loc[w] = "REG" => y.reg[y.p[w]] = x.reg[x.p[w]]
    BY <1>5, <1>8, <2>1 DEF Bound
  <2>3. InSlot(y, w) <=> InSlot(x, w)
    BY <1>5, <1>8, Zenon DEF InSlot, Bound
  <2> QED
    BY <1>5, <1>8, <2>2, <2>3, Zenon DEF Kept, Bound
<1> QED
  BY <1>2, <1>3, <1>6, <1>7, <1>8, Zenon DEF Allocator

\* The code that EmitFill emits.
LEMMA EmitFillCases ==
  ASSUME NEW s, NEW v \in VRegs
  PROVE  /\ Global(v) => EmitFill(s, v) = [s EXCEPT !.reg[s.p[v]] = s.mem[v]]
         /\ ~Global(v) /\ s.offs[v] # NO_SPILL =>
              EmitFill(s, v) = [s EXCEPT !.reg[s.p[v]] = s.frm[s.offs[v]]]
         /\ ~Global(v) /\ s.offs[v] = NO_SPILL => EmitFill(s, v) = [s EXCEPT !.fail = TRUE]
<1>1. ASSUME Global(v) PROVE EmitFill(s, v) = [s EXCEPT !.reg[s.p[v]] = s.mem[v]]
  BY <1>1, Zenon DEF EmitFill
<1>2. ASSUME ~Global(v), s.offs[v] # NO_SPILL
      PROVE  EmitFill(s, v) = [s EXCEPT !.reg[s.p[v]] = s.frm[s.offs[v]]]
  BY <1>2, Zenon DEF EmitFill
<1>3. ASSUME ~Global(v), s.offs[v] = NO_SPILL PROVE EmitFill(s, v) = [s EXCEPT !.fail = TRUE]
  BY <1>3, Zenon DEF EmitFill, Fail
<1> QED
  BY <1>1, <1>2, <1>3, Zenon

\* t is s with v in a machine register; those in avoid are as they were.
Filled(s, t, v, avoid) ==
  /\ Allocator(t)
  /\ ~s.fail /\ ~t.fail
  /\ t.loc[v] = "REG"
  /\ \A q \in avoid \cap PRegs : t.reg[q] = s.reg[q]
  /\ \A w \in VRegs : s.loc[w] = "REG" /\ s.p[w] \in avoid => t.loc[w] = "REG" /\ t.p[w] = s.p[w]
  /\ \A e : \A w \in VRegs : Kept(s, e, w) => Kept(t, e, w)

\* Fill brings a register from its slot to a free machine register.
LEMMA FillKeeps ==
  ASSUME NEW s, Allocator(s), NEW v \in VRegs, NEW desire \in SUBSET PRegs, desire # {},
         NEW avoid, FIXED \subseteq avoid,
         NEW t, t = Fill(s, v, desire, avoid), ~t.fail
  PROVE  Filled(s, t, v, avoid)
<1>1. Typed(s) /\ Coherent(s) /\ DOMAIN s = Fields /\ s.loc[v] \in Locations
  BY Zenon DEF Allocator, Typed
<1>2. PICK a : a = AllocPReg(s, desire, avoid)
  BY Zenon
<1>3. CASE s.loc[v] = "REG"
  <2>1. t = s
    BY <1>3, Zenon DEF Fill
  <2> QED
    BY <1>3, <2>1, Zenon DEF Filled
<1>4. CASE s.loc[v] = "MEM"
  <2>1. PICK y : y = [a.s EXCEPT !.p[v] = a.p, !.loc[v] = "REG",
                                 !.p2v[a.p] = v, !.synced[v] = TRUE]
    BY Zenon
  <2>2. PICK x, p : x = a.s /\ p = a.p
    BY Zenon
  <2>3. t = EmitFill(y, v)
    <3>1. s.loc[v] # "REG"
      BY <1>4, Zenon
    <3> QED
      BY <1>2, <1>4, <2>1, <3>1, Zenon DEF Fill
  <2>4. DOMAIN x = Fields
    <3>1. Stays(s, x)
      BY <1>1, <1>2, <2>2, AllocPRegStays, Zenon
    <3> QED
      BY <3>1, Zenon DEF Stays, Typed
  <2>5. DOMAIN y = Fields /\ y.fail = x.fail
    BY <2>1, <2>2, <2>4, Zenon DEF Fields
  <2>6. ~(~Global(v) /\ y.offs[v] = NO_SPILL) /\ ~x.fail
    <3>1. CASE Global(v)
      <4>1. t = [y EXCEPT !.reg[y.p[v]] = y.mem[v]]
        BY <2>3, <3>1, EmitFillCases, Zenon
      <4> QED
        BY <2>5, <3>1, <4>1, Zenon DEF Fields
    <3>2. CASE ~Global(v) /\ y.offs[v] # NO_SPILL
      <4>1. t = [y EXCEPT !.reg[y.p[v]] = y.frm[y.offs[v]]]
        BY <2>3, <3>2, EmitFillCases, Zenon
      <4> QED
        BY <2>5, <3>2, <4>1, Zenon DEF Fields
    <3>3. CASE ~Global(v) /\ y.offs[v] = NO_SPILL
      <4>1. t = [y EXCEPT !.fail = TRUE]
        BY <2>3, <3>3, EmitFillCases, Zenon
      <4> QED
        BY <2>5, <4>1, Zenon DEF Fields
    <3> QED
      BY <3>1, <3>2, <3>3, Zenon
  <2>7. Taken(s, x, p, desire, avoid)
    BY <1>2, <2>2, <2>6, AllocPRegKeeps, Zenon
  <2>8. p \in PRegs \ avoid /\ p \in PRegs \ FIXED /\ Allocator(x) /\ Typed(x)
    BY <2>7, Zenon DEF Taken, Allocator
  <2>9. x.loc[v] = "MEM" /\ x.p2v[p] = NO_VREG
    <3>1. v # s.p2v[p]
      BY <1>4, <2>8, HolderInReg, Zenon
    <3>2. x.loc[v] = "MEM"
      BY <1>4, <2>7, <3>1, Zenon DEF Taken
    <3>3. x.p2v[p] = NO_VREG
      BY <1>1, <2>7, <2>8, Zenon DEF Taken, Typed
    <3> QED
      BY <3>2, <3>3, Zenon
  <2>10. /\ y.loc = [x.loc EXCEPT ![v] = "REG"] /\ y.p = [x.p EXCEPT ![v] = p]
         /\ y.p2v = [x.p2v EXCEPT ![p] = v] /\ y.synced = [x.synced EXCEPT ![v] = TRUE]
         /\ y.offs = x.offs /\ y.frame = x.frame /\ y.reg = x.reg /\ y.mem = x.mem
         /\ y.frm = x.frm
    BY <2>1, <2>2, <2>4, Zenon DEF Fields
  <2>11. y.p[v] = p
    BY <2>8, <2>10, Zenon DEF Typed
  <2>12. PICK val : /\ t = [y EXCEPT !.reg[p] = val]
                    /\ Global(v) => val = x.mem[v]
                    /\ ~Global(v) => x.offs[v] # NO_SPILL /\ val = x.frm[x.offs[v]]
    <3>1. CASE Global(v)
      <4>1. t = [y EXCEPT !.reg[y.p[v]] = y.mem[v]]
        BY <2>3, <3>1, EmitFillCases, Zenon
      <4> QED
        BY <2>10, <2>11, <3>1, <4>1, Zenon
    <3>2. CASE ~Global(v)
      <4>1. t = [y EXCEPT !.reg[y.p[v]] = y.frm[y.offs[v]]] /\ y.offs[v] # NO_SPILL
        BY <2>3, <2>6, <3>2, EmitFillCases, Zenon
      <4> QED
        BY <2>10, <2>11, <3>2, <4>1, Zenon
    <3> QED
      BY <3>1, <3>2, Zenon
  <2>13. /\ DOMAIN t = Fields
         /\ t.loc = y.loc /\ t.p = y.p /\ t.p2v = y.p2v /\ t.synced = y.synced
         /\ t.offs = y.offs /\ t.frame = y.frame /\ t.mem = y.mem /\ t.frm = y.frm
         /\ t.fail = y.fail /\ t.reg = [y.reg EXCEPT ![p] = val]
    BY <2>5, <2>12, Zenon DEF Fields
  <2>14. Bound(x, t, v, p)
    <3>1. \A q \in PRegs : x.p2v[q] # v
      BY <2>8, <2>9, RegsFacts DEF Allocator, Coherent
    <3>2. t.p2v = [q \in PRegs |-> IF q = p THEN v
                                   ELSE IF x.p2v[q] = v THEN NO_VREG ELSE x.p2v[q]]
      BY <2>8, <2>10, <2>13, <3>1 DEF Typed
    <3>3. /\ t.synced \in [VRegs -> BOOLEAN]
          /\ \A w \in VRegs : w # v => (t.synced[w] <=> x.synced[w])
      BY <2>8, <2>10, <2>13 DEF Typed
    <3>4. DOMAIN t.reg = PRegs /\ \A q \in PRegs : q # p => t.reg[q] = x.reg[q]
      BY <2>8, <2>10, <2>13 DEF Typed
    <3> QED
      BY <2>5, <2>10, <2>13, <3>2, <3>3, <3>4, Zenon DEF Bound
  <2>15. Allocator(t) /\ \A e : \A w \in VRegs : w # v /\ Kept(x, e, w) => Kept(t, e, w)
    BY <2>8, <2>9, <2>14, BoundKeeps, Zenon
  <2>16. t.loc[v] = "REG" /\ t.p[v] = p /\ t.reg[p] = val
    BY <2>8, <2>10, <2>13 DEF Typed
  <2>17. ASSUME NEW e, NEW w \in VRegs, Kept(s, e, w) PROVE Kept(t, e, w)
    <3>1. Kept(x, e, w)
      BY <2>7, <2>17, Zenon DEF Taken
    <3>2. CASE w # v
      BY <2>15, <3>1, <3>2, Zenon
    <3>3. CASE w = v
      <4>1. val = e[v]
        BY <2>9, <2>12, <3>1, <3>3, Zenon DEF Kept, InSlot
      <4>2. Global(v) => t.mem[v] = e[v]
        BY <2>10, <2>12, <2>13, <4>1
      <4>3. ~Global(v) => t.offs[v] # NO_SPILL /\ t.frm[t.offs[v]] = e[v]
        BY <2>10, <2>12, <2>13, <4>1
      <4> QED
        BY <2>16, <3>3, <4>1, <4>2, <4>3, Zenon DEF Kept
    <3> QED
      BY <3>2, <3>3, Zenon
  <2>18. \A q \in avoid \cap PRegs : t.reg[q] = s.reg[q]
    BY <2>7, <2>8, <2>14 DEF Taken, Bound
  <2>19. ASSUME NEW w \in VRegs, s.loc[w] = "REG", s.p[w] \in avoid
         PROVE  t.loc[w] = "REG" /\ t.p[w] = s.p[w]
    <3>1. w # v /\ w # s.p2v[p]
      BY <1>4, <2>8, <2>19, HolderInReg
    <3>2. x.loc[w] = s.loc[w] /\ x.p[w] = s.p[w]
      BY <2>7, <3>1, Zenon DEF Taken
    <3> QED
      BY <2>8, <2>10, <2>13, <2>19, <3>1, <3>2 DEF Typed
  <2>20. ~s.fail
    BY <2>7, Zenon DEF Taken
  <2> QED
    BY <2>15, <2>16, <2>17, <2>18, <2>19, <2>20, Zenon DEF Filled
<1>5. CASE s.loc[v] = "DEAD"
  <2>1. t = [s EXCEPT !.fail = TRUE]
    <3>1. s.loc[v] # "REG" /\ s.loc[v] # "MEM"
      BY <1>5, Zenon
    <3> QED
      BY <3>1, Zenon DEF Fill, Fail
  <2> QED
    BY <1>1, <2>1, Zenon DEF Fields
<1> QED
  BY <1>1, <1>3, <1>4, <1>5, Zenon DEF Locations

-----------------------------------------------------------------------------
(* Boundaries *)

\* t is s with the values of all globals in their slots as well.
GlobalsSynced(s, t) ==
  /\ Allocator(t)
  /\ t.loc = s.loc /\ t.p = s.p /\ t.p2v = s.p2v /\ t.reg = s.reg /\ t.fail = s.fail
  /\ \A g \in Gprs : InSlot(t, g)
  /\ \A e : \A w \in VRegs : Kept(s, e, w) => Kept(t, e, w)

\* SyncGlobals puts the values of all globals in their slots.
LEMMA SyncGlobalsKeeps ==
  ASSUME NEW s, Allocator(s), NEW t, t = SyncGlobals(s)
  PROVE  GlobalsSynced(s, t)
<1>1. Typed(s) /\ Coherent(s) /\ Slots(s) /\ DOMAIN s = Fields
  BY Zenon DEF Allocator, Typed
<1> DEFINE dirty == {g \in Gprs : s.loc[g] = "REG" /\ ~s.synced[g]}
           dead  == \E g \in Gprs : s.loc[g] = "DEAD" /\ ~s.synced[g]
<1>2. /\ DOMAIN t = Fields
      /\ t.loc = s.loc /\ t.p = s.p /\ t.p2v = s.p2v /\ t.reg = s.reg
      /\ t.offs = s.offs /\ t.frame = s.frame /\ t.frm = s.frm
      /\ t.mem = [g \in DOMAIN s.mem |-> IF g \in dirty THEN s.reg[s.p[g]] ELSE s.mem[g]]
      /\ t.synced = [v \in VRegs |-> v \in dirty \/ s.synced[v]]
      /\ t.fail = (s.fail \/ dead)
  <2> HIDE DEF dead
  <2>1. t = [s EXCEPT !.mem = [g \in DOMAIN @ |-> IF g \in dirty THEN s.reg[s.p[g]] ELSE @[g]],
                      !.synced = [v \in VRegs |-> v \in dirty \/ @[v]],
                      !.fail = @ \/ dead]
    BY Zenon DEF SyncGlobals, dead
  <2> HIDE DEF dirty
  <2> QED
    BY <1>1, <2>1, Zenon DEF Fields
<1>3. ~dead
  BY Zenon DEF Allocator
<1>4. t.fail = s.fail
  <2>1. s.fail \in BOOLEAN
    BY <1>1, Zenon DEF Typed
  <2> HIDE DEF dead
  <2> QED
    BY <1>2, <1>3, <2>1, Zenon
<1>5. \A w \in VRegs : /\ w \in dirty => t.synced[w]
                       /\ w \notin dirty => (t.synced[w] <=> s.synced[w])
  <2> HIDE DEF dirty
  <2> QED
    BY <1>1, <1>2, Zenon DEF Typed
<1>6. \A w \in VRegs : w \in dirty => Global(w) /\ s.loc[w] = "REG" /\ t.mem[w] = s.reg[s.p[w]]
  BY <1>1, <1>2, RegsFacts, Zenon DEF Global, Typed
<1>7. \A w \in VRegs : w \notin dirty /\ Global(w) => t.mem[w] = s.mem[w]
  <2> HIDE DEF dirty
  <2> QED
    BY <1>1, <1>2, RegsFacts, Zenon DEF Global, Typed
<1>8. Typed(t)
  <2> HIDE DEF dirty
  <2>1. t.synced \in [VRegs -> BOOLEAN] /\ DOMAIN t.mem = 0 .. N_GPR
    BY <1>1, <1>2, Zenon DEF Typed
  <2> QED
    BY <1>1, <1>2, <1>4, <2>1, Zenon DEF Typed
<1>9. Slots(t) /\ Coherent(t) /\ \A g \in Gprs : t.loc[g] # "DEAD"
  BY <1>1, <1>2 DEF Slots, Coherent, Allocator
<1>10. ASSUME NEW g \in Gprs PROVE InSlot(t, g)
  <2>1. g \in VRegs /\ s.loc[g] \in {"MEM", "REG"}
    BY <1>1, RegsFacts, Zenon DEF Allocator, Typed, Locations
  <2>2. g \in dirty \/ s.loc[g] = "MEM" \/ s.synced[g]
    BY <2>1, Zenon
  <2> HIDE DEF dirty
  <2> QED
    BY <1>2, <1>5, <2>1, <2>2, Zenon DEF InSlot
<1>11. ASSUME NEW e, NEW w \in VRegs, Kept(s, e, w) PROVE Kept(t, e, w)
  <2>1. CASE w \in dirty
    <3>1. t.loc[w] = "REG" /\ t.reg[t.p[w]] = e[w] /\ t.mem[w] = e[w] /\ Global(w)
      BY <1>2, <1>6, <1>11, <2>1, Zenon DEF Kept
    <3> QED
      BY <3>1, Zenon DEF Kept
  <2>2. CASE w \notin dirty
    <3> HIDE DEF dirty
    <3>1. InSlot(t, w) <=> InSlot(s, w)
      BY <1>2, <1>5, <2>2, Zenon DEF InSlot
    <3> QED
      BY <1>2, <1>7, <1>11, <2>2, <3>1, Zenon DEF Kept
  <2> QED
    BY <2>1, <2>2, Zenon
<1> QED
  BY <1>2, <1>4, <1>8, <1>9, <1>10, <1>11, Zenon DEF GlobalsSynced, Allocator

\* t is s with all globals in their slots and in no machine register.
GlobalsSpilled(s, t) ==
  /\ Allocator(t)
  /\ t.reg = s.reg /\ t.fail = s.fail
  /\ \A g \in Gprs : t.loc[g] = "MEM"
  /\ \A p \in PRegs : s.p2v[p] = NO_VREG => t.p2v[p] = NO_VREG
  /\ \A e : \A g \in Gprs : Kept(s, e, g) => Kept(t, e, g) /\ t.mem[g] = e[g]

\* Between blocks the globals are in their slots and the locals where they were.
LEMMA SpillGlobalsKeeps ==
  ASSUME NEW s, Allocator(s), NEW t, t = SpillGlobals(s)
  PROVE  /\ GlobalsSpilled(s, t)
         /\ \A e : \A w \in VRegs : Kept(s, e, w) => Kept(t, e, w)
<1>1. PICK u : u = SyncGlobals(s)
  BY Zenon
<1>2. GlobalsSynced(s, u)
  BY <1>1, SyncGlobalsKeeps, Zenon
<1>3. Gprs \in SUBSET VRegs
  BY RegsFacts, Zenon
<1>4. Released(u, t, Gprs)
  BY <1>1, <1>2, <1>3, ReleaseFields, Zenon DEF SpillGlobals, GlobalsSynced
<1>5. /\ Allocator(t)
      /\ \A e : \A w \in VRegs :
           Kept(u, e, w) /\ (w \in Gprs => InSlot(u, w)) => Kept(t, e, w)
  BY <1>2, <1>3, <1>4, ReleaseKeeps, Zenon DEF GlobalsSynced
<1>6. \A e : \A w \in VRegs : Kept(s, e, w) => Kept(t, e, w)
  BY <1>2, <1>5, Zenon DEF GlobalsSynced
<1>7. \A g \in Gprs : t.loc[g] = "MEM"
  BY <1>3, <1>4, Zenon DEF Released
<1>8. t.reg = s.reg /\ t.fail = s.fail /\ t.p2v = [p \in PRegs |-> IF s.p2v[p] \in Gprs
                                                                   THEN NO_VREG ELSE s.p2v[p]]
  BY <1>2, <1>4, Zenon DEF Released, GlobalsSynced
<1>9. \A e : \A g \in Gprs : Kept(s, e, g) => Kept(t, e, g) /\ t.mem[g] = e[g]
  BY <1>3, <1>6, <1>7 DEF Kept, InSlot, Global
<1> QED
  BY <1>5, <1>6, <1>7, <1>8, <1>9, Zenon DEF GlobalsSpilled

\* At the end of a region the globals are in their slots.
LEMMA RegionBoundaryKeeps ==
  ASSUME NEW s, Allocator(s), NEW t, t = RegionBoundary(s)
  PROVE  GlobalsSpilled(s, t)
<1>1. PICK u : u = SyncGlobals(s)
  BY Zenon
<1>2. GlobalsSynced(s, u)
  BY <1>1, SyncGlobalsKeeps, Zenon
<1>3. VRegs \in SUBSET VRegs /\ Gprs \subseteq VRegs
  BY RegsFacts, Zenon
<1>4. Released(u, t, VRegs)
  BY <1>1, <1>2, <1>3, ReleaseFields, Zenon DEF RegionBoundary, GlobalsSynced
<1>5. /\ Allocator(t)
      /\ \A e : \A w \in VRegs :
           Kept(u, e, w) /\ (w \in VRegs => InSlot(u, w)) => Kept(t, e, w)
  BY <1>2, <1>3, <1>4, ReleaseKeeps, Zenon DEF GlobalsSynced
<1>6. \A e : \A g \in Gprs : Kept(s, e, g) => Kept(t, e, g)
  BY <1>2, <1>3, <1>5, Zenon DEF GlobalsSynced
<1>7. \A g \in Gprs : t.loc[g] = "MEM"
  BY <1>3, <1>4, Zenon DEF Released
<1>8. t.reg = s.reg /\ t.fail = s.fail /\ \A p \in PRegs : s.p2v[p] = NO_VREG => t.p2v[p] = NO_VREG
  BY <1>2, <1>4 DEF Released, GlobalsSynced
<1>9. \A e : \A g \in Gprs : Kept(s, e, g) => Kept(t, e, g) /\ t.mem[g] = e[g]
  BY <1>3, <1>6, <1>7 DEF Kept, InSlot, Global
<1> QED
  BY <1>5, <1>7, <1>8, <1>9, Zenon DEF GlobalsSpilled

-----------------------------------------------------------------------------
(* CallOp *)

\* f[k] is the allocator after the registers below k that a call clobbers.
Clobbered(s, f) ==
  f = [k \in 0 .. N_PREGS |-> IF k = 0 THEN s ELSE SpillClobbered(f[k - 1], k - 1)]

\* The recursion of CallOp is over the machine registers.
LEMMA ClobberedExists ==
  ASSUME NEW s
  PROVE  \E f : Clobbered(s, f)
<1> DEFINE Upto(m, f) ==
             f = [k \in 0 .. m |-> IF k = 0 THEN s ELSE SpillClobbered(f[k - 1], k - 1)]
           T == {m \in Nat : ~\E f : Upto(m, f)}
<1>1. ASSUME T # {} PROVE FALSE
  <2>1. PICK m \in T : \A y \in T : m <= y
    BY <1>1, LeastNatural, Zenon
  <2>2. CASE m = 0
    <3>1. Upto(0, [k \in 0 .. 0 |-> s])
      OBVIOUS
    <3> QED
      BY <2>1, <2>2, <3>1, Zenon
  <2>3. CASE m # 0
    <3>1. m \in Nat /\ m - 1 \in Nat /\ m - 1 \notin T
      <4>1. m \in Nat
        BY <2>1, Zenon
      <4> HIDE DEF T
      <4> QED
        BY <2>1, <2>3, <4>1
    <3>2. PICK f : Upto(m - 1, f)
      BY <3>1, Zenon
    <3>3. PICK g : g = [k \in 0 .. m |-> IF k = m THEN SpillClobbered(f[m - 1], m - 1) ELSE f[k]]
      BY Zenon
    <3>4. \A k \in 0 .. m - 1 : /\ g[k] = f[k]
                                /\ f[k] = IF k = 0 THEN s ELSE SpillClobbered(f[k - 1], k - 1)
      BY <3>1, <3>2, <3>3
    <3>5. g[m] = SpillClobbered(g[m - 1], m - 1)
      BY <3>1, <3>3, <3>4
    <3>6. \A k \in 0 .. m : g[k] = IF k = 0 THEN s ELSE SpillClobbered(g[k - 1], k - 1)
      <4>1. ASSUME NEW k \in 0 .. m - 1
            PROVE  g[k] = IF k = 0 THEN s ELSE SpillClobbered(g[k - 1], k - 1)
        <5>1. CASE k = 0
          BY <3>4, <5>1, Zenon
        <5>2. CASE k # 0
          <6>1. k - 1 \in 0 .. m - 1
            BY <3>1, <5>2
          <6> QED
            BY <3>4, <5>2, <6>1, Zenon
        <5> QED
          BY <5>1, <5>2, Zenon
      <4>2. \A k \in 0 .. m : k = m \/ k \in 0 .. m - 1
        BY <3>1
      <4> QED
        BY <2>3, <3>5, <4>1, <4>2, Zenon
    <3>7. Upto(m, g)
      BY <3>3, <3>6, Zenon
    <3> QED
      BY <2>1, <3>7, Zenon
  <2> QED
    BY <2>2, <2>3, Zenon
<1>2. \E f : Upto(N_PREGS, f)
  BY <1>1, MachineAssumption, Zenon
<1> QED
  BY <1>2, Zenon DEF Clobbered

\* CallOp with its recursion unfolded.
LEMMA CallOpUnfolded ==
  ASSUME NEW s
  PROVE  \E f : Clobbered(s, f) /\ CallOp(s) = SpillGlobals(f[N_PREGS])
<1> DEFINE after == CHOOSE f : Clobbered(s, f)
<1>1. Clobbered(s, after)
  BY ClobberedExists, Zenon
<1>2. CallOp(s) = SpillGlobals(after[N_PREGS])
  BY Zenon DEF CallOp, Clobbered
<1> QED
  BY <1>1, <1>2, Zenon

\* t is s with the registers that a call clobbers, below k, in no use.
Cleared(s, t, k) ==
  /\ Allocator(t)
  /\ s.fail => t.fail
  /\ \A p \in PRegs : p < k /\ p \in CALL_CLOBBER => t.p2v[p] = NO_VREG
  /\ ~t.fail => \A e : \A w \in VRegs : Kept(s, e, w) => Kept(t, e, w)

\* One step of the loop of CallOp.
LEMMA SpillClobberedKeeps ==
  ASSUME NEW s, NEW t, NEW q \in PRegs, Cleared(s, t, q)
  PROVE  Cleared(s, SpillClobbered(t, q), q + 1)
<1>1. Allocator(t) /\ q \in Nat /\ \A p \in PRegs : p \in Nat /\ (p < q + 1 => p < q \/ p = q)
  BY RegsFacts DEF Cleared
<1>2. CASE q \in CALL_CLOBBER /\ t.p2v[q] # NO_VREG
  <2>1. PICK u : u = Spill(t, t.p2v[q])
    BY Zenon
  <2>2. SpillClobbered(t, q) = u
    BY <1>2, <2>1, Zenon DEF SpillClobbered
  <2>3. Evicted(t, u, q)
    BY <1>1, <1>2, <2>1, SpillKeeps, Zenon
  <2>4. \A p \in PRegs : p < q + 1 /\ p \in CALL_CLOBBER => u.p2v[p] = NO_VREG
    <3>1. t.p2v \in [PRegs -> VRegs \cup {NO_VREG}] /\ u.p2v = [t.p2v EXCEPT ![q] = NO_VREG]
      BY <1>1, <2>3, Zenon DEF Allocator, Typed, Evicted
    <3> QED
      BY <1>1, <3>1, Zenon DEF Cleared
  <2>5. /\ Allocator(u) /\ (s.fail => u.fail)
        /\ ~u.fail => \A e : \A w \in VRegs : Kept(s, e, w) => Kept(u, e, w)
    BY <2>3, Zenon DEF Evicted, Cleared
  <2> QED
    BY <2>2, <2>4, <2>5, Zenon DEF Cleared
<1>3. CASE ~(q \in CALL_CLOBBER /\ t.p2v[q] # NO_VREG)
  <2>1. SpillClobbered(t, q) = t
    BY <1>3, Zenon DEF SpillClobbered
  <2>2. \A p \in PRegs : p < q + 1 /\ p \in CALL_CLOBBER => t.p2v[p] = NO_VREG
    BY <1>1, <1>3, Zenon DEF Cleared
  <2> QED
    BY <2>1, <2>2, Zenon DEF Cleared
<1> QED
  BY <1>2, <1>3, Zenon

\* Before a call the globals are in their slots, and no register of the region is
\* in a machine register that the call clobbers.
LEMMA CallOpKeeps ==
  ASSUME NEW s, Allocator(s), NEW t, t = CallOp(s)
  PROVE  /\ Allocator(t)
         /\ \A g \in Gprs : t.loc[g] = "MEM"
         /\ \A p \in PRegs : p \in CALL_CLOBBER => t.p2v[p] = NO_VREG
         /\ ~t.fail => \A e : \A w \in VRegs : Kept(s, e, w) => Kept(t, e, w)
<1>1. PICK f : Clobbered(s, f) /\ t = SpillGlobals(f[N_PREGS])
  BY CallOpUnfolded, Zenon
<1>2. f[0] = s /\ \A q \in PRegs : f[q + 1] = SpillClobbered(f[q], q)
  <2>1. \A k \in 0 .. N_PREGS : f[k] = IF k = 0 THEN s ELSE SpillClobbered(f[k - 1], k - 1)
    BY <1>1, Zenon DEF Clobbered
  <2>2. \A q \in PRegs : q + 1 \in 0 .. N_PREGS /\ q + 1 # 0 /\ (q + 1) - 1 = q
    BY MachineAssumption DEF PRegs
  <2> QED
    BY <2>1, <2>2, MachineAssumption
<1>3. Cleared(s, f[0], 0)
  BY <1>2, RegsFacts DEF Cleared
<1>4. Cleared(s, f[N_PREGS], N_PREGS)
  <2> DEFINE T == {k \in Nat : k <= N_PREGS /\ ~Cleared(s, f[k], k)}
  <2>1. ASSUME T # {} PROVE FALSE
    <3>1. PICK m \in T : \A y \in T : m <= y
      BY <2>1, LeastNatural, Zenon
    <3>2. m \in Nat /\ m # 0 /\ m <= N_PREGS /\ ~Cleared(s, f[m], m)
      BY <1>3, <3>1, Zenon
    <3>3. PICK q \in PRegs : m = q + 1
      <4>1. m - 1 \in PRegs
        BY <3>2, MachineAssumption DEF PRegs
      <4> QED
        BY <3>2, <4>1
    <3>4. q \in Nat /\ q <= N_PREGS /\ q \notin T
      <4>1. q \in Nat /\ q <= N_PREGS
        BY <3>2, <3>3, RegsFacts, MachineAssumption
      <4> HIDE DEF T
      <4> QED
        BY <3>1, <3>2, <3>3, <4>1
    <3>5. Cleared(s, f[q], q)
      BY <3>4, Zenon
    <3> QED
      BY <1>2, <3>2, <3>3, <3>5, SpillClobberedKeeps, Zenon
  <2> QED
    BY <2>1, MachineAssumption
<1>5. PICK u : u = f[N_PREGS]
  BY Zenon
<1>6. /\ GlobalsSpilled(u, t)
      /\ \A e : \A w \in VRegs : Kept(u, e, w) => Kept(t, e, w)
  BY <1>1, <1>4, <1>5, SpillGlobalsKeeps, Zenon DEF Cleared
<1>7. t.fail = u.fail
  BY <1>6, Zenon DEF GlobalsSpilled
<1>8. \A p \in PRegs : p < N_PREGS
  BY MachineAssumption DEF PRegs
<1>9. \A p \in PRegs : p \in CALL_CLOBBER => t.p2v[p] = NO_VREG
  BY <1>4, <1>5, <1>6, <1>8, Zenon DEF Cleared, GlobalsSpilled
<1> QED
  BY <1>4, <1>5, <1>6, <1>7, <1>9, Zenon DEF Cleared, GlobalsSpilled

-----------------------------------------------------------------------------
(* Operations that fail, and machine registers that are written *)

\* SyncGlobals keeps the fields.
LEMMA SyncGlobalsStays ==
  ASSUME NEW s, Typed(s)
  PROVE  Stays(s, SyncGlobals(s))
<1>1. DOMAIN s = Fields /\ s.fail \in BOOLEAN
  BY Zenon DEF Typed
<1>2. PICK t : t = SyncGlobals(s)
  BY Zenon
<1> DEFINE dirty == {g \in Gprs : s.loc[g] = "REG" /\ ~s.synced[g]}
           dead  == \E g \in Gprs : s.loc[g] = "DEAD" /\ ~s.synced[g]
<1>3. t = [s EXCEPT !.mem = [g \in DOMAIN @ |-> IF g \in dirty THEN s.reg[s.p[g]] ELSE @[g]],
                    !.synced = [v \in VRegs |-> v \in dirty \/ @[v]],
                    !.fail = @ \/ dead]
  BY <1>2, Zenon DEF SyncGlobals
<1>4. 0 \notin dirty
  BY IpFacts, Zenon
<1> HIDE DEF dirty, dead
<1>5. /\ DOMAIN t = Fields
      /\ t.loc = s.loc /\ t.p = s.p /\ t.p2v = s.p2v /\ t.reg = s.reg
      /\ t.offs = s.offs /\ t.frame = s.frame /\ t.frm = s.frm
      /\ t.mem = [g \in DOMAIN s.mem |-> IF g \in dirty THEN s.reg[s.p[g]] ELSE s.mem[g]]
      /\ t.synced = [v \in VRegs |-> v \in dirty \/ s.synced[v]]
      /\ t.fail = (s.fail \/ dead)
  BY <1>1, <1>3, Zenon DEF Fields
<1>6. t.fail \in BOOLEAN /\ (s.fail => t.fail)
  BY <1>1, <1>5, Zenon
<1>7. t.synced \in [VRegs -> BOOLEAN] /\ DOMAIN t.mem = 0 .. N_GPR
  BY <1>5, Zenon DEF Typed
<1>8. Typed(t)
  BY <1>5, <1>6, <1>7, Zenon DEF Typed
<1>9. t.mem[0] = s.mem[0]
  <2>1. 0 \in DOMAIN s.mem
    BY IpFacts, Zenon DEF Typed
  <2> QED
    BY <1>4, <1>5, <2>1, Zenon
<1> QED
  BY <1>2, <1>6, <1>8, <1>9, Zenon DEF Stays

\* t is s with val in the machine register q.
Wrote(s, t, q, val) ==
  /\ DOMAIN t = Fields /\ t.fail = s.fail
  /\ t.loc = s.loc /\ t.p = s.p /\ t.p2v = s.p2v /\ t.synced = s.synced
  /\ t.mem = s.mem /\ t.frm = s.frm /\ t.offs = s.offs /\ t.frame = s.frame
  /\ t.reg = [s.reg EXCEPT ![q] = val]

\* t is s with nothing disturbed but v.
OthersKept(s, t, v) ==
  /\ Allocator(t)
  /\ \A e : \A w \in VRegs : w # v /\ Kept(s, e, w) => Kept(t, e, w)

\* Writing a machine register disturbs only the register of the region that
\* holds it.
LEMMA WroteKeeps ==
  ASSUME NEW s, Typed(s), NEW q \in PRegs, NEW val, NEW t, t = [s EXCEPT !.reg[q] = val]
  PROVE  /\ Wrote(s, t, q, val)
         /\ Stays(s, t)
         /\ t.reg[q] = val
         /\ Allocator(s) => OthersKept(s, t, s.p2v[q])
<1>1. Wrote(s, t, q, val)
  BY Zenon DEF Wrote, Typed, Fields
<1>2. DOMAIN t.reg = PRegs /\ t.reg[q] = val
  BY <1>1, Zenon DEF Wrote, Typed
<1>3. Typed(t)
  BY <1>1, <1>2, Zenon DEF Wrote, Typed
<1>4. ASSUME Allocator(s)
      PROVE  OthersKept(s, t, s.p2v[q])
  <2>1. Coherent(t) /\ Slots(t) /\ \A g \in Gprs : t.loc[g] # "DEAD"
    BY <1>1, <1>4 DEF Allocator, Coherent, Slots, Wrote
  <2>2. ASSUME NEW e, NEW w \in VRegs, w # s.p2v[q], Kept(s, e, w) PROVE Kept(t, e, w)
    <3>1. s.loc[w] = "REG" => s.p[w] # q /\ s.p[w] \in PRegs
      BY <1>4, <2>2, Zenon DEF Allocator, Coherent, Typed
    <3>2. s.loc[w] = "REG" => t.reg[t.p[w]] = s.reg[s.p[w]]
      BY <1>1, <3>1 DEF Wrote, Typed
    <3>3. InSlot(t, w) <=> InSlot(s, w)
      BY <1>1, Zenon DEF InSlot, Wrote
    <3> QED
      BY <1>1, <2>2, <3>2, <3>3, Zenon DEF Kept, Wrote
  <2> QED
    BY <1>3, <2>1, <2>2, Zenon DEF Allocator, OthersKept
<1> QED
  BY <1>1, <1>2, <1>3, <1>4, Zenon DEF Stays, Wrote

\* Fill keeps the fields.
LEMMA FillStays ==
  ASSUME NEW s, Typed(s), NEW v \in VRegs, NEW desire \in SUBSET PRegs, desire # {},
         NEW avoid
  PROVE  Stays(s, Fill(s, v, desire, avoid))
<1>1. PICK a : a = AllocPReg(s, desire, avoid)
  BY Zenon
<1>2. CASE s.loc[v] = "REG"
  <2>1. Fill(s, v, desire, avoid) = s
    BY <1>2, Zenon DEF Fill
  <2> QED
    BY <2>1, Zenon DEF Stays
<1>3. CASE s.loc[v] = "MEM"
  <2>1. PICK y : y = [a.s EXCEPT !.p[v] = a.p, !.loc[v] = "REG",
                                 !.p2v[a.p] = v, !.synced[v] = TRUE]
    BY Zenon
  <2>2. PICK x, p : x = a.s /\ p = a.p
    BY Zenon
  <2>3. PICK t : t = EmitFill(y, v)
    BY Zenon
  <2>4. Fill(s, v, desire, avoid) = t
    <3>1. s.loc[v] # "REG"
      BY <1>3, Zenon
    <3> QED
      BY <1>1, <1>3, <2>1, <2>3, <3>1, Zenon DEF Fill
  <2>5. Stays(s, x) /\ p \in PRegs
    BY <1>1, <2>2, AllocPRegStays, Zenon
  <2>6. Typed(x) /\ DOMAIN x = Fields
    BY <2>5, Zenon DEF Stays, Typed
  <2>7. /\ DOMAIN y = Fields
        /\ y.loc = [x.loc EXCEPT ![v] = "REG"] /\ y.p = [x.p EXCEPT ![v] = p]
        /\ y.p2v = [x.p2v EXCEPT ![p] = v] /\ y.synced = [x.synced EXCEPT ![v] = TRUE]
        /\ y.offs = x.offs /\ y.frame = x.frame /\ y.reg = x.reg /\ y.mem = x.mem
        /\ y.frm = x.frm /\ y.fail = x.fail
    BY <2>1, <2>2, <2>6, Zenon DEF Fields
  <2>8. y.loc \in [VRegs -> Locations] /\ y.p \in [VRegs -> PRegs]
    BY <2>5, <2>6, <2>7 DEF Typed, Locations
  <2>9. y.synced \in [VRegs -> BOOLEAN] /\ y.p2v \in [PRegs -> VRegs \cup {NO_VREG}]
    BY <2>5, <2>6, <2>7 DEF Typed
  <2>10. Stays(x, y)
    BY <2>6, <2>7, <2>8, <2>9, Zenon DEF Stays, Typed
  <2>11. Stays(y, t)
    <3>1. y.p[v] \in PRegs /\ Typed(y)
      BY <2>8, <2>10, Zenon DEF Stays
    <3>2. CASE Global(v)
      <4>1. t = [y EXCEPT !.reg[y.p[v]] = y.mem[v]]
        BY <2>3, <3>2, EmitFillCases, Zenon
      <4> QED
        BY <3>1, <4>1, WroteKeeps
    <3>3. CASE ~Global(v) /\ y.offs[v] # NO_SPILL
      <4>1. t = [y EXCEPT !.reg[y.p[v]] = y.frm[y.offs[v]]]
        BY <2>3, <3>3, EmitFillCases, Zenon
      <4> QED
        BY <3>1, <4>1, WroteKeeps
    <3>4. CASE ~Global(v) /\ y.offs[v] = NO_SPILL
      <4>1. t = Fail(y)
        BY <2>3, <3>4, EmitFillCases, Zenon DEF Fail
      <4> QED
        BY <2>10, <4>1, FailStays, Zenon DEF Stays
    <3> QED
      BY <3>2, <3>3, <3>4, Zenon
  <2> QED
    BY <2>4, <2>5, <2>10, <2>11, Zenon DEF Stays
<1>4. CASE s.loc[v] # "REG" /\ s.loc[v] # "MEM"
  <2>1. Fill(s, v, desire, avoid) = Fail(s)
    BY <1>4, Zenon DEF Fill
  <2> QED
    BY <2>1, FailStays, Zenon
<1> QED
  BY <1>2, <1>3, <1>4, Zenon

=============================================================================
