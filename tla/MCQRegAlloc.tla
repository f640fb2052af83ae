---------------------------- MODULE MCQRegAlloc ----------------------------
(***************************************************************************)
(* Two guest registers, a pool of three machine registers (cx, si and one   *)
(* that calls preserve) besides a fixed one, regions of three locals.       *)
(***************************************************************************)
EXTENDS QRegAlloc

I(op, rd, rs1, rs2, imm) == [op |-> op, rd |-> rd, rs1 |-> rs1, rs2 |-> rs2, imm |-> imm]

R == 0 .. N_GPR

\* An offset of -1 does not fit a sign-extended immediate (match_gp_const).
Offsets == {0, -1}

\* The guest registers are interchangeable: an output is x0 or x1.
Arithmetic ==
  {I(op, 1, rs1, rs2, 0) : op \in {"sub", "sll", "slt"}, rs1 \in R, rs2 \in R}
  \cup {I("addi", rd, rs1, 0, k) : rd \in R, rs1 \in R, k \in Offsets}
  \cup {I("slli", 1, rs1, 0, -1) : rs1 \in R}
  \cup {I("slti", 1, 2, 0, -1), I("lui", 1, 0, 0, 1), I("auipc", 2, 0, 0, 1)}

Memory ==
  {I("lb", rd, rs1, 0, k) : rd \in {0, 1}, rs1 \in R, k \in Offsets}
  \cup {I("sb", 0, rs1, rs2, k) : rs1 \in {0, 1}, rs2 \in R, k \in Offsets}

Control ==
  {I("beq", 0, 1, rs2, 8) : rs2 \in R} \cup {I("beq", 0, 0, 2, 8)}
  \cup {I("jalr", rd, rs1, 0, k) : rd \in {0, 1}, rs1 \in R, k \in Offsets}
  \cup {I("jal", rd, 0, 0, 8) : rd \in {0, 1}}
  \cup {I("amoswapw", rd, 1, 2, 0) : rd \in {0, 1}}
  \cup {I(op, 0, 0, 0, 0) : op \in {"fence", "amomaxuw", "ecall", "ovf"}}

\* Loads into x0 at the address in a register.
LoadX0 == {i \in Memory : i.op = "lb" /\ i.rd = 0 /\ i.imm = 0 /\ i.rs1 # 0}

CheckedInsns == {i \in Arithmetic \cup Memory \cup Control :
                   ~(i.op = "lb" /\ i.rd = 0 /\ i.imm = 0)}

=============================================================================
