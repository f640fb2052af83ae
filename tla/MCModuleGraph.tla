---------------------------- MODULE MCModuleGraph ----------------------------
(* Code of a page for ModuleGraph. *)
EXTENDS ModuleGraph

I(op, tgts) == [op |-> op, tgts |-> tgts]

First == CHOOSE a \in Mapped : \A b \in Mapped : a <= b

\* What may end a block at a: of the branches with the same successors, one.
Branches(a) ==
  {I("jalr", {})} \cup {I("jal", {t}) : t \in Mapped}
  \cup {I("brcc", {t}) : t \in IF a + 1 \in Mapped THEN Mapped \ {a + 1} ELSE {}}

\* One-instruction blocks, the first and the third of them conditional branches: two
\* functions with two joins between them, which meet again, need five blocks.
JoinCodes ==
  {(First :> I("brcc", {t})) @@ (First + 1 :> a) @@ (First + 2 :> I("brcc", {u}))
     @@ (First + 3 :> b) @@ (First + 4 :> c) :
     t \in Mapped, u \in Mapped, a \in Branches(First + 1), b \in Branches(First + 3),
     c \in Branches(First + 4)}

\* Blocks of several instructions, cut by each other, by TB_MAX_INSNS and by the
\* page, with traps and an illegal instruction.
LegalCodes == [Mapped -> {I("mem", {}), I("jal", {First}), I("brcc", {First + 2})}]

BlockCodes == LegalCodes \cup {[c EXCEPT ![First + 2] = I(op, {})] : c \in LegalCodes, op \in {"ecall", "ill"}}

\* TLC evaluates these once, and what replaces a constant at every use.
AllCodes == JoinCodes \cup BlockCodes

MCCodes == AllCodes

\* The even blocks' mark is brind_target, the odd ones' segment_entry, and the
\* last one's is both.
Marked(ex, m) ==
  [executed |-> ex, brind_target |-> {a \in m : a % 2 = 0 \/ a + 1 \notin Mapped},
   segment_entry |-> {a \in m : a % 2 = 1}]

\* The first block is marked, alone or with the third or the fourth.
TwoMarked == {Marked(Mapped, {First, a}) : a \in {First, First + 2, First + 3}}

\* Only some of the blocks were executed.
SomeExecuted == {Marked(Mapped \ ex, {First + 1, First + 2} \ ex) : ex \in {{First, First + 3}, {First + 1}}}

AllProfiles == TwoMarked \cup SomeExecuted

MCProfiles == AllProfiles

=============================================================================
