------------------------------ MODULE MCEngine ------------------------------
(***************************************************************************)
(* Instances of Engine for TLC: four pages of four instructions, the two   *)
(* middle ones mapped, and families of programs that mix straight-line     *)
(* code, loops, calls across pages, indirect branches and traps.           *)
(***************************************************************************)
EXTENDS Engine, SequencesExt

MCMapped == 4 .. 11

I(op, tgts) == [op |-> op, tgts |-> tgts]

\* Straight-line code of every kind, with the instructions of f in place.
Straight == (4 :> "mem") @@ (5 :> "fence") @@ (8 :> "amo") @@ (11 :> "mem")

Text(f) == [a \in MCMapped |-> IF a \in DOMAIN f THEN f[a]
                                ELSE IF a \in DOMAIN Straight THEN I(Straight[a], {})
                                ELSE I("alu", {})]

Jit(text, e) == [prog |-> text, entry |-> e, image |-> <<>>]

\* A call graph: a loop over two pages with a call through a register, whose
\* entry is the page start (a one-instruction block) or the middle of a page.
LoopText(br, ret) ==
  Text((6 :> I("brcc", {br})) @@ (7 :> I("jalr", {8, 9}))
       @@ (10 :> I("jalr", ret)) @@ (11 :> I("ecall", {})))

JitBoots ==
  {Jit(LoopText(br, ret), e) :
     br \in {4, 5, 9, 11}, ret \in {{5}, {4, 7}, {6, 11}}, e \in {4, 5, 7}}

\* Programs that leave mapped memory, hit an illegal instruction or fall
\* through to the last mapped address.
OddBoots ==
  {Jit(Text((5 :> I(op, t)) @@ (9 :> I("jal", {u}))), e) :
     op \in {"jal", "jalr", "brcc"}, t \in {{0}, {8, 13}, {11}},
     u \in {5, 6, 12}, e \in {4, 8, 1}}
  \cup {Jit(Text((6 :> I("brcc", {8})) @@ (7 :> I("ecall", {}))
                 @@ (9 :> I(op, {})) @@ (11 :> I("jal", {4}))), 5) : op \in IllegalOps}

AllJitBoots == JitBoots \cup OddBoots

\* An image of the blocks that start at E: BuildModuleGraph's blocks, each page
\* one region entered at its lowest block, or every block a region.
Bound(E, a) == {b \in E : b > a} \cup {(PageOf(a) + 1) * PAGE_SIZE}

BlockAt(text, E, a) ==
  CHOOSE b \in [start : {a}, end : a + 1 .. (PageOf(a) + 1) * PAGE_SIZE] :
    IsBlock(text, a, Bound(E, a), b.end)

Merged(text, E) ==
  {{BlockAt(text, E, a) : a \in {x \in E : PageOf(x) = p}} : p \in {PageOf(x) : x \in E}}

Split(text, E) == {{BlockAt(text, E, a)} : a \in E}

Entry(blocks) == CHOOSE a \in {b.start : b \in blocks} :
                   \A b \in blocks : a <= b.start

\* llvm: every known region is called directly.
Image(parts, llvm) ==
  LET region(bs) == [entry |-> Entry(bs), blocks |-> bs,
                     direct |-> IF llvm THEN {Entry(p) : p \in parts} ELSE {}]
  IN  SetToSeq({region(bs) : bs \in parts})

Aot(text, e, parts, llvm) ==
  [prog |-> text, entry |-> e, image |-> Image(parts, llvm)]

QcgBoots ==
  UNION {LET text == LoopText(br, ret)
         IN  UNION {{Aot(text, e, Merged(text, E), FALSE),
                     Aot(text, e, Split(text, E), FALSE)} :
                      E \in {{5, 7, 8}, {4, 6, 9, 11}, {5, 10}}} :
           br \in {4, 9}, ret \in {{5}, {6, 11}}, e \in {4, 7}}

\* Fewer LLVM images: every copy of inlined code has slots of its own.
LlvmBoots ==
  {LET text == LoopText(9, {5})
   IN  Aot(text, 7, Merged(text, E), TRUE) : E \in {{5, 7, 8}, {5, 10}}}

AotBoots == QcgBoots \cup LlvmBoots

EbreakBoots == {Jit(Text((5 :> I("ebreak", {})) @@ (9 :> I("jal", {4}))), 4)}

AllBoots == AllJitBoots \cup AotBoots

\* TLC evaluates AllBoots once, and what replaces a constant at every use.
MCBoots == AllBoots

\* Small pools, with ebreak and with images that do not fit.
LimitBoots == OddBoots \cup EbreakBoots \cup QcgBoots

=============================================================================
