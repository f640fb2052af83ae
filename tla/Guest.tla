-------------------------------- MODULE Guest --------------------------------
(***************************************************************************)
(* What the translator promises: a guest program runs as the interpreter's *)
(* instruction handlers run it, one instruction at a time.  Registers and  *)
(* memory are abstracted, so a conditional or indirect branch may go to    *)
(* any of its targets.                                                     *)
(***************************************************************************)
EXTENDS GuestCode

CONSTANT Programs   \* set of [prog, entry]

VARIABLES prog,     \* Mapped -> Insn, the text of the guest program
          gip,      \* address of the next guest instruction
          status    \* "run", or how the process ended

vars == <<prog, gip, status>>

Init == /\ \E p \in Programs : prog = p.prog /\ gip = p.entry
        /\ status = "run"

\* The instruction at gip can be fetched and is in one of the classes ops.
At(ops) == status = "run" /\ gip \in Mapped /\ prog[gip].op \in ops

Goto(ip) == gip' = ip /\ UNCHANGED <<prog, status>>

Seq == At(SeqOps) /\ Goto(NextIp(gip))

Jal == At({"jal"}) /\ \E t \in prog[gip].tgts : Goto(t)

Brcc == At({"brcc"}) /\ \E t \in prog[gip].tgts \cup {NextIp(gip)} : Goto(t)

Jalr == At({"jalr"}) /\ \E t \in prog[gip].tgts : Goto(t)

\* A system call resumes at the next instruction or ends the process.
Ecall == /\ At({"ecall"})
         /\ gip' = NextIp(gip)
         /\ status' \in {"run", "exited"}
         /\ UNCHANGED prog

Ebreak == At({"ebreak"}) /\ Goto(NextIp(gip))

Ill == At(IllegalOps) /\ status' = "exited" /\ UNCHANGED <<prog, gip>>

\* An access outside mapped memory ends the process.
Fault == /\ \/ status = "run" /\ gip \notin Mapped
            \/ At({"mem", "amo"})
         /\ status' = "fault" /\ gip' \in IP
         /\ UNCHANGED prog

\* The translator may give up: pool exhausted, unsupported system call.
Panic == status = "run" /\ status' = "panic" /\ gip' \in IP /\ UNCHANGED prog

Next == \/ Seq \/ Jal \/ Brcc \/ Jalr \/ Ecall \/ Ebreak \/ Ill \/ Fault \/ Panic

Spec == Init /\ [][Next]_vars

=============================================================================
