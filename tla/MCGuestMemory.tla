--------------------------- MODULE MCGuestMemory ---------------------------
(***************************************************************************)
(* Eleven pages of two bytes: the image from page 1, the break up to page 5, *)
(* mappings of two and of five pages from page 3 on (the longer one marks the *)
(* bitmap, and the marks outlive it), the stack in page 9, the guard.       *)
(***************************************************************************)
EXTENDS GuestMemory

Ph(vaddr, filesz, memsz) == [vaddr |-> vaddr, filesz |-> filesz, memsz |-> memsz]

\* A text segment, and data segments of every alignment, with and without bss.
MCImages == {<<Ph(2, 1, 1), Ph(4 + po, f, f + b)>> : po \in 0 .. 1, f \in 0 .. 2, b \in {0, 2}}

MCBrks == {7, 8, 9, 12}

MCArgLens == UNION {[1 .. k -> 2 .. 6] : k \in 1 .. 2}

=============================================================================
