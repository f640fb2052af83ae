---------------------------- MODULE MCProfileFile ----------------------------
(* Small sessions for ProfileFile: two pages, and a block that gets other marks. *)
EXTENDS ProfileFile, TLC

B(page, po, brind, seg) == [page |-> page, po |-> po, brind |-> brind, seg |-> seg]

\* The last one needs a page more than the file has room for.
AllSessions == { {B(1, 0, FALSE, TRUE)},
                 {B(1, 0, TRUE, FALSE), B(2, 0, FALSE, TRUE)},
                 {B(1, 0, FALSE, FALSE), B(2, 0, TRUE, FALSE), B(3, 0, FALSE, TRUE)} }

\* TLC evaluates AllSessions once, and what replaces a constant at every use.
MCSessions == AllSessions

=============================================================================
