----------------------------- MODULE TaskService -----------------------------
(***************************************************************************)
(* What fsmanager::SendTask promises its callers: a synchronous call.  A   *)
(* task is taken up one at a time, runs exactly once, and runs while its   *)
(* caller, whose stack it refers to, is inside SendTask.                   *)
(***************************************************************************)
CONSTANT Clients

VARIABLE call   \* what each client's current call has come to

Init == call = [c \in Clients |-> "none"]

Send(c) == /\ \A d \in Clients : call[d] = "none"
           /\ call' = [call EXCEPT ![c] = "sent"]

Serve(c) == call[c] = "sent" /\ call' = [call EXCEPT ![c] = "served"]

Return(c) == call[c] = "served" /\ call' = [call EXCEPT ![c] = "none"]

Next == \E c \in Clients : Send(c) \/ Serve(c) \/ Return(c)

Spec == Init /\ [][Next]_call

=============================================================================
