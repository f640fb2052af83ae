------------------------------ MODULE FsManager ------------------------------
(***************************************************************************)
(* The task handoff of fsmanager: client threads send a task to a worker   *)
(* thread that has file descriptors of its own, and wait until it has run. *)
(* Two mutexes and one condition variable, on which the worker and a       *)
(* client may both wait, are all they share.                               *)
(*                                                                         *)
(* A step takes or releases a mutex, or is what a thread does while it     *)
(* holds cvmtx.  A thread in cv.wait is in `waiting' until it is notified  *)
(* or wakes by itself; it then takes cvmtx and looks at its predicate.     *)
(***************************************************************************)
EXTENDS Integers

CONSTANTS Clients,    \* threads that call OpenCacheFile
          MAX_CALLS,  \* calls that one client makes
          NoThread    \* a mutex nobody holds, no task

ASSUME FsManagerAssumption ==
  /\ MAX_CALLS \in Nat
  /\ NoThread \notin Clients
  /\ "worker" \notin Clients \cup {NoThread}

VARIABLES rqmtx, cvmtx,  \* holders
          task,          \* client whose task is to be run
          joined,        \* Destroy was called
          waiting,       \* threads inside cv.wait
          worker, client,\* where each thread is
          calls,         \* calls begun by each client
          ran            \* times that the task of the current call has run

vars == <<rqmtx, cvmtx, task, joined, waiting, worker, client, calls, ran>>

Init ==
  /\ rqmtx = NoThread /\ cvmtx = NoThread
  /\ task = NoThread
  /\ joined = FALSE
  /\ waiting = {}
  /\ worker = "top"
  /\ client = [c \in Clients |-> "idle"]
  /\ calls = [c \in Clients |-> 0]
  /\ ran = [c \in Clients |-> 0]

\* cv.notify_one(): some waiting thread, if there is one, stops waiting.
NotifyOne ==
  \/ waiting = {} /\ UNCHANGED waiting
  \/ \E t \in waiting : waiting' = waiting \ {t}

Goto(c, pc) == client' = [client EXCEPT ![c] = pc]

-----------------------------------------------------------------------------
(* The worker's loop *)

\* lk(cvmtx) and the wait's predicate, at first or after a wake-up.
WorkerWait ==
  /\ worker \in {"top", "wait"} /\ "worker" \notin waiting
  /\ cvmtx = NoThread
  /\ \/ /\ ~joined /\ task = NoThread
        /\ waiting' = waiting \cup {"worker"}
        /\ worker' = "wait"
        /\ UNCHANGED cvmtx
     \/ /\ joined
        /\ worker' = "exited"
        /\ UNCHANGED <<waiting, cvmtx>>
     \/ /\ ~joined /\ task # NoThread
        /\ cvmtx' = "worker"
        /\ worker' = "run"
        /\ UNCHANGED waiting
  /\ UNCHANGED <<rqmtx, task, joined, client, calls, ran>>

WorkerRun_KeepTask ==
  /\ worker = "run"
  /\ ran' = [ran EXCEPT ![task] = 1]
  /\ cvmtx' = NoThread
  /\ worker' = "notify"
  /\ UNCHANGED <<rqmtx, task, joined, waiting, client, calls>>

\* st->task(); st->task = {}; lk.unlock()
WorkerRun ==
  /\ worker = "run"
  /\ ran' = [ran EXCEPT ![task] = @ + 1]
  /\ task' = NoThread
  /\ cvmtx' = NoThread
  /\ worker' = "notify"
  /\ UNCHANGED <<rqmtx, joined, waiting, client, calls>>

WorkerNotify_Silent ==
  /\ worker = "notify"
  /\ worker' = "top"
  /\ UNCHANGED <<rqmtx, cvmtx, task, joined, waiting, client, calls, ran>>

WorkerNotify ==
  /\ worker = "notify"
  /\ NotifyOne
  /\ worker' = "top"
  /\ UNCHANGED <<rqmtx, cvmtx, task, joined, client, calls, ran>>

-----------------------------------------------------------------------------
(* SendTask *)

SendLock_Unlocked(c) ==
  /\ client[c] = "idle" /\ calls[c] < MAX_CALLS
  /\ calls' = [calls EXCEPT ![c] = @ + 1]
  /\ ran' = [ran EXCEPT ![c] = 0]
  /\ Goto(c, "put")
  /\ UNCHANGED <<rqmtx, cvmtx, task, joined, waiting, worker>>

SendLock(c) ==
  /\ client[c] = "idle" /\ calls[c] < MAX_CALLS
  /\ rqmtx = NoThread
  /\ rqmtx' = c
  /\ calls' = [calls EXCEPT ![c] = @ + 1]
  /\ ran' = [ran EXCEPT ![c] = 0]
  /\ Goto(c, "put")
  /\ UNCHANGED <<cvmtx, task, joined, waiting, worker>>

SendPut(c) ==
  /\ client[c] = "put"
  /\ cvmtx = NoThread
  /\ task' = c
  /\ Goto(c, "notify")
  /\ UNCHANGED <<rqmtx, cvmtx, joined, waiting, worker, calls, ran>>

SendNotify(c) ==
  /\ client[c] = "notify"
  /\ NotifyOne
  /\ Goto(c, "top")
  /\ UNCHANGED <<rqmtx, cvmtx, task, joined, worker, calls, ran>>

SendWait_Once(c) ==
  /\ client[c] \in {"top", "wait"} /\ c \notin waiting
  /\ cvmtx = NoThread
  /\ \/ /\ client[c] = "top" /\ task # NoThread
        /\ waiting' = waiting \cup {c}
        /\ Goto(c, "wait")
     \/ /\ client[c] = "wait" \/ task = NoThread
        /\ Goto(c, "return")
        /\ UNCHANGED waiting
  /\ UNCHANGED <<rqmtx, cvmtx, task, joined, worker, calls, ran>>

\* The second critical section: wait until !st->task.
SendWait(c) ==
  /\ client[c] \in {"top", "wait"} /\ c \notin waiting
  /\ cvmtx = NoThread
  /\ \/ /\ task # NoThread
        /\ waiting' = waiting \cup {c}
        /\ Goto(c, "wait")
     \/ /\ task = NoThread
        /\ Goto(c, "return")
        /\ UNCHANGED waiting
  /\ UNCHANGED <<rqmtx, cvmtx, task, joined, worker, calls, ran>>

SendReturn(c) ==
  /\ client[c] = "return"
  /\ rqmtx' = NoThread
  /\ Goto(c, "idle")
  /\ UNCHANGED <<cvmtx, task, joined, waiting, worker, calls, ran>>

-----------------------------------------------------------------------------
\* The programs call Destroy after their last OpenCacheFile.
DestroyLock(c) ==
  /\ \A d \in Clients : client[d] = "idle" /\ calls[d] = MAX_CALLS
  /\ ~joined
  /\ rqmtx = NoThread
  /\ rqmtx' = c
  /\ Goto(c, "destroy")
  /\ UNCHANGED <<cvmtx, task, joined, waiting, worker, calls, ran>>

DestroyJoin_Silent(c) ==
  /\ client[c] = "destroy"
  /\ cvmtx = NoThread
  /\ joined' = TRUE
  /\ rqmtx' = NoThread
  /\ Goto(c, "idle")
  /\ UNCHANGED <<cvmtx, task, waiting, worker, calls, ran>>

DestroyJoin(c) ==
  /\ client[c] = "destroy"
  /\ cvmtx = NoThread
  /\ joined' = TRUE
  /\ NotifyOne
  /\ rqmtx' = NoThread
  /\ Goto(c, "idle")
  /\ UNCHANGED <<cvmtx, task, worker, calls, ran>>

\* A condition variable may wake a thread for no reason.
Spurious == /\ \E t \in waiting : waiting' = waiting \ {t}
            /\ UNCHANGED <<rqmtx, cvmtx, task, joined, worker, client, calls, ran>>

-----------------------------------------------------------------------------
WorkerStep == WorkerWait \/ WorkerRun \/ WorkerNotify

ClientStep(c) == \/ SendLock(c) \/ SendPut(c) \/ SendNotify(c) \/ SendWait(c)
                 \/ SendReturn(c) \/ DestroyLock(c) \/ DestroyJoin(c)

Terminated == worker = "exited" /\ joined /\ UNCHANGED vars

Next == WorkerStep \/ (\E c \in Clients : ClientStep(c)) \/ Spurious \/ Terminated

Spec == Init /\ [][Next]_vars

\* The host schedules every thread that can go on, and a task ends.
FairSpec ==
  /\ Spec
  /\ WF_vars(WorkerStep)
  /\ \A c \in Clients : WF_vars(ClientStep(c))

-----------------------------------------------------------------------------
(* Properties *)

Threads == Clients \cup {"worker"}

TypeOK ==
  /\ rqmtx \in Clients \cup {NoThread}
  /\ cvmtx \in {"worker", NoThread}
  /\ task \in Clients \cup {NoThread}
  /\ joined \in BOOLEAN
  /\ waiting \subseteq Threads
  /\ worker \in {"top", "wait", "run", "notify", "exited"}
  /\ client \in [Clients -> {"idle", "put", "notify", "top", "wait", "return", "destroy"}]
  /\ calls \in [Clients -> 0 .. MAX_CALLS]
  /\ ran \in [Clients -> Nat]

\* SendTask returns only after its task has run, and has run once.
RanOnce == \A c \in Clients : client[c] = "return" => ran[c] = 1

\* The worker runs a task only while the thread whose stack the lambda refers to
\* is still inside SendTask.
FrameAlive == task # NoThread => client[task] \in {"notify", "top", "wait"}

\* No wake-up is lost: a task that waits for a sleeping worker still has its
\* notification to come, and a client sleeps only for its own task, or its
\* completion is still to be notified.  With one condition variable for both
\* sides, notify_one() reaches the right one because of rqmtx.
NoLostWakeup ==
  /\ "worker" \in waiting /\ task # NoThread => client[task] = "notify"
  /\ \A c \in Clients \cap waiting : task = c \/ worker = "notify"

\* What c's current call has come to.
Outcome(c) == IF client[c] \in {"idle", "put", "destroy"} THEN "none"
              ELSE IF ran[c] = 0 THEN "sent" ELSE "served"

S == INSTANCE TaskService WITH call <- [c \in Clients |-> Outcome(c)]

\* SendTask is a synchronous call.
Synchronous == S!Spec

\* Every call returns.
CallsReturn == \A c \in Clients : client[c] = "put" ~> client[c] = "idle"

\* Destroy makes the worker thread exit.
WorkerExits == joined ~> worker = "exited"

=============================================================================
