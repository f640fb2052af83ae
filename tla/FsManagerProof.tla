--------------------------- MODULE FsManagerProof ---------------------------
(***************************************************************************)
(* The handoff of FsManager is a synchronous call for any number of        *)
(* clients and calls.                                                      *)
(***************************************************************************)
EXTENDS FsManager, TLAPS

InCall == {"notify", "top", "wait"}

\* Where the threads can be relative to the mutexes they hold.
Locks ==
  /\ \A c \in Clients : client[c] # "idle" => rqmtx = c
  /\ cvmtx = "worker" <=> worker = "run"
  /\ worker = "run" => task # NoThread
  /\ "worker" \in waiting => worker = "wait"
  /\ \A c \in Clients \cap waiting : client[c] = "wait"

\* What a call has come to, by where its client is.
Progress ==
  \A c \in Clients :
    /\ client[c] = "put" => ran[c] = 0
    /\ client[c] \in InCall => \/ task = c /\ ran[c] = 0
                               \/ task = NoThread /\ ran[c] = 1
    /\ client[c] = "return" => task = NoThread /\ ran[c] = 1
    /\ client[c] \notin InCall => task # c

\* The inductive invariant.
FsInv == TypeOK /\ Locks /\ Progress /\ NoLostWakeup

\* Before the first call.
LEMMA FsInit == ASSUME Init PROVE FsInv
<1>1. TypeOK
  <2>1. 0 \in 0 .. MAX_CALLS
    BY FsManagerAssumption
  <2> QED
    BY <2>1 DEF Init, TypeOK
<1>2. Locks
  BY FsManagerAssumption DEF Init, Locks
<1>3. Progress
  BY FsManagerAssumption DEF Init, Progress, InCall
<1>4. NoLostWakeup
  BY DEF Init, NoLostWakeup
<1> QED
  BY <1>1, <1>2, <1>3, <1>4 DEF FsInv

\* Only the holder of rqmtx can be asleep beside the worker.
LEMMA Sleepers ==
  ASSUME FsInv
  PROVE  waiting \subseteq {rqmtx, "worker"}
  BY DEF FsInv, TypeOK, Locks, Threads

\* The worker looks at its predicate.
LEMMA WorkerWaitStep == ASSUME FsInv, WorkerWait PROVE FsInv'
<1>1. TypeOK'
  BY DEF FsInv, TypeOK, WorkerWait, Threads
<1>2. Locks'
  BY FsManagerAssumption DEF FsInv, TypeOK, Locks, WorkerWait
<1>3. Progress'
  BY DEF FsInv, Progress, WorkerWait
<1>4. NoLostWakeup'
  BY FsManagerAssumption DEF FsInv, NoLostWakeup, WorkerWait
<1> QED
  BY <1>1, <1>2, <1>3, <1>4 DEF FsInv

\* The task runs.
LEMMA WorkerRunStep == ASSUME FsInv, WorkerRun PROVE FsInv'
<1>1. task \in Clients /\ client[task] \in InCall /\ ran[task] = 0
  BY DEF FsInv, TypeOK, Locks, Progress, WorkerRun
<1>2. TypeOK'
  BY <1>1 DEF FsInv, TypeOK, WorkerRun
<1>3. Locks'
  BY FsManagerAssumption DEF FsInv, TypeOK, Locks, WorkerRun
<1>4. Progress'
  <2> SUFFICES ASSUME NEW c \in Clients
               PROVE  /\ client[c] = "put" => ran'[c] = 0
                      /\ client[c] \in InCall => ran'[c] = 1
                      /\ client[c] = "return" => ran'[c] = 1
    BY FsManagerAssumption DEF Progress, WorkerRun
  <2>1. CASE c = task
    BY <1>1, <2>1 DEF FsInv, TypeOK, WorkerRun, InCall
  <2>2. CASE c # task
    <3>1. client[c] = "idle"
      BY <1>1, <2>2 DEF FsInv, Locks, InCall
    <3> QED
      BY <3>1 DEF InCall
  <2> QED
    BY <2>1, <2>2
<1>5. NoLostWakeup'
  BY DEF NoLostWakeup, WorkerRun
<1> QED
  BY <1>2, <1>3, <1>4, <1>5 DEF FsInv

\* The worker's notification can only reach the client of the finished task.
LEMMA WorkerNotifyStep == ASSUME FsInv, WorkerNotify PROVE FsInv'
<1>1. waiting \subseteq {rqmtx} /\ waiting' = {}
  BY Sleepers DEF FsInv, Locks, WorkerNotify, NotifyOne
<1>2. TypeOK'
  BY <1>1 DEF FsInv, TypeOK, WorkerNotify
<1>3. Locks'
  BY <1>1 DEF FsInv, Locks, WorkerNotify
<1>4. Progress'
  BY DEF FsInv, Progress, WorkerNotify
<1>5. NoLostWakeup'
  BY <1>1 DEF NoLostWakeup, WorkerNotify
<1> QED
  BY <1>2, <1>3, <1>4, <1>5 DEF FsInv

\* A client enters SendTask.
LEMMA SendLockStep == ASSUME FsInv, NEW c \in Clients, SendLock(c) PROVE FsInv'
<1>1. \A d \in Clients : client[d] = "idle"
  BY FsManagerAssumption DEF FsInv, Locks, SendLock
<1>2. TypeOK'
  BY FsManagerAssumption DEF FsInv, TypeOK, SendLock, Goto
<1>3. Locks'
  BY <1>1 DEF FsInv, TypeOK, Locks, SendLock, Goto
<1>4. Progress'
  BY <1>1 DEF FsInv, TypeOK, Progress, SendLock, Goto, InCall
<1>5. NoLostWakeup'
  BY <1>1 DEF FsInv, TypeOK, Locks, Progress, NoLostWakeup, SendLock, Goto, InCall
<1> QED
  BY <1>2, <1>3, <1>4, <1>5 DEF FsInv

\* A client inside SendTask or Destroy is alone there.
LEMMA Alone ==
  ASSUME FsInv, NEW c \in Clients, client[c] # "idle"
  PROVE  rqmtx = c /\ \A d \in Clients : d # c => client[d] = "idle"
  BY DEF FsInv, Locks

\* The task is stored.
LEMMA SendPutStep == ASSUME FsInv, NEW c \in Clients, SendPut(c) PROVE FsInv'
<1>1. client[c] = "put" /\ c \notin waiting /\ waiting \subseteq {"worker"}
  BY Alone, Sleepers DEF FsInv, TypeOK, Locks, SendPut
<1>2. rqmtx = c /\ \A d \in Clients : d # c => client[d] = "idle"
  BY <1>1, Alone
<1>3. TypeOK'
  BY DEF FsInv, TypeOK, SendPut, Goto
<1>4. Locks'
  BY <1>1, <1>2, FsManagerAssumption DEF FsInv, TypeOK, Locks, SendPut, Goto
<1>5. Progress'
  <2> SUFFICES ASSUME NEW d \in Clients
               PROVE  /\ client'[d] = "put" => ran[d] = 0
                      /\ client'[d] \in InCall => task' = d /\ ran[d] = 0
                      /\ client'[d] # "return"
                      /\ client'[d] \notin InCall => task' # d
    BY DEF Progress, SendPut
  <2>1. CASE d = c
    BY <1>1, <2>1 DEF FsInv, TypeOK, Progress, SendPut, Goto, InCall
  <2>2. CASE d # c
    BY <1>2, <2>2 DEF FsInv, TypeOK, SendPut, Goto, InCall
  <2> QED
    BY <2>1, <2>2
<1>6. NoLostWakeup'
  BY <1>1, FsManagerAssumption DEF FsInv, TypeOK, NoLostWakeup, SendPut, Goto
<1> QED
  BY <1>3, <1>4, <1>5, <1>6 DEF FsInv

\* The client's notification can only reach the worker.
LEMMA SendNotifyStep == ASSUME FsInv, NEW c \in Clients, SendNotify(c) PROVE FsInv'
<1>1. client[c] = "notify" /\ waiting \subseteq {"worker"} /\ waiting' = {}
  BY Alone, Sleepers DEF FsInv, TypeOK, Locks, SendNotify, NotifyOne
<1>2. TypeOK'
  BY <1>1 DEF FsInv, TypeOK, SendNotify, Goto
<1>3. Locks'
  BY <1>1, Alone DEF FsInv, TypeOK, Locks, SendNotify, Goto
<1>4. Progress'
  BY <1>1 DEF FsInv, TypeOK, Progress, SendNotify, Goto, InCall
<1>5. NoLostWakeup'
  BY <1>1 DEF NoLostWakeup
<1> QED
  BY <1>2, <1>3, <1>4, <1>5 DEF FsInv

\* The client looks at its predicate.
LEMMA SendWaitStep == ASSUME FsInv, NEW c \in Clients, SendWait(c) PROVE FsInv'
<1>1. client[c] \in {"top", "wait"} /\ rqmtx = c
  BY Alone DEF SendWait
<1>2. TypeOK'
  BY DEF FsInv, TypeOK, SendWait, Goto, Threads
<1>3. Locks'
  BY <1>1, FsManagerAssumption DEF FsInv, TypeOK, Locks, SendWait, Goto
<1>4. Progress'
  <2> SUFFICES ASSUME NEW d \in Clients
               PROVE  /\ client'[d] = "put" => ran[d] = 0
                      /\ client'[d] \in InCall => \/ task = d /\ ran[d] = 0
                                                  \/ task = NoThread /\ ran[d] = 1
                      /\ client'[d] = "return" => task = NoThread /\ ran[d] = 1
                      /\ client'[d] \notin InCall => task # d
    BY DEF Progress, SendWait
  <2>1. CASE d = c
    BY <1>1, <2>1, FsManagerAssumption DEF FsInv, TypeOK, Progress, SendWait, Goto, InCall
  <2>2. CASE d # c
    <3>1. client'[d] = client[d]
      BY <2>2 DEF FsInv, TypeOK, SendWait, Goto
    <3> QED
      BY <3>1 DEF FsInv, Progress
  <2> QED
    BY <2>1, <2>2
<1>5. NoLostWakeup'
  <2>1. CASE task # NoThread /\ waiting' = waiting \cup {c}
    <3>1. task = c /\ task' = c /\ worker' = worker
      BY <1>1, <2>1 DEF FsInv, Progress, InCall, SendWait
    <3>2. "worker" \notin waiting'
      BY <1>1, <2>1, <3>1, FsManagerAssumption DEF FsInv, NoLostWakeup
    <3> QED
      BY <2>1, <3>1, <3>2 DEF FsInv, NoLostWakeup
  <2>2. CASE task = NoThread /\ waiting' = waiting
    BY <2>2 DEF FsInv, NoLostWakeup, SendWait
  <2> QED
    BY <2>1, <2>2 DEF SendWait
<1> QED
  BY <1>2, <1>3, <1>4, <1>5 DEF FsInv

\* The call returns.
LEMMA SendReturnStep == ASSUME FsInv, NEW c \in Clients, SendReturn(c) PROVE FsInv'
<1>1. client[c] = "return" /\ rqmtx = c /\ \A d \in Clients : d # c => client[d] = "idle"
  BY Alone DEF SendReturn
<1>2. TypeOK'
  BY DEF FsInv, TypeOK, SendReturn, Goto
<1>3. Locks'
  BY <1>1 DEF FsInv, TypeOK, Locks, SendReturn, Goto
<1>4. Progress'
  BY <1>1, FsManagerAssumption DEF FsInv, TypeOK, Progress, SendReturn, Goto, InCall
<1>5. NoLostWakeup'
  BY <1>1 DEF FsInv, TypeOK, Locks, Progress, NoLostWakeup, SendReturn, Goto
<1> QED
  BY <1>2, <1>3, <1>4, <1>5 DEF FsInv

\* Destroy takes rqmtx.
LEMMA DestroyLockStep == ASSUME FsInv, NEW c \in Clients, DestroyLock(c) PROVE FsInv'
<1>1. \A d \in Clients : client[d] = "idle"
  BY DEF DestroyLock
<1>2. TypeOK'
  BY DEF FsInv, TypeOK, DestroyLock, Goto
<1>3. Locks'
  BY <1>1 DEF FsInv, TypeOK, Locks, DestroyLock, Goto
<1>4. Progress'
  BY <1>1 DEF FsInv, TypeOK, Progress, DestroyLock, Goto, InCall
<1>5. NoLostWakeup'
  BY <1>1 DEF FsInv, TypeOK, Locks, Progress, NoLostWakeup, DestroyLock, Goto, InCall
<1> QED
  BY <1>2, <1>3, <1>4, <1>5 DEF FsInv

\* Destroy asks the worker to exit.
LEMMA DestroyJoinStep == ASSUME FsInv, NEW c \in Clients, DestroyJoin(c) PROVE FsInv'
<1>1. /\ client[c] = "destroy" /\ rqmtx = c
      /\ \A d \in Clients : d # c => client[d] = "idle"
  BY Alone DEF DestroyJoin
<1>2. waiting' \subseteq waiting
  BY DEF DestroyJoin, NotifyOne
<1>3. task = NoThread
  BY <1>1 DEF FsInv, TypeOK, Progress, InCall
<1>4. TypeOK'
  BY <1>2 DEF FsInv, TypeOK, DestroyJoin, Goto
<1>5. Locks'
  BY <1>1, <1>2 DEF FsInv, TypeOK, Locks, DestroyJoin, Goto
<1>6. Progress'
  BY <1>1, <1>3, FsManagerAssumption DEF FsInv, TypeOK, Progress, DestroyJoin, Goto, InCall
<1>7. NoLostWakeup'
  BY <1>1, <1>2, <1>3 DEF FsInv, TypeOK, Locks, NoLostWakeup, DestroyJoin, Goto
<1> QED
  BY <1>4, <1>5, <1>6, <1>7 DEF FsInv

\* A thread wakes for no reason.
LEMMA SpuriousStep == ASSUME FsInv, Spurious PROVE FsInv'
<1>1. waiting' \subseteq waiting
  BY DEF Spurious
<1>2. TypeOK'
  BY <1>1 DEF FsInv, TypeOK, Spurious
<1>3. Locks'
  BY <1>1 DEF FsInv, Locks, Spurious
<1>4. Progress'
  BY DEF FsInv, Progress, Spurious
<1>5. NoLostWakeup'
  BY <1>1 DEF FsInv, NoLostWakeup, Spurious
<1> QED
  BY <1>2, <1>3, <1>4, <1>5 DEF FsInv

\* Every step preserves the invariant.
LEMMA FsStep == FsInv /\ [Next]_vars => FsInv'
<1> SUFFICES ASSUME FsInv, [Next]_vars PROVE FsInv'
  OBVIOUS
<1>1. CASE WorkerStep
  BY <1>1, WorkerWaitStep, WorkerRunStep, WorkerNotifyStep DEF WorkerStep
<1>2. ASSUME NEW c \in Clients, ClientStep(c) PROVE FsInv'
  BY <1>2, SendLockStep, SendPutStep, SendNotifyStep, SendWaitStep, SendReturnStep,
     DestroyLockStep, DestroyJoinStep DEF ClientStep
<1>3. CASE Spurious
  BY <1>3, SpuriousStep
<1>4. CASE UNCHANGED vars
  BY <1>4 DEF FsInv, TypeOK, Locks, Progress, NoLostWakeup, vars
<1> QED
  BY <1>1, <1>2, <1>3, <1>4 DEF Next, Terminated

\* The invariant holds for any number of clients and calls.
THEOREM FsInvariance == Spec => []FsInv
  BY FsInit, FsStep, PTL DEF Spec

\* SendTask returns only after its task has run exactly once.
THEOREM TasksRunOnce == Spec => []RanOnce
<1>1. FsInv => RanOnce
  BY DEF FsInv, Progress, RanOnce
<1> QED
  BY <1>1, FsInvariance, PTL

\* A task never runs after SendTask's caller has left.
THEOREM FramesAlive == Spec => []FrameAlive
<1>1. FsInv => FrameAlive
  BY DEF FsInv, TypeOK, Progress, InCall, FrameAlive
<1> QED
  BY <1>1, FsInvariance, PTL

\* No notification of the shared condition variable is lost.
THEOREM WakeupsKept == Spec => []NoLostWakeup
<1>1. FsInv => NoLostWakeup
  BY DEF FsInv
<1> QED
  BY <1>1, FsInvariance, PTL

-----------------------------------------------------------------------------
(* SendTask implements TaskService *)

\* A step that changes the outcome of one call changes the mapped state there.
LEMMA MappedUpdate ==
  ASSUME NEW c \in Clients, NEW v, Outcome(c)' = v,
         \A d \in Clients : d # c => Outcome(d)' = Outcome(d)
  PROVE  [d \in Clients |-> Outcome(d)]'
           = [[d \in Clients |-> Outcome(d)] EXCEPT ![c] = v]
  OBVIOUS

\* The outcome of a call depends on its client alone.
LEMMA OutcomeSame ==
  ASSUME NEW c \in Clients, client'[c] = client[c], ran'[c] = ran[c]
  PROVE  Outcome(c)' = Outcome(c)
  BY DEF Outcome

\* Every step serves the call it is about, or leaves all calls as they are.
LEMMA ServiceStep ==
  ASSUME FsInv, [Next]_vars
  PROVE  \/ UNCHANGED [c \in Clients |-> Outcome(c)]
         \/ \E c \in Clients : S!Send(c) \/ S!Serve(c) \/ S!Return(c)
<1>0. client \in [Clients -> {"idle", "put", "notify", "top", "wait", "return", "destroy"}]
  BY DEF FsInv, TypeOK
<1>1. CASE WorkerRun
  <2>1. PICK c \in Clients : c = task
    BY <1>1 DEF FsInv, TypeOK, Locks, WorkerRun
  <2>2. client[c] \in InCall /\ ran[c] = 0
    BY <2>1, FsManagerAssumption DEF FsInv, Progress
  <2>3. ran'[c] = 1 /\ \A d \in Clients : client'[d] = client[d] /\ (d # c => ran'[d] = ran[d])
    BY <1>1, <2>1, <2>2 DEF FsInv, TypeOK, WorkerRun
  <2>4. Outcome(c) = "sent" /\ Outcome(c)' = "served"
    BY <2>2, <2>3 DEF Outcome, InCall
  <2>5. S!Serve(c)
    BY <2>3, <2>4, OutcomeSame, MappedUpdate DEF S!Serve
  <2> QED
    BY <2>5
<1>2. ASSUME NEW c \in Clients, SendPut(c) PROVE S!Send(c)
  <2>1. client[c] = "put" /\ ran[c] = 0 /\ \A d \in Clients : d # c => client[d] = "idle"
    BY <1>2, Alone DEF SendPut, FsInv, Progress
  <2>2. \A d \in Clients : Outcome(d) = "none"
    BY <2>1 DEF Outcome
  <2>3. client'[c] = "notify" /\ ran'[c] = 0
    BY <1>0, <1>2, <2>1 DEF SendPut, Goto
  <2>4. \A d \in Clients : d # c => client'[d] = client[d] /\ ran'[d] = ran[d]
    BY <1>0, <1>2 DEF SendPut, Goto
  <2>5. Outcome(c)' = "sent"
    BY <2>3 DEF Outcome
  <2> QED
    BY <2>2, <2>4, <2>5, OutcomeSame, MappedUpdate DEF S!Send
<1>3. ASSUME NEW c \in Clients, SendReturn(c) PROVE S!Return(c)
  <2>1. client[c] = "return" /\ ran[c] = 1 /\ client'[c] = "idle"
    BY <1>0, <1>3 DEF SendReturn, Goto, FsInv, Progress
  <2>2. \A d \in Clients : d # c => client'[d] = client[d] /\ ran'[d] = ran[d]
    BY <1>0, <1>3 DEF SendReturn, Goto
  <2>3. Outcome(c) = "served" /\ Outcome(c)' = "none"
    BY <2>1 DEF Outcome
  <2> QED
    BY <2>2, <2>3, OutcomeSame, MappedUpdate DEF S!Return
<1>4. ASSUME NEW c \in Clients,
             SendLock(c) \/ SendNotify(c) \/ SendWait(c) \/ DestroyLock(c) \/ DestroyJoin(c)
      PROVE  UNCHANGED [d \in Clients |-> Outcome(d)]
  <2>1. \A d \in Clients : d # c => client'[d] = client[d] /\ ran'[d] = ran[d]
    BY <1>0, <1>4 DEF FsInv, TypeOK, SendLock, SendNotify, SendWait, DestroyLock,
                      DestroyJoin, Goto
  <2>2. ASSUME SendLock(c) \/ DestroyLock(c) \/ DestroyJoin(c)
        PROVE  Outcome(c)' = Outcome(c)
    <3>1. client[c] \in {"idle", "destroy"} /\ client'[c] \in {"idle", "put", "destroy"}
      BY <1>0, <2>2 DEF SendLock, DestroyLock, DestroyJoin, Goto
    <3> QED
      BY <3>1 DEF Outcome
  <2>3. ASSUME SendNotify(c) \/ SendWait(c)
        PROVE  Outcome(c)' = Outcome(c)
    <3>1. /\ client[c] \in InCall /\ client'[c] \in InCall \cup {"return"}
          /\ ran'[c] = ran[c]
      BY <1>0, <2>3 DEF SendNotify, SendWait, Goto, InCall
    <3> QED
      BY <3>1 DEF Outcome, InCall
  <2>4. Outcome(c)' = Outcome(c)
    BY <1>4, <2>2, <2>3
  <2> QED
    BY <2>1, <2>4, OutcomeSame
<1>5. CASE WorkerWait \/ WorkerNotify \/ Spurious \/ UNCHANGED vars
  BY <1>5 DEF WorkerWait, WorkerNotify, Spurious, vars, Outcome
<1> QED
  BY <1>1, <1>2, <1>3, <1>4, <1>5 DEF Next, WorkerStep, ClientStep, Terminated

\* SendTask is a synchronous call: tasks are served one at a time, each once,
\* between the start and the return of the call that sent it.
THEOREM SendTaskIsSynchronous == Spec => Synchronous
<1>1. Init => S!Init
  BY DEF Init, S!Init, Outcome
<1>2. FsInv /\ [Next]_vars => [S!Next]_[c \in Clients |-> Outcome(c)]
  BY ServiceStep DEF S!Next
<1> QED
  BY <1>1, <1>2, FsInvariance, PTL DEF Spec, Synchronous, S!Spec

=============================================================================
