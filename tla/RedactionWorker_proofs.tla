------------------------ MODULE RedactionWorker_proofs ------------------------
(***************************************************************************)
(* What _WorkerManager guarantees for any number of threads, any number of *)
(* child processes, any budget and any grace of the joins: no caller is    *)
(* handed another caller's reply, no child outlives its reference unless   *)
(* the operating system refuses to end it, and a call ends in time unless  *)
(* its send blocks.                                                        *)
(***************************************************************************)
EXTENDS RedactionWorker, TLAPS

\* The way back to the host keeps the types of the caller's variables.
LEMMA ReturnType ==
  ASSUME TypeOK, NEW c \in Caller, NEW result \in {"own", "foreign", "error"},
         Return(c, result)
  PROVE  /\ pc' \in [Caller -> {"idle", "lock", "ensure", "send", "poll", "kill"}]
         /\ content' \in [Caller -> Contents]
         /\ left' \in [Caller -> (-2 * Grace - 1)..Budget]
         /\ blocked' \in [Caller -> BOOLEAN]
         /\ grace' \in [Caller -> 0..(2 * Grace)]
         /\ answer' \in [Caller -> {"none", "own", "foreign", "error"}]
  <1>1. 0 \in (-2 * Grace - 1)..Budget /\ 0 \in 0..(2 * Grace)
    BY WorkerAssumption
  <1>2. left' \in [Caller -> (-2 * Grace - 1)..Budget] /\ grace' \in [Caller -> 0..(2 * Grace)]
    BY <1>1 DEF TypeOK, Return
  <1>3. blocked' \in [Caller -> BOOLEAN]
    BY DEF TypeOK, Return
  <1> QED
    BY <1>2, <1>3 DEF TypeOK, Return

\* A call fixes its deadline and queues for the lock.
LEMMA CallKeeps ==
  ASSUME IInv, NEW c \in Caller, NEW what \in Contents, Call(c, what)
  PROVE  IInv'
  <1>1. TypeOK'
    BY WorkerAssumption DEF IInv, TypeOK, callerVars, childVars, Contents, Call
  <1>2. LockHeld'
    BY WorkerAssumption DEF IInv, TypeOK, LockHeld, Holding, callerVars, childVars, Call
  <1>3. Handover'
    BY WorkerAssumption DEF IInv, TypeOK, LockHeld, Holding, Handover, Quiet, OneWorker, Alive, callerVars, childVars,
        Call
  <1>4. OneWorker' /\ OwnReply'
    <2>1. OneWorker'
      BY WorkerAssumption DEF IInv, TypeOK, LockHeld, Holding, OneWorker, Alive, callerVars, childVars, Call
    <2>2. OwnReply'
      BY WorkerAssumption DEF IInv, TypeOK, OwnReply, Handover, callerVars, childVars, Call
    <2> QED
      BY <2>1, <2>2
  <1>5. Deadlines'
    BY WorkerAssumption DEF IInv, TypeOK, LockHeld, Deadlines, callerVars, childVars, Call
  <1> QED
    BY <1>1, <1>2, <1>3, <1>4, <1>5 DEF IInv

\* The one that gives up on the lock never held it.
LEMMA LockTimeoutKeeps ==
  ASSUME IInv, NEW c \in Caller, LockTimeout(c)
  PROVE  IInv'
  <1>1. TypeOK'
    BY ReturnType, WorkerAssumption DEF IInv, TypeOK, callerVars, childVars, LockTimeout
  <1>2. LockHeld'
    BY WorkerAssumption DEF IInv, TypeOK, LockHeld, Holding, callerVars, childVars, LockTimeout, Return
  <1>3. Handover'
    BY WorkerAssumption DEF IInv, TypeOK, LockHeld, Holding, Handover, Quiet, OneWorker, Alive, callerVars, childVars,
        LockTimeout, Return
  <1>4. OneWorker' /\ OwnReply'
    <2>1. OneWorker'
      BY WorkerAssumption DEF IInv, TypeOK, LockHeld, Holding, OneWorker, Alive, callerVars, childVars, LockTimeout, Return
    <2>2. OwnReply'
      BY WorkerAssumption DEF IInv, TypeOK, OwnReply, Handover, callerVars, childVars, LockTimeout, Return
    <2> QED
      BY <2>1, <2>2
  <1>5. Deadlines'
    BY WorkerAssumption DEF IInv, TypeOK, LockHeld, Deadlines, callerVars, childVars, LockTimeout, Return
  <1> QED
    BY <1>1, <1>2, <1>3, <1>4, <1>5 DEF IInv

\* The lock is free, so the worker is quiet.
LEMMA AcquireKeeps ==
  ASSUME IInv, NEW c \in Caller, Acquire(c)
  PROVE  IInv'
  <1>1. TypeOK'
    BY WorkerAssumption DEF IInv, TypeOK, callerVars, childVars, Contents, Acquire
  <1>2. LockHeld'
    BY WorkerAssumption DEF IInv, TypeOK, LockHeld, Holding, callerVars, childVars, Acquire
  <1>3. Handover'
    BY WorkerAssumption DEF IInv, TypeOK, LockHeld, Holding, Handover, Quiet, OneWorker, Alive, callerVars, childVars,
        Acquire
  <1>4. OneWorker' /\ OwnReply'
    <2>1. OneWorker'
      BY WorkerAssumption DEF IInv, TypeOK, LockHeld, Holding, OneWorker, Alive, callerVars, childVars, Acquire
    <2>2. OwnReply'
      BY WorkerAssumption DEF IInv, TypeOK, OwnReply, Handover, callerVars, childVars, Acquire
    <2> QED
      BY <2>1, <2>2
  <1>5. Deadlines'
    BY WorkerAssumption DEF IInv, TypeOK, LockHeld, Deadlines, callerVars, childVars, Acquire
  <1> QED
    BY <1>1, <1>2, <1>3, <1>4, <1>5 DEF IInv

\* A new child starts with empty pipes, and the dead one is reaped.
LEMMA SpawnKeeps ==
  ASSUME IInv, NEW c \in Caller, NEW p \in Process, Spawn(c, p)
  PROVE  IInv'
  <1>1. TypeOK'
    BY WorkerAssumption DEF IInv, TypeOK, callerVars, childVars, Contents, Spawn
  <1>2. LockHeld'
    BY WorkerAssumption DEF IInv, TypeOK, LockHeld, Holding, callerVars, childVars, Spawn
  <1>3. Handover'
    BY WorkerAssumption DEF IInv, TypeOK, LockHeld, Holding, Handover, Quiet, OneWorker, Alive, callerVars, childVars,
        Spawn
  <1>4. OneWorker' /\ OwnReply'
    <2>1. OneWorker'
      BY WorkerAssumption DEF IInv, TypeOK, LockHeld, Holding, OneWorker, Alive, callerVars, childVars, Spawn
    <2>2. OwnReply'
      BY WorkerAssumption DEF IInv, TypeOK, OwnReply, Handover, callerVars, childVars, Spawn
    <2> QED
      BY <2>1, <2>2
  <1>5. Deadlines'
    BY WorkerAssumption DEF IInv, TypeOK, LockHeld, Deadlines, callerVars, childVars, Spawn
  <1> QED
    BY <1>1, <1>2, <1>3, <1>4, <1>5 DEF IInv

\* Without a child there is nothing to hand over.
LEMMA SpawnFailsKeeps ==
  ASSUME IInv, NEW c \in Caller, SpawnFails(c)
  PROVE  IInv'
  <1>1. TypeOK'
    BY ReturnType, WorkerAssumption DEF IInv, TypeOK, callerVars, childVars, SpawnFails
  <1>2. LockHeld'
    BY WorkerAssumption DEF IInv, TypeOK, LockHeld, Holding, callerVars, childVars, SpawnFails, Return
  <1>3. Handover'
    BY WorkerAssumption DEF IInv, TypeOK, LockHeld, Holding, Handover, Quiet, OneWorker, Alive, callerVars, childVars,
        SpawnFails, Return
  <1>4. OneWorker' /\ OwnReply'
    <2>1. OneWorker'
      BY WorkerAssumption DEF IInv, TypeOK, LockHeld, Holding, OneWorker, Alive, callerVars, childVars, SpawnFails, Return
    <2>2. OwnReply'
      BY WorkerAssumption DEF IInv, TypeOK, OwnReply, Handover, callerVars, childVars, SpawnFails, Return
    <2> QED
      BY <2>1, <2>2
  <1>5. Deadlines'
    BY WorkerAssumption DEF IInv, TypeOK, LockHeld, Deadlines, callerVars, childVars, SpawnFails, Return
  <1> QED
    BY <1>1, <1>2, <1>3, <1>4, <1>5 DEF IInv

\* A living worker is quiet when its caller comes.
LEMMA ReuseKeeps ==
  ASSUME IInv, NEW c \in Caller, Reuse(c)
  PROVE  IInv'
  <1>1. TypeOK'
    BY WorkerAssumption DEF IInv, TypeOK, callerVars, childVars, Contents, Reuse
  <1>2. LockHeld'
    BY WorkerAssumption DEF IInv, TypeOK, LockHeld, Holding, Alive, callerVars, childVars, Reuse
  <1>3. Handover'
    BY WorkerAssumption DEF IInv, TypeOK, LockHeld, Holding, Handover, Quiet, OneWorker, Alive, callerVars, childVars,
        Reuse
  <1>4. OneWorker' /\ OwnReply'
    <2>1. OneWorker'
      BY WorkerAssumption DEF IInv, TypeOK, LockHeld, Holding, OneWorker, Alive, callerVars, childVars, Reuse
    <2>2. OwnReply'
      BY WorkerAssumption DEF IInv, TypeOK, OwnReply, Handover, callerVars, childVars, Reuse
    <2> QED
      BY <2>1, <2>2
  <1>5. Deadlines'
    BY WorkerAssumption DEF IInv, TypeOK, LockHeld, Deadlines, callerVars, childVars, Reuse
  <1> QED
    BY <1>1, <1>2, <1>3, <1>4, <1>5 DEF IInv

\* A send that fails leaves nothing behind that outlives the kill.
LEMMA SendFailsKeeps ==
  ASSUME IInv, NEW c \in Caller, SendFails(c)
  PROVE  IInv'
  <1>1. TypeOK'
    BY WorkerAssumption DEF IInv, TypeOK, callerVars, childVars, Contents, SendFails, StartKill
  <1>2. LockHeld'
    BY WorkerAssumption DEF IInv, TypeOK, LockHeld, Holding, callerVars, childVars, SendFails, StartKill
  <1>3. Handover'
    BY WorkerAssumption DEF IInv, TypeOK, LockHeld, Holding, Handover, Quiet, OneWorker, Alive, callerVars, childVars,
        SendFails, StartKill
  <1>4. OneWorker' /\ OwnReply'
    <2>1. OneWorker'
      BY WorkerAssumption DEF IInv, TypeOK, LockHeld, Holding, OneWorker, Alive, callerVars, childVars, SendFails, StartKill
    <2>2. OwnReply'
      BY WorkerAssumption DEF IInv, TypeOK, OwnReply, Handover, callerVars, childVars, SendFails, StartKill
    <2> QED
      BY <2>1, <2>2
  <1>5. Deadlines'
    BY WorkerAssumption DEF IInv, TypeOK, LockHeld, Deadlines, callerVars, childVars, SendFails, StartKill
  <1> QED
    BY <1>1, <1>2, <1>3, <1>4, <1>5 DEF IInv

\* The request is the only thing under way.
LEMMA SendKeeps ==
  ASSUME IInv, NEW c \in Caller, Send(c)
  PROVE  IInv'
  <1>1. TypeOK'
    BY WorkerAssumption DEF IInv, TypeOK, callerVars, childVars, Contents, Send
  <1>2. LockHeld'
    BY WorkerAssumption DEF IInv, TypeOK, LockHeld, Holding, callerVars, childVars, Send
  <1>3. Handover'
    BY WorkerAssumption DEF IInv, TypeOK, LockHeld, Holding, Handover, Quiet, OneWorker, Alive, callerVars, childVars,
        Send
  <1>4. OneWorker' /\ OwnReply'
    <2>1. OneWorker'
      BY WorkerAssumption DEF IInv, TypeOK, LockHeld, Holding, OneWorker, Alive, callerVars, childVars, Send
    <2>2. OwnReply'
      BY WorkerAssumption DEF IInv, TypeOK, OwnReply, Handover, callerVars, childVars, Send
    <2> QED
      BY <2>1, <2>2
  <1>5. Deadlines'
    BY WorkerAssumption DEF IInv, TypeOK, LockHeld, Deadlines, callerVars, childVars, Send
  <1> QED
    BY <1>1, <1>2, <1>3, <1>4, <1>5 DEF IInv

\* The reply in the pipe is the caller's own, and it was the last thing there.
LEMMA TakeReplyKeeps ==
  ASSUME IInv, NEW c \in Caller, TakeReply(c)
  PROVE  IInv'
  <1>1. TypeOK'
    <2>1. PICK result \in {"own", "foreign"} : Return(c, result)
      BY DEF TakeReply
    <2>2. worker \in Process
      BY WorkerAssumption DEF IInv, TypeOK, LockHeld, TakeReply
    <2> QED
      BY <2>1, <2>2, ReturnType, WorkerAssumption DEF IInv, TypeOK, TakeReply, callerVars, childVars
  <1>2. LockHeld'
    BY WorkerAssumption DEF IInv, TypeOK, LockHeld, Holding, callerVars, childVars, TakeReply, Return
  <1>3. Handover'
    BY WorkerAssumption DEF IInv, TypeOK, LockHeld, Holding, Handover, Quiet, OneWorker, Alive, callerVars, childVars,
        TakeReply, Return
  <1>4. OneWorker' /\ OwnReply'
    <2>1. OneWorker'
      BY WorkerAssumption DEF IInv, TypeOK, LockHeld, Holding, OneWorker, Alive, callerVars, childVars, TakeReply, Return
    <2>2. OwnReply'
      BY WorkerAssumption DEF IInv, TypeOK, OwnReply, Handover, callerVars, childVars, TakeReply, Return
    <2> QED
      BY <2>1, <2>2
  <1>5. Deadlines'
    BY WorkerAssumption DEF IInv, TypeOK, LockHeld, Deadlines, callerVars, childVars, TakeReply, Return
  <1> QED
    BY <1>1, <1>2, <1>3, <1>4, <1>5 DEF IInv

\* A dead child is taken down by the caller that finds it.
LEMMA FindDeadKeeps ==
  ASSUME IInv, NEW c \in Caller, FindDead(c)
  PROVE  IInv'
  <1>1. TypeOK'
    BY WorkerAssumption DEF IInv, TypeOK, callerVars, childVars, Contents, FindDead, StartKill
  <1>2. LockHeld'
    BY WorkerAssumption DEF IInv, TypeOK, LockHeld, Holding, callerVars, childVars, FindDead, StartKill
  <1>3. Handover'
    BY WorkerAssumption DEF IInv, TypeOK, LockHeld, Holding, Handover, Quiet, OneWorker, Alive, callerVars, childVars,
        FindDead, StartKill
  <1>4. OneWorker' /\ OwnReply'
    <2>1. OneWorker'
      BY WorkerAssumption DEF IInv, TypeOK, LockHeld, Holding, OneWorker, Alive, callerVars, childVars, FindDead, StartKill
    <2>2. OwnReply'
      BY WorkerAssumption DEF IInv, TypeOK, OwnReply, Handover, callerVars, childVars, FindDead, StartKill
    <2> QED
      BY <2>1, <2>2
  <1>5. Deadlines'
    BY WorkerAssumption DEF IInv, TypeOK, LockHeld, Deadlines, callerVars, childVars, FindDead, StartKill
  <1> QED
    BY <1>1, <1>2, <1>3, <1>4, <1>5 DEF IInv

\* A timeout takes the child down, with what it was doing.
LEMMA PollTimeoutKeeps ==
  ASSUME IInv, NEW c \in Caller, PollTimeout(c)
  PROVE  IInv'
  <1>1. TypeOK'
    BY WorkerAssumption DEF IInv, TypeOK, callerVars, childVars, Contents, PollTimeout, StartKill
  <1>2. LockHeld'
    BY WorkerAssumption DEF IInv, TypeOK, LockHeld, Holding, callerVars, childVars, PollTimeout, StartKill
  <1>3. Handover'
    BY WorkerAssumption DEF IInv, TypeOK, LockHeld, Holding, Handover, Quiet, OneWorker, Alive, callerVars, childVars,
        PollTimeout, StartKill
  <1>4. OneWorker' /\ OwnReply'
    <2>1. OneWorker'
      BY WorkerAssumption DEF IInv, TypeOK, LockHeld, Holding, OneWorker, Alive, callerVars, childVars, PollTimeout, StartKill
    <2>2. OwnReply'
      BY WorkerAssumption DEF IInv, TypeOK, OwnReply, Handover, callerVars, childVars, PollTimeout, StartKill
    <2> QED
      BY <2>1, <2>2
  <1>5. Deadlines'
    BY WorkerAssumption DEF IInv, TypeOK, LockHeld, Deadlines, callerVars, childVars, PollTimeout, StartKill
  <1> QED
    BY <1>1, <1>2, <1>3, <1>4, <1>5 DEF IInv

\* After the kill there is no worker, so there is nothing to inherit.
LEMMA KillKeeps ==
  ASSUME IInv, NEW c \in Caller, Kill(c)
  PROVE  IInv'
  <1>1. TypeOK'
    <2>1. worker \in Process
      BY WorkerAssumption DEF IInv, TypeOK, LockHeld, Kill
    <2>2. child' \in [Process -> {"none", "booting", "idle", "busy", "dead", "orphan"}]
      BY <2>1 DEF IInv, TypeOK, Kill
    <2> QED
      BY <2>1, <2>2, ReturnType, WorkerAssumption DEF IInv, TypeOK, Kill
  <1>2. LockHeld'
    BY WorkerAssumption DEF IInv, TypeOK, LockHeld, Holding, callerVars, childVars, Kill, Return
  <1>3. Handover'
    BY WorkerAssumption DEF IInv, TypeOK, LockHeld, Holding, Handover, Quiet, OneWorker, Alive, callerVars, childVars,
        Kill, Return
  <1>4. OneWorker' /\ OwnReply'
    <2>1. OneWorker'
      BY WorkerAssumption DEF IInv, TypeOK, LockHeld, Holding, OneWorker, Alive, callerVars, childVars, Kill, Return
    <2>2. OwnReply'
      BY WorkerAssumption DEF IInv, TypeOK, OwnReply, Handover, callerVars, childVars, Kill, Return
    <2> QED
      BY <2>1, <2>2
  <1>5. Deadlines'
    BY WorkerAssumption DEF IInv, TypeOK, LockHeld, Deadlines, callerVars, childVars, Kill, Return
  <1> QED
    BY <1>1, <1>2, <1>3, <1>4, <1>5 DEF IInv

\* A child that comes up has no request in hands.
LEMMA BootKeeps ==
  ASSUME IInv, NEW p \in Process, Boot(p)
  PROVE  IInv'
  <1>1. TypeOK'
    BY WorkerAssumption DEF IInv, TypeOK, callerVars, Boot
  <1>2. Handover'
    BY WorkerAssumption DEF IInv, TypeOK, LockHeld, Holding, Handover, Quiet, OneWorker, Alive,
        callerVars, Boot
  <1>3. OneWorker'
    BY DEF IInv, TypeOK, OneWorker, Alive, Boot
  <1> QED
    BY <1>1, <1>2, <1>3 DEF IInv, LockHeld, OwnReply, Deadlines, callerVars, Boot

\* Only a request that was sent is received.
LEMMA ReceiveKeeps ==
  ASSUME IInv, NEW p \in Process, Receive(p)
  PROVE  IInv'
  <1>1. TypeOK'
    BY WorkerAssumption DEF IInv, TypeOK, callerVars, Receive
  <1>2. Handover'
    BY WorkerAssumption DEF IInv, TypeOK, LockHeld, Holding, Handover, Quiet, OneWorker, Alive,
        callerVars, Receive
  <1>3. OneWorker'
    BY DEF IInv, TypeOK, OneWorker, Alive, Receive
  <1> QED
    BY <1>1, <1>2, <1>3 DEF IInv, LockHeld, OwnReply, Deadlines, callerVars, Receive

\* A reply goes to the one who waits for it.
LEMMA ReplyKeeps ==
  ASSUME IInv, NEW p \in Process, Reply(p)
  PROVE  IInv'
  <1>1. TypeOK'
    BY WorkerAssumption DEF IInv, TypeOK, callerVars, Reply
  <1>2. Handover'
    BY WorkerAssumption DEF IInv, TypeOK, LockHeld, Holding, Handover, Quiet, OneWorker, Alive,
        callerVars, Reply
  <1>3. OneWorker'
    BY DEF IInv, TypeOK, OneWorker, Alive, Reply
  <1> QED
    BY <1>1, <1>2, <1>3 DEF IInv, LockHeld, OwnReply, Deadlines, callerVars, Reply

\* A child that dies leaves what was in the pipes.
LEMMA ChildDiesKeeps ==
  ASSUME IInv, NEW p \in Process, ChildDies(p)
  PROVE  IInv'
  <1>1. TypeOK'
    BY WorkerAssumption DEF IInv, TypeOK, callerVars, ChildDies
  <1>2. Handover'
    BY WorkerAssumption DEF IInv, TypeOK, LockHeld, Holding, Handover, Quiet, OneWorker, Alive,
        callerVars, ChildDies
  <1>3. OneWorker'
    BY DEF IInv, TypeOK, OneWorker, Alive, ChildDies
  <1> QED
    BY <1>1, <1>2, <1>3 DEF IInv, LockHeld, OwnReply, Deadlines, callerVars, ChildDies

\* An abandoned child is nobody's worker.
LEMMA OrphanDiesKeeps ==
  ASSUME IInv, NEW p \in Process, OrphanDies(p)
  PROVE  IInv'
  <1>1. TypeOK'
    BY WorkerAssumption DEF IInv, TypeOK, callerVars, OrphanDies
  <1>2. Handover'
    BY WorkerAssumption DEF IInv, TypeOK, LockHeld, Holding, Handover, Quiet, OneWorker, Alive,
        callerVars, OrphanDies
  <1>3. OneWorker'
    BY DEF IInv, TypeOK, OneWorker, Alive, OrphanDies
  <1> QED
    BY <1>1, <1>2, <1>3 DEF IInv, LockHeld, OwnReply, Deadlines, callerVars, OrphanDies

\* Time passes nobody's deadline: only a send can be overtaken, and a kill has as
\* much time as its joins.
LEMMA TickKeeps ==
  ASSUME IInv, Tick
  PROVE  IInv'
  <1>1. \A c \in Caller : MayPass(c)
    BY DEF Tick
  <1>2. ASSUME NEW c \in Caller
        PROVE  /\ left'[c] = IF pc[c] = "idle" \/ left[c] = -2 * Grace - 1
                             THEN left[c] ELSE left[c] - 1
               /\ left'[c] \in (-2 * Grace - 1)..Budget
    BY WorkerAssumption DEF IInv, TypeOK, Tick
  <1>3. ASSUME NEW c \in Caller
        PROVE  /\ grace'[c] = IF pc[c] = "kill" THEN grace[c] - 1 ELSE grace[c]
               /\ grace'[c] \in 0..(2 * Grace)
    BY <1>1, WorkerAssumption DEF IInv, TypeOK, Tick, MayPass
  <1>4. ASSUME NEW c \in Caller
        PROVE  /\ blocked'[c] <=> (blocked[c] \/ (pc[c] = "send" /\ left[c] <= 0))
               /\ blocked'[c] \in BOOLEAN
    BY Zenon DEF IInv, TypeOK, Tick
  <1>5. TypeOK'
    <2>1. left' \in [Caller -> (-2 * Grace - 1)..Budget]
      BY <1>2 DEF Tick
    <2>2. grace' \in [Caller -> 0..(2 * Grace)]
      BY <1>3 DEF Tick
    <2>3. blocked' \in [Caller -> BOOLEAN]
      BY <1>4, Zenon DEF Tick
    <2> QED
      BY <2>1, <2>2, <2>3 DEF IInv, TypeOK, Tick, childVars
  <1>6. Deadlines'
    <2> SUFFICES ASSUME NEW c \in Caller
                 PROVE  /\ pc[c] \in {"lock", "ensure"} => left'[c] >= 0
                        /\ pc[c] \in {"send", "poll"} => left'[c] >= 0 \/ blocked'[c]
                        /\ pc[c] = "kill" => left'[c] >= grace'[c] - 2 * Grace \/ blocked'[c]
      BY DEF Deadlines, Tick
    <2>1. /\ left[c] \in (-2 * Grace - 1)..Budget
          /\ grace[c] \in 0..(2 * Grace)
      BY DEF IInv, TypeOK
    <2>2. CASE pc[c] \in {"lock", "ensure"}
      BY <2>1, <2>2, <1>1, <1>2, WorkerAssumption DEF IInv, Deadlines, MayPass
    <2>3. CASE pc[c] = "send"
      BY <2>1, <2>3, <1>2, <1>4, WorkerAssumption DEF IInv, Deadlines
    <2>4. CASE pc[c] = "poll"
      BY <2>1, <2>4, <1>1, <1>2, WorkerAssumption DEF IInv, Deadlines, MayPass
    <2>5. CASE pc[c] = "kill"
      BY <2>1, <2>5, <1>1, <1>2, <1>3, <1>4, WorkerAssumption DEF IInv, Deadlines, MayPass
    <2> QED
      BY <2>2, <2>3, <2>4, <2>5
  <1> QED
    BY <1>5, <1>6 DEF IInv, LockHeld, Handover, Quiet, OneWorker, Alive, OwnReply, Tick, childVars

\* At first nobody calls and there is no child.
LEMMA InitHolds ==
  ASSUME Init
  PROVE  IInv
  <1>1. TypeOK
    BY WorkerAssumption DEF Init, TypeOK, Contents
  <1>2. LockHeld /\ Handover
    BY WorkerAssumption DEF Init, LockHeld, Holding, Handover, Quiet
  <1>3. OneWorker /\ OwnReply /\ Deadlines
    BY WorkerAssumption DEF Init, OneWorker, Alive, OwnReply, Deadlines
  <1> QED
    BY <1>1, <1>2, <1>3 DEF IInv

\* Every step of callers, children and time keeps the inductive invariant.
LEMMA StepKeeps ==
  ASSUME IInv, [Next]_vars
  PROVE  IInv'
  <1>1. ASSUME NEW c \in Caller, CallerStep(c) PROVE IInv'
    BY <1>1, CallKeeps, LockTimeoutKeeps, AcquireKeeps, SpawnKeeps, SpawnFailsKeeps, ReuseKeeps,
       SendFailsKeeps, SendKeeps, TakeReplyKeeps, FindDeadKeeps, PollTimeoutKeeps, KillKeeps
       DEF CallerStep
  <1>2. ASSUME NEW p \in Process, ChildStep(p) PROVE IInv'
    BY <1>2, BootKeeps, ReceiveKeeps, ReplyKeeps, ChildDiesKeeps, OrphanDiesKeeps DEF ChildStep
  <1>3. CASE Tick
    BY <1>3, TickKeeps
  <1>4. CASE UNCHANGED vars
    BY <1>4 DEF IInv, TypeOK, LockHeld, Handover, Quiet, OneWorker, Alive, OwnReply, Deadlines,
        vars, callerVars, childVars
  <1> QED
    BY <1>1, <1>2, <1>3, <1>4 DEF Next

\* The state of callers, lock, worker and pipes is consistent in every reachable
\* state (_WorkerManager.call, _kill and _worker_loop).
THEOREM Consistent == Spec => []IInv
  <1>1. Init => IInv
    BY InitHolds
  <1>2. IInv /\ [Next]_vars => IInv'
    BY StepKeeps
  <1> QED
    BY <1>1, <1>2, PTL DEF Spec

\* No caller gets the sanitized form of another caller's observation: the pipe of
\* a call that gave up is closed with its child.
THEOREM RepliesAreOwn == Spec => []OwnReply
  <1>1. IInv => OwnReply
    BY DEF IInv
  <1> QED
    BY <1>1, Consistent, PTL

\* Timeouts recycle the child: at most the current one runs, apart from those
\* terminate and kill did not end.
THEOREM NoSecondWorker == Spec => []OneWorker
  <1>1. IInv => OneWorker
    BY DEF IInv
  <1> QED
    BY <1>1, Consistent, PTL

\* A call ends within its budget and two joins, whatever hangs, dies or queues
\* ahead of it, unless its own send blocks; in the queue it keeps to its budget.
THEOREM LatencyBounded == Spec => []BoundedLatency
  <1>1. IInv => BoundedLatency
    BY WorkerAssumption DEF IInv, TypeOK, Deadlines, BoundedLatency
  <1> QED
    BY <1>1, Consistent, PTL

================================================================================
