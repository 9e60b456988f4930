--------------------------- MODULE RedactionWorker ---------------------------
(***************************************************************************)
(* _WorkerManager (adapter/core/redaction_receipt.py): threads that want   *)
(* an observation sanitized share one child process, one pipe and one      *)
(* lock.  Every call has one deadline for all it does; a child that does   *)
(* not answer in time is killed and replaced.                              *)
(*                                                                         *)
(* Time is counted down: left[c] is what remains of the caller's budget,   *)
(* below zero once it is overdue.  A waiting primitive with a timeout      *)
(* returns when the timeout is over, so time does not pass it by; the      *)
(* send has no timeout, and time may pass without bound while it blocks.   *)
(***************************************************************************)
EXTENDS Integers, FiniteSets

CONSTANTS
    Caller,         \* threads that call guarded_sanitize_observation
    Process,        \* child processes alive or remembered at one time
    None,
    Budget,         \* budget_seconds, in ticks
    Grace           \* _JOIN_GRACE_SECONDS, in ticks

ASSUME WorkerAssumption ==
    /\ None \notin Caller \cup Process
    /\ Budget \in Nat \ {0}
    /\ Grace \in Nat

\* What an observation does to the worker: it is sanitized or refused, does not
\* pickle, is larger than the pipe's buffer, never ends, or kills the child.
Contents == {"plain", "unpicklable", "large", "endless", "fatal"}

VARIABLES
    pc,         \* where each caller is
    content,    \* the observation it brought
    left,       \* ticks left of its budget
    blocked,    \* has its send outlasted the budget?
    grace,      \* ticks left of the joins in _kill
    answer,     \* what the last call returned, or raised
    owner,      \* who holds the lock
    worker,     \* _process: the current child, or None
    child,      \* state of each child process
    inbox,      \* the request in the child's pipe, or in its hands
    outbox      \* the reply in the pipe

callerVars == <<pc, content, left, blocked, grace, answer>>
childVars == <<child, inbox, outbox>>
vars == <<callerVars, owner, worker, childVars>>

\* A request and its reply carry the caller, which stands for the observation.
TypeOK ==
    /\ pc \in [Caller -> {"idle", "lock", "ensure", "send", "poll", "kill"}]
    /\ content \in [Caller -> Contents]
    /\ left \in [Caller -> (-2 * Grace - 1)..Budget]
    /\ blocked \in [Caller -> BOOLEAN]
    /\ grace \in [Caller -> 0..(2 * Grace)]
    /\ answer \in [Caller -> {"none", "own", "foreign", "error"}]
    /\ owner \in Caller \cup {None}
    /\ worker \in Process \cup {None}
    /\ child \in [Process -> {"none", "booting", "idle", "busy", "dead", "orphan"}]
    /\ inbox \in [Process -> Caller \cup {None}]
    /\ outbox \in [Process -> Caller \cup {None}]

Init ==
    /\ pc = [c \in Caller |-> "idle"]
    /\ content = [c \in Caller |-> "plain"]
    /\ left = [c \in Caller |-> 0]
    /\ blocked = [c \in Caller |-> FALSE]
    /\ grace = [c \in Caller |-> 0]
    /\ answer = [c \in Caller |-> "none"]
    /\ owner = None
    /\ worker = None
    /\ child = [p \in Process |-> "none"]
    /\ inbox = [p \in Process |-> None]
    /\ outbox = [p \in Process |-> None]

Alive == {p \in Process : child[p] \in {"booting", "idle", "busy"}}

\* Back to the host, with what the call came to.
Return(c, result) ==
    /\ pc' = [pc EXCEPT ![c] = "idle"]
    /\ answer' = [answer EXCEPT ![c] = result]
    /\ left' = [left EXCEPT ![c] = 0]
    /\ blocked' = [blocked EXCEPT ![c] = FALSE]
    /\ grace' = [grace EXCEPT ![c] = 0]
    /\ UNCHANGED content

\* call: the deadline is fixed before anything else.
Call(c, what) ==
    /\ pc[c] = "idle"
    /\ pc' = [pc EXCEPT ![c] = "lock"]
    /\ content' = [content EXCEPT ![c] = what]
    /\ left' = [left EXCEPT ![c] = Budget]
    /\ answer' = [answer EXCEPT ![c] = "none"]
    /\ UNCHANGED <<blocked, grace, owner, worker, childVars>>

\* The lock was not to be had in time.
LockTimeout(c) ==
    /\ pc[c] = "lock"
    /\ left[c] = 0
    /\ Return(c, "error")
    /\ UNCHANGED <<owner, worker, childVars>>

Acquire(c) ==
    /\ pc[c] = "lock"
    /\ owner = None
    /\ owner' = c
    /\ pc' = [pc EXCEPT ![c] = "ensure"]
    /\ UNCHANGED <<content, left, blocked, grace, answer, worker, childVars>>

\* No worker, or a dead one: it is reaped and another is spawned.
Spawn(c, p) ==
    /\ pc[c] = "ensure"
    /\ worker \notin Alive
    /\ child[p] \in {"none", "dead"}
    /\ worker' = p
    /\ child' = [q \in Process |-> IF q = p THEN "booting"
                                   ELSE IF q = worker THEN "none" ELSE child[q]]
    /\ inbox' = [q \in Process |-> IF q \in {p, worker} THEN None ELSE inbox[q]]
    /\ outbox' = [q \in Process |-> IF q \in {p, worker} THEN None ELSE outbox[q]]
    /\ pc' = [pc EXCEPT ![c] = "send"]
    /\ UNCHANGED <<content, left, blocked, grace, answer, owner>>

\* The operating system refuses another process: the exception is not a
\* RedactionFailure, the lock is released and there is no worker.
SpawnFails(c) ==
    /\ pc[c] = "ensure"
    /\ worker \notin Alive
    /\ Return(c, "error")
    /\ owner' = None
    /\ worker' = None
    /\ child' = [q \in Process |-> IF q = worker THEN "none" ELSE child[q]]
    /\ inbox' = [q \in Process |-> IF q = worker THEN None ELSE inbox[q]]
    /\ outbox' = [q \in Process |-> IF q = worker THEN None ELSE outbox[q]]

Reuse(c) ==
    /\ pc[c] = "ensure"
    /\ worker \in Alive
    /\ pc' = [pc EXCEPT ![c] = "send"]
    /\ UNCHANGED <<content, left, blocked, grace, answer, owner, worker, childVars>>

\* (Mutant) Three joins of the same length.
StartKillOnceMore(c) ==
    /\ pc' = [pc EXCEPT ![c] = "kill"]
    /\ grace' = [grace EXCEPT ![c] = 3 * Grace]
    /\ UNCHANGED <<content, left, blocked, answer, owner, worker, childVars>>

\* _kill, to raise a RedactionFailure afterwards.
StartKill(c) ==
    /\ pc' = [pc EXCEPT ![c] = "kill"]
    /\ grace' = [grace EXCEPT ![c] = 2 * Grace]
    /\ UNCHANGED <<content, left, blocked, answer, owner, worker, childVars>>

\* The observation does not pickle, or the child has died since is_alive: the
\* same handler, so "unsupported_payload" is raised for either.
SendFails(c) ==
    /\ pc[c] = "send"
    /\ content[c] = "unpicklable" \/ worker \notin Alive
    /\ StartKill(c)

\* A request that does not fit the pipe is sent when the child reads it.
Send(c) ==
    /\ pc[c] = "send"
    /\ content[c] # "unpicklable"
    /\ worker \in Alive
    /\ content[c] = "large" => child[worker] = "idle"
    /\ inbox' = [inbox EXCEPT ![worker] = c]
    /\ pc' = [pc EXCEPT ![c] = "poll"]
    /\ UNCHANGED <<content, left, blocked, grace, answer, owner, worker, child, outbox>>

\* A reply is there, ok or err: either is taken for the caller's own.  The time
\* is looked at once more after the send.
TakeReply(c) ==
    /\ pc[c] = "poll"
    /\ left[c] >= 0
    /\ outbox[worker] # None
    /\ Return(c, IF outbox[worker] = c THEN "own" ELSE "foreign")
    /\ owner' = None
    /\ outbox' = [outbox EXCEPT ![worker] = None]
    /\ UNCHANGED <<worker, child, inbox>>

\* The pipe is at its end: the child died.
FindDead(c) ==
    /\ pc[c] = "poll"
    /\ left[c] >= 0
    /\ worker \notin Alive
    /\ outbox[worker] = None
    /\ StartKill(c)

\* (Mutant) The caller goes away and leaves the worker to finish.
PollTimeoutAbandons(c) ==
    /\ pc[c] = "poll"
    /\ left[c] <= 0
    /\ Return(c, "error")
    /\ owner' = None
    /\ UNCHANGED <<worker, childVars>>

\* (Mutant) The poll has no timeout: only the child's end wakes it.
PollTimeoutNever(c) ==
    /\ pc[c] = "poll"
    /\ left[c] <= 0 /\ worker \notin Alive
    /\ StartKill(c)

PollTimeout(c) ==
    /\ pc[c] = "poll"
    /\ left[c] <= 0
    /\ StartKill(c)

\* (Mutant) The reference is dropped without terminating the process.
KillForgets(c) ==
    /\ pc[c] = "kill"
    /\ child' = [child EXCEPT ![worker] = @]
    /\ inbox' = [inbox EXCEPT ![worker] = None]
    /\ outbox' = [outbox EXCEPT ![worker] = None]
    /\ worker' = None
    /\ owner' = None
    /\ Return(c, "error")

\* terminate, join, kill, join: the child is gone by the end of it, or, what the
\* code calls kill_failed, it is abandoned.  The references are cleared either way.
Kill(c) ==
    /\ pc[c] = "kill"
    /\ \/ child' = [child EXCEPT ![worker] = "none"]
       \/ /\ worker \in Alive /\ grace[c] = 0
          /\ child' = [child EXCEPT ![worker] = "orphan"]
    /\ inbox' = [inbox EXCEPT ![worker] = None]
    /\ outbox' = [outbox EXCEPT ![worker] = None]
    /\ worker' = None
    /\ owner' = None
    /\ Return(c, "error")

Boot(p) ==
    /\ child[p] = "booting"
    /\ child' = [child EXCEPT ![p] = "idle"]
    /\ UNCHANGED <<callerVars, owner, worker, inbox, outbox>>

Receive(p) ==
    /\ child[p] = "idle"
    /\ inbox[p] # None
    /\ child' = [child EXCEPT ![p] = "busy"]
    /\ UNCHANGED <<callerVars, owner, worker, inbox, outbox>>

Reply(p) ==
    /\ child[p] = "busy"
    /\ content[inbox[p]] \in {"plain", "large"}
    /\ child' = [child EXCEPT ![p] = "idle"]
    /\ outbox' = [outbox EXCEPT ![p] = inbox[p]]
    /\ inbox' = [inbox EXCEPT ![p] = None]
    /\ UNCHANGED <<callerVars, owner, worker>>

\* The child dies: of this observation, or of something else at any time.
ChildDies(p) ==
    /\ child[p] \in {"booting", "idle", "busy"}
    /\ child' = [child EXCEPT ![p] = "dead"]
    /\ UNCHANGED <<callerVars, owner, worker, inbox, outbox>>

\* An abandoned child goes at last, with whatever it was doing.
OrphanDies(p) ==
    /\ child[p] = "orphan"
    /\ child' = [child EXCEPT ![p] = "none"]
    /\ UNCHANGED <<callerVars, owner, worker, inbox, outbox>>

\* Nobody is at the end of a timeout, or between two instructions.
MayPass(c) ==
    /\ pc[c] \in {"lock", "poll"} => left[c] > 0
    /\ pc[c] = "kill" => grace[c] > 0
    /\ pc[c] # "ensure"

Tick ==
    /\ \E c \in Caller : pc[c] # "idle"
    /\ \A c \in Caller : MayPass(c)
    /\ left' = [c \in Caller |->
                    IF pc[c] = "idle" \/ left[c] = -2 * Grace - 1 THEN left[c] ELSE left[c] - 1]
    /\ blocked' = [c \in Caller |-> blocked[c] \/ (pc[c] = "send" /\ left[c] <= 0)]
    /\ grace' = [c \in Caller |-> IF pc[c] = "kill" THEN grace[c] - 1 ELSE grace[c]]
    /\ UNCHANGED <<pc, content, answer, owner, worker, childVars>>

CallerStep(c) ==
    \/ \E what \in Contents : Call(c, what)
    \/ LockTimeout(c)
    \/ Acquire(c)
    \/ \E p \in Process : Spawn(c, p)
    \/ SpawnFails(c)
    \/ Reuse(c)
    \/ SendFails(c)
    \/ Send(c)
    \/ TakeReply(c)
    \/ FindDead(c)
    \/ PollTimeout(c)
    \/ Kill(c)

ChildStep(p) == Boot(p) \/ Receive(p) \/ Reply(p) \/ ChildDies(p) \/ OrphanDies(p)

Next ==
    \/ \E c \in Caller : CallerStep(c)
    \/ \E p \in Process : ChildStep(p)
    \/ Tick

Spec == Init /\ [][Next]_vars

------------------------------------------------------------------------------
(* Properties *)

\* A caller never gets the sanitized form of another caller's observation: what a
\* call that gave up has left in the pipe dies with the child.
OwnReply == \A c \in Caller : answer[c] # "foreign"

\* Timeouts recycle the child, they do not accumulate children: besides the
\* current one only those are alive that terminate and kill could not end.
OneWorker == Alive \subseteq {worker}

\* The documented bound: a call ends within its budget and the tolerance for
\* cleaning up, and a caller in the queue does not exceed its budget, whatever
\* the one ahead of it runs into.  The exception is a send that blocks.
BoundedLatency ==
    \A c \in Caller : pc[c] # "idle" =>
        /\ left[c] >= -2 * Grace \/ blocked[c]
        /\ pc[c] \in {"lock", "ensure"} => left[c] >= 0

\* Every call ends, also one that follows a call that hangs.
EveryCallReturns == \A c \in Caller : pc[c] # "idle" ~> pc[c] = "idle"

\* Threads are scheduled, time passes, and an interpreter that starts comes up and
\* reads its pipe, or dies.
Progress(c) ==
    \/ LockTimeout(c)
    \/ Acquire(c)
    \/ \E p \in Process : Spawn(c, p)
    \/ SpawnFails(c)
    \/ Reuse(c)
    \/ SendFails(c)
    \/ Send(c)
    \/ TakeReply(c)
    \/ FindDead(c)
    \/ PollTimeout(c)
    \/ Kill(c)

Fairness ==
    /\ \A c \in Caller : WF_vars(Progress(c))
    /\ \A p \in Process : WF_vars(Boot(p)) /\ WF_vars(Receive(p))
    /\ SF_vars(Tick)

FairSpec == Spec /\ Fairness

------------------------------------------------------------------------------
(* The inductive invariant behind OwnReply, OneWorker and BoundedLatency *)

Holding == {"ensure", "send", "poll", "kill"}

\* One caller at a time is inside the lock, and past ensure it has a worker.
LockHeld ==
    \A c \in Caller :
        /\ pc[c] \in Holding <=> owner = c
        /\ pc[c] \in {"send", "poll", "kill"} => worker # None

\* Nothing is under way in the worker.
Quiet == worker # None => inbox[worker] = None /\ outbox[worker] = None /\ child[worker] # "busy"

\* A call begins on a quiet worker, and while it waits whatever is under way in the
\* worker is its own, either as the request or as the reply.
Handover ==
    /\ (owner = None \/ pc[owner] \in {"ensure", "send"}) => Quiet
    /\ \A c \in Caller : pc[c] = "poll" =>
            /\ inbox[worker] \in {c, None}
            /\ outbox[worker] \in {c, None}
            /\ inbox[worker] = None \/ outbox[worker] = None
    /\ \A p \in Process : child[p] = "busy" => inbox[p] # None

\* The budget is kept up to the kill, and the kill takes two joins, unless the
\* send has outlasted the budget.
Deadlines ==
    \A c \in Caller :
        /\ pc[c] \in {"lock", "ensure"} => left[c] >= 0
        /\ pc[c] \in {"send", "poll"} => left[c] >= 0 \/ blocked[c]
        /\ pc[c] = "kill" => left[c] >= grace[c] - 2 * Grace \/ blocked[c]

IInv ==
    /\ TypeOK
    /\ LockHeld
    /\ Handover
    /\ OneWorker
    /\ OwnReply
    /\ Deadlines
==============================================================================
