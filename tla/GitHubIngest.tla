---------------------------- MODULE GitHubIngest ----------------------------
(***************************************************************************)
(* GitHubIssueIngestRuntime (protocol/provider_acquisition/github/         *)
(* ingest.py) for one repository: webhook deliveries and polling backfill, *)
(* run by any number of runtime processes that share the cursor store and  *)
(* emit through a GatewaySink each.                                        *)
(***************************************************************************)
EXTENDS GitHubProvider, CursorPolicy

CONSTANTS
    Runtime,        \* processes that call ingest_webhook and poll_backfill
    IssueReply,     \* what the Bot decides about evidence of each issue
    Strays,         \* statuses any POST may be answered with, whatever it carries
    Poisoned,       \* issues that normalize refuses, aborting the whole page
    Webhooks        \* does the provider deliver webhooks to the runtimes?

ASSUME IngestAssumption ==
    /\ IssueReply \in [Issue -> {201} \cup 300..999]
    /\ Strays \subseteq (200..999) \ {201}
    /\ Poisoned \subseteq Issue
    /\ Webhooks \in BOOLEAN

VARIABLES
    hooks,      \* webhook deliveries: never removed, so lost, late or repeated
    pc,         \* what each runtime is doing
    since,      \* the cursor a poll loaded
    proposed,   \* the cursor it will store after a 201 for every row
    cursor,     \* the updated_at watermark in the cursor store
    phase, batch, sent, error, verified, contract, credential, ingested

Sink == INSTANCE GatewaySink WITH
            Evidence <- Row,
            Invalid <- {},
            BotReply <- [e \in Row |-> IssueReply[e.issue]],
            Batches <- {},
            Endpoint <- [r \in Runtime |-> "v2"],
            BotDrifts <- FALSE

sinkVars == <<phase, batch, sent, error, verified, contract, credential, ingested>>
runtimeVars == <<pc, since, proposed>>
vars == <<providerVars, hooks, runtimeVars, cursor, sinkVars>>

TypeOK ==
    /\ ProviderTypeOK
    /\ hooks \subseteq Row
    /\ pc \in [Runtime -> {"idle", "fetch", "emitting"}]
    /\ since \in [Runtime -> 0..MaxTime]
    /\ proposed \in [Runtime -> 0..MaxTime]
    /\ cursor \in 0..MaxTime
    /\ Sink!TypeOK

Init ==
    /\ ProviderInit
    /\ hooks = {}
    /\ pc = [r \in Runtime |-> "idle"]
    /\ since = [r \in Runtime |-> 0]
    /\ proposed = [r \in Runtime |-> 0]
    /\ cursor = 0
    /\ Sink!SinkInit

\* An issue changes; GitHub sends an "issues" event for it, unless the row is a
\* pull request.
ProviderUpdate(i) ==
    /\ Update(i)
    /\ hooks' = IF Webhooks /\ i \notin PullRequest
                THEN hooks \cup {[issue |-> i, rev |-> upstream[i].rev + 1, at |-> now']}
                ELSE hooks
    /\ UNCHANGED <<runtimeVars, cursor, sinkVars>>

\* Back to idle without touching the cursor store.
Finish(r) ==
    /\ pc' = [pc EXCEPT ![r] = "idle"]
    /\ since' = [since EXCEPT ![r] = 0]
    /\ proposed' = [proposed EXCEPT ![r] = 0]

\* (Mutant) The cursor is stored before the rows are posted.
SubmitAfterSaving(r, rows) ==
    /\ pc' = [pc EXCEPT ![r] = "emitting"]
    /\ proposed' = [proposed EXCEPT ![r] = rows[Len(rows)].at]
    /\ cursor' = rows[Len(rows)].at
    /\ Sink!Emit(r, rows)
    /\ UNCHANGED <<providerVars, hooks>>

\* (Mutant) The proposed cursor is the time of the poll, not a row's stamp.
SubmitProposesNow(r, rows) ==
    /\ pc' = [pc EXCEPT ![r] = "emitting"]
    /\ proposed' = [proposed EXCEPT ![r] = now]
    /\ Sink!Emit(r, rows)
    /\ UNCHANGED <<providerVars, hooks, cursor>>

\* _emit_and_commit, up to the call of emit: the proposed cursor is the stamp
\* of the last row, whatever the order the rows came in.
Submit(r, rows) ==
    /\ pc' = [pc EXCEPT ![r] = "emitting"]
    /\ proposed' = [proposed EXCEPT ![r] = rows[Len(rows)].at]
    /\ Sink!Emit(r, rows)
    /\ UNCHANGED <<providerVars, hooks, cursor>>

\* ingest_webhook: a signed event of a supported kind.  Nothing is compared
\* with the stored cursor and nothing is deduplicated.
IngestWebhook(r, row) ==
    /\ pc[r] = "idle"
    /\ row \in hooks
    /\ row.issue \notin Poisoned
    /\ Submit(r, <<row>>)
    /\ UNCHANGED since

\* poll_backfill: token and cursor are read, the request goes out.
PollLoad(r) ==
    /\ pc[r] = "idle"
    /\ pc' = [pc EXCEPT ![r] = "fetch"]
    /\ since' = [since EXCEPT ![r] = cursor]
    /\ UNCHANGED <<providerVars, hooks, proposed, cursor, sinkVars>>

\* The rows of a page that become emissions.
Wanted(page) == {row \in page : row.issue \notin PullRequest}

\* 200 with one page; there is no second request.  A row that fails to
\* normalize aborts the page.
PollFetch(r) ==
    /\ pc[r] = "fetch"
    /\ \E page \in SUBSET Candidates(since[r]) :
        /\ IsFirstPage(page, Candidates(since[r]))
        /\ Wanted(page) # {}
        /\ \A row \in Wanted(page) : row.issue \notin Poisoned
        /\ \E rows \in Listings(Wanted(page)) : Submit(r, rows)
    /\ UNCHANGED since

\* No emission comes of the page: a refused request, a body that is not a list,
\* a page of pull requests only (reported as ADVANCE, yet nothing is stored),
\* or a row that normalize raises on.
PollYieldsNothing(r) ==
    /\ pc[r] = "fetch"
    /\ Finish(r)
    /\ UNCHANGED <<providerVars, hooks, cursor, sinkVars>>

\* One step of emit on behalf of this runtime.
Deliver(r) ==
    /\ pc[r] = "emitting"
    /\ Sink!Step(r)
    /\ UNCHANGED <<providerVars, hooks, runtimeVars, cursor>>

\* (Mutant) The verdict is compared with the wrong value, so nothing is saved.
CommitForgets(r) ==
    /\ pc[r] = "emitting"
    /\ phase[r] = "ok"
    /\ Finish(r)
    /\ Sink!Return(r)
    /\ UNCHANGED <<providerVars, hooks, cursor>>

\* emit returned: only now is the proposed cursor stored.
Commit(r) ==
    /\ pc[r] = "emitting"
    /\ phase[r] = "ok"
    /\ cursor' = proposed[r]
    /\ Finish(r)
    /\ Sink!Return(r)
    /\ UNCHANGED <<providerVars, hooks>>

\* (Mutant) The verdict ADVANCE of a refused emission is acted upon for the batch.
GiveUpAdvances(r) ==
    /\ pc[r] = "emitting"
    /\ phase[r] \in {"error", "gated"}
    /\ cursor' = IF Verdict(error[r].status, error[r].reason) = "ADVANCE"
                 THEN proposed[r] ELSE cursor
    /\ Finish(r)
    /\ Sink!Return(r)
    /\ UNCHANGED <<providerVars, hooks>>

\* emit raised: the verdict is returned to the caller, or the exception
\* propagates; in both cases the store is left alone.
GiveUp(r) ==
    /\ pc[r] = "emitting"
    /\ phase[r] \in {"error", "gated"}
    /\ Finish(r)
    /\ Sink!Return(r)
    /\ UNCHANGED <<providerVars, hooks, cursor>>

\* The process dies, or the save fails, anywhere: also between the last 201 and
\* the replacement of the cursor file, which is atomic.
Crash(r) ==
    /\ pc[r] # "idle"
    /\ Finish(r)
    /\ Sink!Crash(r)
    /\ UNCHANGED <<providerVars, hooks, cursor>>

RuntimeStep(r) ==
    \/ \E row \in hooks : IngestWebhook(r, row)
    \/ PollLoad(r)
    \/ PollFetch(r)
    \/ PollYieldsNothing(r)
    \/ Deliver(r)
    \/ Commit(r)
    \/ GiveUp(r)
    \/ Crash(r)

Next ==
    \/ \E i \in Issue : ProviderUpdate(i)
    \/ \E r \in Runtime : RuntimeStep(r)

Spec == Init /\ [][Next]_vars

------------------------------------------------------------------------------
(* Properties *)

Abstract == INSTANCE Backfill

\* The documented meaning of updated_at_watermark: whatever was last updated
\* before the stored cursor has reached the Bot in its latest revision, so a
\* poll that starts from the cursor misses nothing.
WatermarkCovers == Abstract!Covered(cursor)

\* Two-phase commit: the stored watermark is always the stamp of a row that was
\* answered 201, whatever crashes, failures and races happen.
CursorNamesDelivered ==
    cursor # 0 => \E row \in ingested : row.at = cursor

\* Polling, with any number of processes, crashes and partial failures,
\* implements the abstract backfill.
ImplementsBackfill == Abstract!Spec

\* Evidence the Bot accepts and normalize does not refuse.
Deliverable == {i \in Issue \ (PullRequest \cup Poisoned) : IssueReply[i] = 201}

\* Once the provider is quiet, every deliverable issue reaches the Bot in its
\* latest revision.
BackfillCompletes ==
    \A i \in Deliverable : []<>(upstream[i].rev > 0 => RowOf(i) \in ingested)

\* The operator polls again and again, requests to the provider and to the Bot
\* do not fail for ever, and a process does not crash for ever at one point.
AcceptsIssue(r, i) ==
    /\ phase[r] = "post"
    /\ Sink!Current(r).issue = i
    /\ pc[r] = "emitting"
    /\ Sink!PostAccepted(r)
    /\ UNCHANGED <<providerVars, hooks, runtimeVars, cursor>>

HandshakeSucceeds(r) ==
    /\ pc[r] = "emitting"
    /\ Sink!HandshakeMatches(r)
    /\ UNCHANGED <<providerVars, hooks, runtimeVars, cursor>>

Fairness ==
    \A r \in Runtime :
        /\ WF_vars(PollLoad(r))
        /\ WF_vars(PollYieldsNothing(r))
        /\ SF_vars(PollFetch(r))
        /\ SF_vars(HandshakeSucceeds(r))
        /\ \A i \in Issue : SF_vars(AcceptsIssue(r, i))
        /\ WF_vars(Deliver(r))
        /\ SF_vars(Commit(r))
        /\ WF_vars(GiveUp(r))

FairSpec == Spec /\ Fairness

------------------------------------------------------------------------------
(* The inductive invariants behind CursorNamesDelivered, and behind           *)
(* WatermarkCovers when there are no webhooks                                 *)

\* The cursor a call will store is the stamp of the last row it was given.
ProposedIsLast ==
    \A r \in Runtime : pc[r] = "emitting" =>
        /\ batch[r] # <<>>
        /\ proposed[r] = batch[r][Len(batch[r])].at

CommitInv ==
    /\ TypeOK
    /\ Sink!AckedPrefixIngested
    /\ ProposedIsLast
    /\ CursorNamesDelivered

Latest == {i \in Issue \ PullRequest : upstream[i].rev > 0}

\* Stamps come from the provider's clock.
StampsInPast ==
    /\ \A i \in Issue : upstream[i].at <= now
    /\ cursor <= now
    /\ \A r \in Runtime : since[r] <= now /\ proposed[r] <= now

\* What lies below a proposed cursor is with the Bot or in the batch in hand.
BatchCovers ==
    \A r \in Runtime : pc[r] = "emitting" =>
        \A i \in Latest : upstream[i].at < proposed[r] =>
            RowOf(i) \in ingested \cup Sink!Elements(batch[r])

IInv ==
    /\ TypeOK
    /\ hooks = {}
    /\ StampsInPast
    /\ Sink!AckedPrefixIngested
    /\ Abstract!Covered(cursor)
    /\ \A r \in Runtime : Abstract!Covered(since[r])
    /\ BatchCovers
==============================================================================
