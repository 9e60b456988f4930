---------------------------- MODULE MCOperations ----------------------------
(***************************************************************************)
(* The operations that keep no state between calls, run on every input of  *)
(* their cases: a behaviour is one call, a manifest's read line by line,   *)
(* after which "done" has the kind of the call, its input and its output.  *)
(***************************************************************************)
EXTENDS MCEmissionCases, MCProviderCases, MCRunCases, MCRowCases

VARIABLE done

OperationInit == done = [kind |-> "none"]

Ready == done.kind = "none"

Does(kind, in, out) == done' = [kind |-> kind, in |-> in, out |-> out]

RedactText == Ready /\ \E t \in Texts : Does("text", t, Redact(t))

NormalizeBatch == Ready /\ \E b \in BatchInputs : Does("batch", b, Normalize(b))

Advise == Ready /\ \E e \in Advised : Does("advise", e, EvaluateFailOpen(e))

TraceOne ==
    Ready /\ \E in \in TraceInputs :
        Does("trace", in, TraceIngest(<<in.obs>>, in.capture, in.delivery))

Grade ==
    Ready /\ \E entry \in Entries, sink \in {"none", "raises", "gateway", "collecting"} :
        Does("grade", <<entry, sink>>, RunEntry(entry, sink))

ResolveCursor == Ready /\ \E status \in Statuses, reason \in ReasonInputs :
    Does("verdict", <<status, reason>>, Policy!ResolveCursorAction(status, reason))

DiscoverOne == Ready /\ \E call \in Calls : Does("discover", call, Discover(call))

AskStub == Ready /\ \E fixtures \in FixtureLists :
    Does("stub", fixtures, <<StubGet(fixtures, "a"), StubFetch(fixtures, "r", "a")>>)

RunConnector == Ready /\ \E run \in Runs :
    Does("run", run, Local!RunFailure(run.c, run.blocks, run.env, "", run.answer))

ResolveTokens == Ready /\ \E r \in Resolves : Does("token", r, Resolved(r))

RunMods == Ready /\ \E r \in Readings :
    Does("mods", r, [ said |-> Bundled(r),
                      ran  |-> [id \in DOMAIN Outputs |-> RunBundled(id, <<r>>)] ])

RunOneMod == Ready /\ \E a \in ModArtifacts :
    LET mod == DeclaredBy("noisy_source_gate")
    IN Does("artifact", a, RunMod(mod, mod, <<>>, {a}))

\* A manifest is read line by line, to the first line that fails.
Halfway(lines, at, state) == [kind |-> "reading", in |-> lines, at |-> at, state |-> state]

LoadManifest == Ready /\ \E lines \in Manifests : done' = Halfway(lines, 0, Unread)

ReadManifestLine ==
    /\ done.kind = "reading" /\ done.at < Len(done.in) /\ ~done.state.failed
    /\ done' = Halfway(done.in, done.at + 1, ReadLine(done.state, done.in[done.at + 1]))

BuildManifest ==
    /\ done.kind = "reading" /\ (done.at = Len(done.in) \/ done.state.failed)
    /\ Does("manifest", done.in, Builds(done.state))

DeliverRows == Ready /\ \E poll \in Polls :
    Does("rows", poll, Row!DeliverPoll(poll.c, Batch(poll)))

OperationNext ==
    \/ RedactText \/ NormalizeBatch \/ Advise \/ TraceOne \/ Grade
    \/ ResolveCursor \/ DiscoverOne \/ AskStub \/ RunConnector \/ ResolveTokens
    \/ RunMods \/ RunOneMod \/ LoadManifest \/ ReadManifestLine \/ BuildManifest
    \/ DeliverRows

OperationSpec == OperationInit /\ [][OperationNext]_done

------------------------------------------------------------------------------
(* Properties *)

\* After the catalog, the broad patterns and the catalog again (redact), nothing the
\* patterns know is left of any text but the two known residues, no number is cut in
\* two by a pattern that came too early, no other word is lost, and the findings are
\* empty if and only if the text is unchanged.
RedactedIsClean == done.kind = "text" => RedactsTo(done.in, done.out)

\* normalize lets a batch pass if and only if all of it is fit to leave, whole and in
\* order, with its identities byte for byte; then nothing sensitive is in what is
\* emitted, mapped to an envelope or exported to the SDK.
RedactAndPass == done.kind = "batch" => PassesFit(done.in, done.out)

\* The heuristics annotate and never decide: no signal, however malformed, changes or
\* drops the evidence or silences a universal rule that holds.
AdvisoriesFailOpen == done.kind = "advise" => FailsOpen(done.in, done.out)

\* A projected trace is valid, tells the advisories of its phases apart, and any change
\* to it is caught but those that a chain without anchors cannot see.
TraceIsEvidence == done.kind = "trace" => Evidences(done.in, done.out)

\* run_entry passes exactly the recordings a real receiver acquired and that come out
\* as committed, and delivers nothing else; what it says of a sink that only collects
\* is not approved here (OnlyReceiptsProve).
HarnessGrades == done.kind = "grade" => Grades(done.in[1], done.in[2], done.out)

\* resolve_cursor_action moves the cursor for an acceptance or a refusal with a cause
\* of its own, whatever else a status or a reason may be.
FailsClosed == done.kind = "verdict" => Policy!ClosedTo(done.in[1], done.in[2], done.out)

\* list, get and fetch of every provider and of the stub return what was asked, whole
\* and screened, or an error that says what the provider said.
AnswersClassified ==
    /\ done.kind = "discover" => Classified(done.in, done.out)
    /\ done.kind = "stub" => Stubbed(done.in, done.out[1], done.out[2])

\* What assert_runnable lets pass never fails for want of a credential, which the
\* resolver finds again in the same file and environment; and what it lets pass is sent
\* if and only if the rest is there too: runtime values the builder needs, which the gate
\* does not look at, an endpoint the builder knows and no control character in a secret.
GateMeansCredentialed == done.kind = "run" => GateAgrees(done.in, done.out)

\* RefreshTokenSecretResolver never hands out an expired token, whatever lifetimes the
\* provider states or leaves out, and a refresh that fails costs one call.
TokenOutlivesItsUse == done.kind = "token" => Outlives(done.in, done.out)

\* run_mods holds all the bundled mods to their manifests on all that the pipeline
\* emits, and run_mod any artifact to the manifest of its mod.
ModsKeepTheirContract ==
    /\ done.kind = "mods" => KeepsContract(done.in, done.out)
    /\ done.kind = "artifact" => ScoresNothing(done.in, done.out)

\* load_manifest reads a file line by line; what it accepts is exactly what declares a
\* whole manifest, so that no misplaced line weakens what a mod is forbidden.
ManifestFailsClosed == done.kind = "manifest" => (done.out <=> Declares(done.in))

\* deliver_poll: a row that is not what its connector expects costs itself, never the
\* batch, whichever of its fields are missing, empty or of another type; but for a field
\* that is handed on as it came, or identifies the evidence and is sensitive, or is
\* white space taken for text, any of which refuses the batch, and for a result that
\* fails a SARIF report, good results and all (BadRowsDropOnlyThemselves).
RowsFailAlone == done.kind = "rows" => FailsAlone(done.in, done.out)

\* What the harness says of the last checkpoint: only a receipt of a real sink proves
\* it, and a sink that only collects does not (ingest_conformance_harness.py).
OnlyReceiptsProve ==
    done.kind = "grade" /\ done.out.gateway_state = "delivered" => done.in[2] = "gateway"

\* What deliver_poll says of a row, and parse_sarif of a result in a report, with fields that
\* are missing, null or of another type: it drops only itself, and does not abort the batch.
BadRowsDropOnlyThemselves ==
    done.kind = "rows" /\ (\A f \in DOMAIN done.in.row : done.in.row[f] \notin {"hit", "spaces"}) =>
        /\ done.out.emitted # <<>>
        /\ Head(done.out.emitted) = Row!Parse(done.in.c, Whole(done.in.c))
==============================================================================
