---------------------------- MODULE MCEmissionCases ----------------------------
(***************************************************************************)
(* Texts, observations, signals, traces and conformance entries to run     *)
(* the emission side of the system on, and what must come of them.         *)
(***************************************************************************)
EXTENDS TransformationTrace, ConformanceHarness

------------------------------------------------------------------------------
(* Texts *)

\* All texts up to three tokens, and those of four in which labels, numbers and
\* what they label can meet twice.
Texts ==
    (UNION {[1..n -> Tokens] : n \in 0..3})
        \cup [1..4 -> {"phi:", "phone", "card", "secret", "tel:", "digits", "id:"}]

\* What has no place in a text that leaves the process.
Personal == {"email", "phone", "+phone"}

Clean(text) == DetectSensitive(text) = {} /\ Range(text) \cap Personal = {}

\* A number in groups loses its first group only, when a label takes that for its
\* value; a private key its first line only.  Those are the two residues a redacted
\* text may have, and each position it may have them at is known.
Residue(text, i) ==
    \/ text[i] = "phone" /\ Before(text, i) = "phi:"
    \/ text[i] = "pem"

\* What a token that is neither taken for a value nor sensitive becomes is itself.
Survives(text, i) == text[i] \in Words /\ Before(text, i) # "phi:"

\* A redacted text has nothing left that the catalog or the patterns for personal
\* data know, no cut key or card, no cut telephone but after a label, and all the
\* other words; and nothing was found if and only if nothing was changed.
RedactsTo(text, redacted) ==
    /\ Clean(redacted)
    /\ Range(redacted) \cap {"secret/cut", "card/cut"} = {}
    /\ \A i \in DOMAIN text :
        /\ redacted[i] \in {"phone/cut", "pem/body"} => Residue(text, i)
        /\ Survives(text, i) => redacted[i] = text[i]
    /\ Findings(text) = NoFindings <=> redacted = text

------------------------------------------------------------------------------
(* Observations *)

NoSignals == [shape |-> "missing", items |-> <<>>]

BaseObs ==
    [ identity |-> [f \in IdentityFields |-> <<"word">>], excerpt |-> <<"word", "digits">>,
      title |-> <<"word">>, author |-> <<"word">>, metadata |-> {}, markers |-> {},
      signals |-> NoSignals, mode |-> "webhook", oversized |-> FALSE, untyped |-> {} ]

SomeTexts ==
    { <<>>, <<"digits">>, <<"secret">>, <<"phone">>, <<"word", "email">>, <<"tel:", "digits">>,
      <<"id:", "card">>, <<"card13">>, <<"phi:", "word">>, <<"word", "secret">> }

Leaf(key, kind, text) == [key |-> key, kind |-> kind, text |-> text]

Leaves ==
    [ key : {<<"word">>, <<"secret">>, <<"phone">>}, kind : {"text"},
      text : {<<"word">>, <<"card">>, <<"phone">>, <<"word", "secret">>} ]
        \cup [ key : {<<"word">>, <<"digits">>}, kind : {"number", "bytes", "object", "set"},
               text : {<<"digits">>, <<"card">>, <<"phone">>} ]

WithIdentity(f, text) == [BaseObs EXCEPT !.identity[f] = text]

\* One thing of an observation changed.
Observations ==
    {WithIdentity(f, t) : f \in {"source_id", "ref", "url", "provider_event_id"}, t \in SomeTexts}
        \cup {[BaseObs EXCEPT ![f] = t] : f \in FreeTexts, t \in SomeTexts}
        \cup {[BaseObs EXCEPT !.metadata = {l}] : l \in Leaves}
        \cup {[BaseObs EXCEPT !.mode = m] : m \in DOMAIN DeliveryMode}
        \cup { [BaseObs EXCEPT !.oversized = TRUE], [BaseObs EXCEPT !.untyped = {"title"}],
               [BaseObs EXCEPT !.identity["url"] = <<>>, !.identity["ref"] = <<"phone">>],
               [BaseObs EXCEPT !.title = <<>>, !.author = <<"email">>],
               [BaseObs EXCEPT !.metadata = {Leaf(<<"word">>, "text", <<"secret">>),
                                             Leaf(<<"word">>, "set", <<"digits">>)}] }

\* What may stand before or after another observation in its batch.
Neighbours ==
    { BaseObs, WithIdentity("ref", <<"phone">>), WithIdentity("url", <<"secret">>),
      [BaseObs EXCEPT !.excerpt = <<>>], [BaseObs EXCEPT !.author = <<"email">>],
      [BaseObs EXCEPT !.untyped = {"title"}] }

BatchInputs ==
    {<<obs>> : obs \in Observations}
        \cup {<<obs, other>> : obs \in Observations, other \in Neighbours}
        \cup {<<other, obs>> : obs \in Observations, other \in Neighbours}

\* What may be redacted and what may not be touched: an observation that is fit to
\* leave has sensitive texts in the places that are redacted only.
Fit(obs) ==
    /\ ~obs.oversized /\ obs.untyped = {} /\ obs.excerpt # <<>>
    /\ SourceIdValid(obs.identity["source_id"])
    /\ \A f \in IdentityFields : DetectSensitive(obs.identity[f]) = {}
    /\ \A l \in obs.metadata :
        /\ l.kind = "text" \/ (l.kind = "number" /\ DetectSensitive(l.text) = {})
        /\ Redact(l.key) = l.key

\* The emission e of an observation has its identity unchanged, and nothing that is
\* sensitive is in it, in what is sent of it or in what is exported of it.
LeavesClean(obs, e) ==
    /\ \A f \in EvidenceFields : e.evidence[1].identity[f] = obs.identity[f]
    /\ \A t \in EnvelopeTexts(Envelope(e)) : Clean(t)
    /\ \A t \in {e.title, e.body, e.author} \cup {l.text : l \in {m \in e.metadata : m.kind = "text"}} :
        Clean(t)
    /\ SdkEvidence(e).ok /\ SdkEvidence(e).status = "raw"

PassesFit(batch, result) ==
    /\ result.ok <=> \A i \in DOMAIN batch : Fit(batch[i])
    /\ result.ok => /\ Len(result.emissions) = Len(batch)
                    /\ \A i \in DOMAIN batch : LeavesClean(batch[i], result.emissions[i])
    /\ ~result.ok => result.emissions = <<>> /\ result.reason # ""

------------------------------------------------------------------------------
(* Signals and advisories *)

Signals ==
    [ object : BOOLEAN, code : {"", "bot_authored", "provider_code"},
      scope : Scopes \cup {"", "bogus"}, confidence : {"", "high", "bogus"},
      effect : {"", "route", "bogus"}, version : {SchemaVersion, SchemaVersion + 1} ]

Plain == [ object |-> TRUE, code |-> "provider_code", scope |-> "", confidence |-> "",
           effect |-> "", version |-> SchemaVersion ]

SomeSignals ==
    { Plain, [Plain EXCEPT !.object = FALSE], [Plain EXCEPT !.code = ""],
      [Plain EXCEPT !.code = "bot_authored"], [Plain EXCEPT !.scope = "universal"],
      [Plain EXCEPT !.scope = "bogus"],
      [Plain EXCEPT !.code = "bot_authored", !.effect = "bogus"],
      [Plain EXCEPT !.code = "stale_source", !.scope = "universal"] }

SignalLists ==
    {[shape |-> "list", items |-> <<s>>] : s \in Signals}
        \cup {[shape |-> "list", items |-> <<s, t>>] : s \in SomeSignals, t \in SomeSignals}
        \cup {NoSignals, [shape |-> "scalar", items |-> <<>>], [shape |-> "list", items |-> <<>>]}

\* Observations with something in them that the universal rules know, or nothing.
Noticed ==
    { BaseObs, [BaseObs EXCEPT !.author = <<"word", "bot">>, !.excerpt = <<"status">>],
      [BaseObs EXCEPT !.markers = {"bot_actor", "stale_source"}, !.excerpt = <<"word", "template">>],
      [BaseObs EXCEPT !.author = <<"renovate">>,
                      !.markers = {"duplicate_delivery", "generated_sync_event", "low_trust"}] }

Advised ==
    {EmissionFrom([obs EXCEPT !.signals = signals]) : obs \in Noticed, signals \in SignalLists}

WellFormed(s) ==
    /\ s.object /\ s.code # "" /\ s.version = SchemaVersion
    /\ "bogus" \notin {s.scope, s.confidence, s.effect}

Has(advisories, code) == \E a \in Range(advisories) : a.code = code

\* Whatever the signals are, nothing of the emission changes but its advisories; a
\* signal that can be used is there, one that cannot is reported; a universal rule
\* that holds is never silenced by a signal nobody could use; nothing is there
\* without a cause, and nothing twice.
FailsOpen(before, after) ==
    LET items == Range(before.signals.items)
        good == {s \in items : WellFormed(s)}
        holding == {rule[1] : rule \in {r \in Range(UniversalRules(before)) : r[2]}}
        unusable == before.signals.shape = "scalar" \/ good # items
    IN /\ [after EXCEPT !.advisories = before.advisories] = before
       /\ \A s \in good : \E a \in Range(after.advisories) :
            a.code = s.code /\ (s.scope # "" => a.scope = s.scope)
       /\ \A code \in holding : Has(after.advisories, code)
       /\ Has(after.advisories, "heuristic_schema_error") <=> unusable
       /\ \A a \in Range(after.advisories) :
            a.code \in {s.code : s \in good} \cup holding \cup {"heuristic_schema_error"}
       /\ \A i, j \in DOMAIN after.advisories : i # j =>
            <<after.advisories[i].code, after.advisories[i].scope>> #
                <<after.advisories[j].code, after.advisories[j].scope>>

------------------------------------------------------------------------------
(* Traces *)

Traced ==
    { BaseObs, [BaseObs EXCEPT !.author = <<"word", "bot">>],
      [BaseObs EXCEPT !.signals = [shape |-> "list", items |-> <<Plain>>]],
      [BaseObs EXCEPT !.signals = [shape |-> "list", items |-> <<Plain, [Plain EXCEPT !.code = ""]>>],
                      !.markers = {"stale_source"}],
      [BaseObs EXCEPT !.excerpt = <<"phone">>], [BaseObs EXCEPT !.title = <<"email">>] }

Captures == {Absent, <<>>, <<"payload">>}

Deliveries ==
    {Absent, <<>>, <<"201", "advance">>, <<"403", "advance">>, <<"503", "retry">>}

Contexts ==
    [trace : {"ours"}, revision : {"full sha", "short"}, attempt : {0, 1}, fingerprints : BOOLEAN]

TraceInputs == [obs : Traced, capture : Captures, delivery : Deliveries, context : Contexts]

Without(s, i) == SubSeq(s, 1, i - 1) \o SubSeq(s, i + 1, Len(s))
Swapped(s, i, j) == [s EXCEPT ![i] = s[j], ![j] = s[i]]

\* What the validator catches of a change to records that were valid, and what it
\* does not: the chain has no anchor at either end, and a record that turned its
\* state into itself can be left out.
Catches(set) ==
    LET rs == set.records
        Caught(changed) == ~TraceSetValid([set EXCEPT !.records = changed])
        Other == <<"tampered">>
        Redigested == [data |-> Other, digest |-> Other]
    IN /\ \A i \in DOMAIN rs :
            /\ Caught([rs EXCEPT ![i].output.data = Other])
            /\ Caught([rs EXCEPT ![i].input.data = Other])
            /\ Caught([rs EXCEPT ![i].output = Redigested]) <=> i < Len(rs)
            /\ Caught([rs EXCEPT ![i].input = Redigested]) <=> i > 1
            /\ Caught(Without(rs, i)) <=>
                    i \in 2..(Len(rs) - 1) /\ rs[i].input # rs[i].output
            /\ Caught([rs EXCEPT ![i].trace = "theirs"])
            /\ Caught([rs EXCEPT ![i].canonical = TRUE])
            /\ Caught(Append(rs, rs[i]))
       /\ \A i, j \in DOMAIN rs : i < j => Caught(Swapped(rs, i, j))

\* Two phases and no other evaluate advisories, and between them all there are.
ToldApart(records, advisories) ==
    \E i, j \in DOMAIN records :
        LET provider == records[i].advisories
            universal == records[j].advisories
        IN /\ records[i].phase = "PHASE-05-PROVIDER-ADVISORIES"
           /\ records[j].phase = "PHASE-07-UNIVERSAL-ADVISORIES"
           /\ \A k \in DOMAIN records \ {i, j} : records[k].advisories = <<>>
           /\ Range(provider) \cup Range(universal) = Range(advisories)
           /\ Len(provider) + Len(universal) = Len(advisories)

\* What is projected of a trace is valid, and so is no change to it but the ones
\* above; its provider's and its universal phases tell apart all the advisories of
\* the emission; and a cursor that moved was told to, accepted or not.
Evidences(in, out) ==
    out.ok => LET t == out.traces[1] IN
        Projectable(t, in.context) =>
            LET set == Project(t, in.context)
                last == set.records[Len(set.records)]
            IN /\ TraceSetValid(set) /\ Catches(set)
               /\ ToldApart(set.records, t.emission.advisories)
               /\ PhaseTraceValid(t, {"provider_capture", "delivery_state"}) =>
                    DOMAIN PhaseContracts = {r.phase : r \in Range(set.records)}
               /\ last.persistence = "update" <=> in.delivery \in {<<"201", "advance">>, <<"403", "advance">>}
               /\ last.phase = "PHASE-08-GATEWAY-DELIVERY" =>
                    (last.status = "completed" <=> in.delivery = <<"201", "advance">>)

------------------------------------------------------------------------------
(* Conformance entries *)

GoodReceipt == [present |-> TRUE, complete |-> TRUE, over |-> "original_bytes",
                result |-> "verified", digest |-> TRUE]

Receipts ==
    { GoodReceipt, [GoodReceipt EXCEPT !.present = FALSE], [GoodReceipt EXCEPT !.complete = FALSE],
      [GoodReceipt EXCEPT !.over = "sanitized"], [GoodReceipt EXCEPT !.result = "not_applicable"],
      [GoodReceipt EXCEPT !.result = "failed"], [GoodReceipt EXCEPT !.digest = FALSE] }

Sounds == {"replay", "timestamp", "parses", "no errors", "nodes", "inside root", "asked document"}

\* What may become of a recording between two runs: facts, identifiers and signals
\* drift, or the redactor refuses what it let pass.
Drifts ==
    { BaseObs, WithIdentity("evidence_id", <<"digits">>),
      WithIdentity("provider_resource_id", <<"digits">>), WithIdentity("timestamp", <<"digits">>),
      WithIdentity("url", <<"secret">>), [BaseObs EXCEPT !.excerpt = <<>>],
      [BaseObs EXCEPT !.excerpt = <<"email">>], [BaseObs EXCEPT !.excerpt = <<"phone">>],
      [BaseObs EXCEPT !.metadata = {Leaf(<<"word">>, "number", <<"digits">>)}],
      [BaseObs EXCEPT !.markers = {"stale_source"}], [BaseObs EXCEPT !.mode = "active"],
      [BaseObs EXCEPT !.signals = [shape |-> "list", items |-> <<Plain>>]] }

Recording(connector, receipt, sound, observation, committed) ==
    [ connector |-> connector[1], mode |-> connector[2], implemented |-> TRUE,
      recorded |-> TRUE, receipt |-> receipt, sound |-> sound, observation |-> observation,
      golden |-> [observation |-> committed, receipt |-> receipt], expected |-> {} ]

\* Goldens are committed of observations that pass.
Committed == {obs \in Drifts : Fit(obs)}

Connectors == DOMAIN Acquirers \cup {<<"github", "graphql_poll">>}

Base == Recording(<<"github", "webhook">>, GoodReceipt, Sounds, BaseObs, BaseObs)

\* With all of what makes a recording sound, or one of it lacking.
Soundness == {Sounds} \cup {Sounds \ {lacking} : lacking \in Sounds}

Acquired(c, receipt, sound) == Recording(c, receipt, sound, BaseObs, BaseObs)
Drifted(obs, committed) == Recording(<<"github", "webhook">>, GoodReceipt, Sounds, obs, committed)
Received(receipt) == [Base EXCEPT !.receipt = receipt]
Unrecorded == {[Base EXCEPT !.implemented = FALSE], [Base EXCEPT !.recorded = FALSE]}

Recordings ==
    {Acquired(c, receipt, sound) : c \in Connectors, receipt \in Receipts, sound \in Soundness}
        \cup {Drifted(obs, committed) : obs \in Drifts, committed \in Committed}
        \cup {Received(receipt) : receipt \in Receipts} \cup Unrecorded

\* An entry is a recording with the artifacts committed for it.
Entries == {[r EXCEPT !.expected = Artifacts(r.golden)] : r \in Recordings}

\* A receipt shows that the original bytes were received whole, and that the provider
\* vouched for them unless they were lying in a directory.
Genuine(entry) ==
    /\ entry.receipt.present /\ entry.receipt.complete /\ entry.receipt.digest
    /\ entry.receipt.over = "original_bytes"
    /\ entry.receipt.result = "verified" \/
            (entry.receipt.result = "not_applicable" /\ entry.mode = "passive_import")
    /\ "parses" \in entry.sound
    /\ entry.mode = "webhook" => "replay" \in entry.sound

\* What comes out is what was committed, to the last identifier.
Conforms(entry) ==
    /\ entry.receipt = entry.expected.acquisition_verification
    /\ ObservationPayload(entry.observation) = entry.expected.redaction_receipt.input_digest

\* A component passes only if the real receiver acquired its recording and all of it
\* comes out as committed, and then it does pass; nothing is delivered that has not
\* passed, and a report that is not a delivery has one reason why.  Whether a sink that
\* only collects proves a delivery is left open: the harness and its documentation differ.
Grades(entry, sink, report) ==
    LET passes == report.component_passed \/ report.raised IN
    /\ passes => Genuine(entry) /\ Conforms(entry) /\ entry.implemented /\ entry.recorded
    /\ entry.implemented /\ entry.recorded /\ Acquires(entry) /\ Conforms(entry) => passes
    /\ report.raised <=> passes /\ sink = "raises"
    /\ report.sent => passes /\ sink \in {"gateway", "collecting"}
    /\ passes /\ sink = "gateway" => report.sent
    /\ report.reason_code # "" <=> ~report.sent /\ ~report.raised
    /\ report.failed_stage # "" => ~passes /\ report.gateway_state = "unproven"
    /\ report.failed_stage \notin Range(report.stages_passed)
==============================================================================
