-------------------------------- MODULE Mods --------------------------------
(***************************************************************************)
(* The advisory mods (src/mods): the manifest loader, the runner that      *)
(* enforces a manifest (run_mod), and what the eighteen bundled mods make  *)
(* of an emission.                                                         *)
(*                                                                         *)
(* A mod is given a reading: an emission with the facts the mods look for, *)
(* the name of its source, the kind of its evidence and the vocabularies   *)
(* its text has words of ("says").  What a mod writes is a set of          *)
(* artifacts; their order and their wording are left out but for the texts *)
(* of the emission that they echo and the numbers in their metadata.       *)
(***************************************************************************)
EXTENDS EmissionPipeline

------------------------------------------------------------------------------
(* load_manifest: lines are blank, bad in some way, an item of a list, or a    *)
(* key with what follows it on the line.                                       *)

ScalarKeys == {"id", "version", "name"}
ListKeys == {"outputs", "forbidden_actions"}

\* What has been read: the scalar keys, those of them with a value, the list keys, the
\* list that is being filled, and the number of actions that are forbidden.
Unread == [failed |-> FALSE, scalars |-> {}, filled |-> {}, lists |-> {}, current |-> "none", forbidden |-> 0]

\* (Mutant) A scalar does not end the list before it.
ReadLineIntoList(state, line) ==
    IF line.kind = "blank" THEN state
    ELSE IF line.kind = "item" /\ state.current # "none"
    THEN [state EXCEPT !.forbidden = IF state.current = "forbidden_actions" THEN @ + 1 ELSE @]
    ELSE IF line.kind = "key" /\ line.key \in ScalarKeys \ state.scalars
    THEN [state EXCEPT !.scalars = @ \cup {line.key},
                       !.filled = IF line.value = "nothing" THEN @ ELSE @ \cup {line.key}]
    ELSE IF line.kind = "key" /\ line.key \in ListKeys \ state.lists /\ line.value = "nothing"
    THEN [state EXCEPT !.lists = @ \cup {line.key}, !.current = line.key]
    ELSE [state EXCEPT !.failed = TRUE]

\* A line that is bad, out of place, of no known key or of one that was there already
\* fails the file; an empty scalar is missed by _build, in the end.
ReadLine(state, line) ==
    IF line.kind = "blank" THEN state
    ELSE IF line.kind = "item" /\ state.current # "none"
    THEN [state EXCEPT !.forbidden = IF state.current = "forbidden_actions" THEN @ + 1 ELSE @]
    ELSE IF line.kind = "key" /\ line.key \in ScalarKeys \ state.scalars
    THEN [state EXCEPT !.scalars = @ \cup {line.key},
                       !.filled = IF line.value = "nothing" THEN @ ELSE @ \cup {line.key},
                       !.current = "none"]
    ELSE IF line.kind = "key" /\ line.key \in ListKeys \ state.lists /\ line.value = "nothing"
    THEN [state EXCEPT !.lists = @ \cup {line.key}, !.current = line.key]
    ELSE [state EXCEPT !.failed = TRUE]

\* _build: is there a manifest in what was read?
Builds(state) ==
    ~state.failed /\ state.filled = ScalarKeys /\ state.lists = ListKeys /\ state.forbidden > 0

------------------------------------------------------------------------------
(* run_mod *)

KnownOutputs ==
    { "source_evidence_annotation", "dependency_signal", "advisory_governance_result",
      "owner_lens_hint", "suggested_review_question", "routing_hint" }

\* validate_manifest: code and manifest agree, on known outputs, and the manifest
\* forbids all that an advisory mod must not do.
ManifestRefused(manifest, mod) ==
    \/ manifest.id # mod.id \/ manifest.outputs # mod.outputs
    \/ ~manifest.outputs \subseteq KnownOutputs
    \/ ~manifest.forbids

\* The walk goes from dictionary to dictionary, and through a list to the dictionaries
\* in it, but not through a list in a list.
Walked(path) == \A i \in 1..(Len(path) - 1) : ~(path[i] = "item" /\ path[i + 1] = "item")

\* A number is a score if a key above it says so.
OpaqueScores(artifact) ==
    {path \in artifact.numbers : Walked(path) /\ "score" \in Range(path)}

\* The whole run fails with one artifact that is refused.
RunMod(mod, manifest, readings, artifacts) ==
    IF \E i \in DOMAIN readings : Violation(readings[i].emission) # "" THEN "input_refused"
    ELSE IF ManifestRefused(manifest, mod) THEN "manifest_refused"
    ELSE IF \E a \in artifacts : a.type \notin mod.outputs THEN "undeclared_output"
    ELSE IF \E a \in artifacts : OpaqueScores(a) # {} THEN "opaque_score"
    ELSE IF \E a \in artifacts : \E t \in a.echoes : DetectSensitive(t) # {} THEN "sensitive_output"
    ELSE "ok"

------------------------------------------------------------------------------
(* The bundled mods *)

Advice(type, r) ==
    [ type |-> type, role |-> "", priority |-> "", numbers |-> {},
      echoes |-> {r.emission.source_id} ]

Annotation(r) == Advice("source_evidence_annotation", r)
Result(r) == Advice("advisory_governance_result", r)
Question(r) == Advice("suggested_review_question", r)

Route(role, priority, r) ==
    [Advice("routing_hint", r) EXCEPT !.role = role, !.priority = priority]

When(c, artifacts) == IF c THEN artifacts ELSE {}

IsChange(r) == r.kind \in {"pull_request", "issue", "merge_request"}

EvidenceOf(r) == Range(r.emission.evidence)

NoisySourceGate(r) ==
    When(r.source \in {"slack", "granola", "fathom"}, {Route("reviewer", "low", r), Result(r)})

SecurityMentions(r) ==
    When("security keyword" \in r.says,
         {Result(r), Route("security", "normal", r), Annotation(r)})

NotificationScopeRisk(r) ==
    When("broadcast" \in r.says, {Result(r), Route("security", "normal", r), Question(r)})

AuthorityBoundary(r) ==
    When(IsChange(r) /\ "authority" \in r.says,
         {Annotation(r), Result(r), Route("governance", "high", r), Question(r)})

\* Kinds a person can be named for; one without an author is weak evidence.
Attributable ==
    { "pull_request", "merge_request", "issue", "message", "page", "comment", "meeting",
      "commit", "ticket", "document", "transcript", "session", "incident", "finding" }

SourceTrustCalibration(r) ==
    When(\/ r.source = "mcp_registry" \/ r.emission.emission_type \in {"hint", "advisory"}
         \/ r.kind = "" \/ (r.kind \in Attributable /\ r.emission.author = <<>>),
         {Annotation(r), Result(r), Route("review", "normal", r)})

AiAuthorshipReview(r) ==
    When(/\ r.source \in {"aider", "cursor", "copilot", "claude_code", "continue_dev", "devin"}
         /\ "unfinished" \in r.says,
         {Result(r), Route("qa", "normal", r), Question(r)})

\* A vulnerability's signals echo its reference and its metadata; the mention of a
\* manifest file is too weak to route anybody.
DependencyRisk(r) ==
    LET echoing(a) == [a EXCEPT !.echoes = {ev.identity["ref"] : ev \in EvidenceOf(r)}
                            \cup {l.text : l \in {m \in r.emission.metadata : m.kind = "text"}}]
        priority == IF "catalogued" \in r.says THEN "high" ELSE "normal"
    IN IF r.kind = "vulnerability"
       THEN { echoing(Advice("dependency_signal", r)), echoing(Route("security", priority, r)),
              echoing(Annotation(r)) }
       ELSE When("dependency file" \in r.says, {Advice("dependency_signal", r), Annotation(r)})

ConnectorFreshness(r) ==
    IF "breaking change" \in r.says
    THEN {Annotation(r), Result(r), Route("connectors", "normal", r)}
    ELSE When("api version" \in r.says, {Annotation(r)})

\* Evidence one cannot go back to is routed, evidence one cannot read is not.
AdapterContract(r) ==
    LET lost == \/ EvidenceOf(r) = {}
                \/ \E ev \in EvidenceOf(r) : Or(ev.identity["ref"], ev.identity["url"]) = <<>>
        blank == \E ev \in EvidenceOf(r) : ev.excerpt = <<>>
    IN When(lost \/ blank, {Annotation(r), Result(r)})
           \cup When(lost, {Route("connectors", "normal", r)})

Placeholders == {"[secret]", "[phi]", "[pan]", "[email]", "[phone]"}

\* (Mutant) The title is not read.
DataClassificationOfBody(r) ==
    When("confidential" \in r.says \/ Range(r.emission.body) \cap Placeholders # {},
         {Annotation(r), Route("restricted-review", "normal", r), Result(r)})

\* What the redactor left behind says that the text around it is sensitive too.
DataClassification(r) ==
    When(\/ "confidential" \in r.says
         \/ (Range(r.emission.title) \cup Range(r.emission.body)) \cap Placeholders # {},
         {Annotation(r), Route("restricted-review", "normal", r), Result(r)})

CrossSystemReference(r) ==
    When(r.systems \ {r.source} # {},
         {Annotation(r), Question(r), Route("integrations", "normal", r)})

OwnershipRouting(r) ==
    LET domains == r.owners \cap {"security", "connectors", "governance", "ci", "docs"}
    IN When(IsChange(r) /\ domains # {},
            {Annotation(r), Advice("owner_lens_hint", r)}
                \cup {Route(domain, "normal", r) : domain \in domains})

PolicyExemptionAudit(r) ==
    When("exemption" \in r.says, {Result(r), Route("policy", "high", r), Question(r)})

WebhookRisk(r) ==
    When("webhook" \in r.says, {Annotation(r)}
        \cup When("webhook risk" \in r.says, {Result(r), Route("security", "high", r)}))

ComplianceRouting(r) ==
    When("framework" \in r.says, {Result(r), Route("compliance", "high", r), Question(r)})

CodeReviewRisk(r) ==
    When(IsChange(r) /\ "risky area" \in r.says,
         {Annotation(r), Result(r), Route("review", "high", r), Question(r)})

DecisionDrift(r) ==
    When({"decision", "conflict"} \subseteq r.says,
         {Annotation(r), Result(r), Route("governance", "normal", r), Question(r)})

TestAdequacy(r) ==
    When(IsChange(r) /\ "behavior" \in r.says /\ "test" \notin r.says,
         {Annotation(r), Result(r), Route("review", "normal", r), Question(r)})

\* _MODS: each mod with what it says of one emission; evaluate goes through them all.
Bundled(r) ==
    [ dependency_risk |-> DependencyRisk(r),         data_classification |-> DataClassification(r),
      noisy_source_gate |-> NoisySourceGate(r),      security_mentions |-> SecurityMentions(r),
      adapter_contract |-> AdapterContract(r),       source_trust_calibration |-> SourceTrustCalibration(r),
      webhook_risk |-> WebhookRisk(r),               connector_freshness |-> ConnectorFreshness(r),
      code_review_risk |-> CodeReviewRisk(r),        authority_boundary |-> AuthorityBoundary(r),
      test_adequacy |-> TestAdequacy(r),             ownership_routing |-> OwnershipRouting(r),
      decision_drift |-> DecisionDrift(r),           cross_system_reference |-> CrossSystemReference(r),
      ai_authorship_review |-> AiAuthorshipReview(r), policy_exemption_audit |-> PolicyExemptionAudit(r),
      compliance_routing |-> ComplianceRouting(r),   notification_scope_risk |-> NotificationScopeRisk(r) ]

\* The outputs that code and manifest.yaml of each mod declare, beyond the routing
\* hint that all of them do.
Outputs ==
    LET A == "source_evidence_annotation"   R == "advisory_governance_result"
        Q == "suggested_review_question" IN
    [ dependency_risk |-> {"dependency_signal", A}, data_classification |-> {R, A},
      noisy_source_gate |-> {R},                    security_mentions |-> {R, A},
      adapter_contract |-> {R, A},                  source_trust_calibration |-> {R, A},
      webhook_risk |-> {R, A},                      connector_freshness |-> {R, A},
      code_review_risk |-> {R, A, Q},               authority_boundary |-> {R, A, Q},
      test_adequacy |-> {R, A, Q},                  ownership_routing |-> {"owner_lens_hint", A},
      decision_drift |-> {R, A, Q},                 cross_system_reference |-> {A, Q},
      ai_authorship_review |-> {R, Q},              policy_exemption_audit |-> {R, Q},
      compliance_routing |-> {R, Q},                notification_scope_risk |-> {R, Q} ]

DeclaredBy(id) == [id |-> id, outputs |-> Outputs[id] \cup {"routing_hint"}, forbids |-> TRUE]

\* run_mods, for one of the bundled mods.
RunBundled(id, readings) ==
    RunMod(DeclaredBy(id), DeclaredBy(id), readings,
           UNION {Bundled(readings[i])[id] : i \in DOMAIN readings})
==============================================================================
