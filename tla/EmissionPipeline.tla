-------------------------- MODULE EmissionPipeline --------------------------
(***************************************************************************)
(* From observations to what leaves the process: normalize                 *)
(* (adapter/core/pipeline.py) sanitizes a batch, builds emissions, attaches *)
(* advisories and validates the whole; gateway_mapping.py makes an envelope *)
(* of an emission and sdk_evidence.py makes evidence of it.                *)
(***************************************************************************)
EXTENDS Redaction, Heuristics

EmissionTypes == {"candidate", "evidence", "hint", "advisory"}

DeliveryMode == [webhook |-> "webhook", active |-> "poll",
                 passive |-> "active-fetch", discovery |-> "poll"]

\* The text if there is one, or else the other.
Or(text, other) == IF text = <<>> THEN other ELSE text

\* The redactor is asked again here, with the patterns for telephones that
\* _preserve_identity keeps away from identifiers: two opaque identifiers that
\* look like telephones are one identifier from here on.
ProvenanceFrom(obs) ==
    [ delivery_mode |-> DeliveryMode[obs.mode],
      verification  |-> IF obs.mode = "webhook" THEN "signed" ELSE "unsigned",
      provider_event_id    |-> Redact(obs.identity["provider_event_id"]),
      provider_resource_id |-> Redact(Or(obs.identity["provider_resource_id"],
                                         obs.identity["ref"])) ]

EvidenceFields == IdentityFields \ {"provider_event_id", "provider_resource_id"}

\* _emission_from: one emission with one piece of evidence, without a receipt yet.
EmissionFrom(obs) ==
    [ source_id |-> obs.identity["source_id"], title |-> obs.title,
      body |-> obs.excerpt, emission_type |-> "evidence", adapter_version |-> TRUE,
      evidence |-> <<[identity |-> Restrict(obs.identity, EvidenceFields),
                      excerpt |-> obs.excerpt, author |-> obs.author]>>,
      provenance |-> ProvenanceFrom(obs), metadata |-> obs.metadata,
      author |-> obs.author, markers |-> obs.markers, signals |-> obs.signals,
      advisories |-> <<>>, receipt |-> <<>> ]

------------------------------------------------------------------------------
(* validate_emissions *)

AdvisoryText(a) == <<a.code, a.scope, a.basis>>

\* The texts _screen_sensitive looks at: the emission's, its evidence's, its
\* provenance's, the leaves of its metadata with their keys, and its advisories'.
\* A number is looked at as it prints, which the sanitizer does not do.
ScreenedTexts(e) ==
    {e.title, e.body, e.source_id, e.provenance.provider_event_id,
     e.provenance.provider_resource_id}
        \cup (UNION {{ev.excerpt, ev.author} \cup {ev.identity[f] : f \in DOMAIN ev.identity}
                        : ev \in Range(e.evidence)})
        \cup {l.key : l \in e.metadata}
        \cup {l.text : l \in {m \in e.metadata : m.kind \in {"text", "number"}}}
        \cup {AdvisoryText(a) : a \in Range(e.advisories)}

\* A source id is one run of [A-Za-z0-9._-].
SourceIdValid(text) == Len(text) = 1 /\ text[1] \in Words \cup Cards \cup {"digits", "secret"}

\* What the contract finds wrong with an emission, or "".
Violation(e) ==
    IF ~SourceIdValid(e.source_id) THEN "source_id_invalid"
    ELSE IF e.evidence = <<>> THEN "evidence_required"
    ELSE IF \E ev \in Range(e.evidence) : ev.excerpt = <<>> THEN "evidence_excerpt_blank"
    ELSE IF ~e.adapter_version THEN "adapter_version_required"
    ELSE IF e.emission_type \notin EmissionTypes THEN "emission_type_invalid"
    ELSE IF \E t \in ScreenedTexts(e) : DetectSensitive(t) # {} THEN "sensitive_data"
    ELSE ""

Failed(reason) == [ok |-> FALSE, reason |-> reason, emissions |-> <<>>]

FirstOf(reasons) ==
    LET given == {i \in DOMAIN reasons : reasons[i] # ""}
    IN IF given = {} THEN "" ELSE reasons[Nth(given, 1)]

\* validate_emissions: one violation fails the batch.
Validated(emissions, violation) ==
    IF violation # "" THEN Failed(violation)
    ELSE [ok |-> TRUE, reason |-> "", emissions |-> emissions]

Validate(emissions) == Validated(emissions, FirstOf(Map(emissions, Violation)))

\* An observation sanitized, made an emission with its receipt, and advised of.
Built(obs) == EvaluateFailOpen([EmissionFrom(Sanitized(obs)) EXCEPT !.receipt = Receipt(obs)])

\* normalize: one refusal fails the batch.  All of it is sanitized before any of it
\* is validated.
Normalize(batch) ==
    LET refusal == FirstOf(Map(batch, Refusal)) IN
    IF refusal # "" THEN Failed(refusal) ELSE Validate(Map(batch, Built))

------------------------------------------------------------------------------
(* What is made of an emission *)

\* emission_to_external_envelope: content falls back to the title and the title to
\* the excerpt; source facts and labels cross, authority does not.
SourceUri(e) == Or(Redact(e.evidence[1].identity["url"]),
                   e.source_id \o Redact(e.evidence[1].identity["ref"]))

\* _hint_labels, a text in each; the provider's identifiers are redacted again.
HintLabels(e) ==
    {<<"emission_type", <<e.emission_type>>>>, <<"delivery", <<e.provenance.delivery_mode>>>>,
     <<"verification", <<e.provenance.verification>>>>,
     <<"redaction_ruleset", <<e.receipt.ruleset_id>>>>,
     <<"provider_event_id", Redact(e.provenance.provider_event_id)>>,
     <<"provider_resource_id", Redact(e.provenance.provider_resource_id)>>}
        \cup {<<"advisory", AdvisoryText(a)>> : a \in Range(e.advisories)}

Envelope(e) ==
    [ source_system |-> e.source_id, source_uri |-> SourceUri(e),
      content |-> Or(Or(e.body, e.title), e.source_id),
      title |-> Or(Or(e.title, e.body), e.source_id),
      excerpts |-> Map(e.evidence, LAMBDA ev : ev.excerpt),
      labels |-> HintLabels(e), redaction_receipt |-> e.receipt ]

EnvelopeTexts(env) ==
    {env.source_system, env.source_uri, env.content, env.title}
        \cup Range(env.excerpts) \cup {label[2] : label \in env.labels}

\* emission_to_sdk_evidence screens the excerpt and the source reference once more,
\* and whatever it exports is raw and captured by the connector.
SdkEvidence(e) ==
    LET ev == e.evidence[1] IN
    IF \E t \in {ev.excerpt} \cup {ev.identity[f] : f \in {"source_id", "ref", "url", "kind"}} :
            DetectSensitive(t) # {}
    THEN [ok |-> FALSE]
    ELSE [ ok |-> TRUE, id |-> Or(ev.identity["evidence_id"], ev.identity["ref"]),
           status |-> "raw", captured_by |-> "connector", excerpt |-> ev.excerpt ]
==============================================================================
