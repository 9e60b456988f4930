------------------------- MODULE ConformanceHarness -------------------------
(***************************************************************************)
(* run_entry of runtime/ingest_conformance_harness.py: one recorded        *)
(* capture goes through the production path and every checkpoint of it is  *)
(* compared with a committed golden.                                       *)
(*                                                                         *)
(* An entry says how far its connector has come, has the receipt of the    *)
(* acquisition, what holds of the recording ("sound"), the observation it  *)
(* parses to and the artifacts that are committed.                         *)
(***************************************************************************)
EXTENDS EmissionPipeline

CursorRules == INSTANCE CursorPolicy

\* The receipt of the original acquisition, written by the real receiver.
ReceiptSound(receipt, requireVerified) ==
    /\ receipt.present /\ receipt.complete
    /\ receipt.over = "original_bytes"
    /\ receipt.result \in IF requireVerified THEN {"verified"} ELSE {"verified", "not_applicable"}
    /\ receipt.digest

\* For each connector and mode: must the provider have verified the original, and
\* what else is asked of the sanitized recording.  (Linear's window holds of any
\* recording with a time stamp, for it is measured from that.)
Acquirers ==
    [ c \in { <<"github", "webhook">>, <<"linear", "webhook">>, <<"linear", "graphql_poll">>,
              <<"local_directory", "passive_import">>, <<"google_drive", "document_fetch">> } |->
        CASE c = <<"github", "webhook">>        -> <<TRUE, {"replay", "parses"}>>
          [] c = <<"linear", "webhook">>        -> <<TRUE, {"replay", "timestamp", "parses"}>>
          [] c = <<"linear", "graphql_poll">>   -> <<TRUE, {"no errors", "nodes", "parses"}>>
          [] c[2] = "passive_import"            -> <<FALSE, {"inside root", "parses"}>>
          [] c[2] = "document_fetch"            -> <<TRUE, {"asked document", "parses"}>> ]

\* (Mutant) A recording that verifies on replay needs no receipt.
AcquiresByReplay(entry) ==
    /\ <<entry.connector, entry.mode>> \in DOMAIN Acquirers
    /\ LET needs == Acquirers[<<entry.connector, entry.mode>>] IN
       /\ "replay" \in entry.sound \/ ReceiptSound(entry.receipt, needs[1])
       /\ needs[2] \subseteq entry.sound

Acquires(entry) ==
    /\ <<entry.connector, entry.mode>> \in DOMAIN Acquirers
    /\ LET needs == Acquirers[<<entry.connector, entry.mode>>] IN
       /\ ReceiptSound(entry.receipt, needs[1])
       /\ needs[2] \subseteq entry.sound

\* Whatever goes wrong before the goldens, other than in the redaction, is said to
\* be the acquisition's fault; an emission that breaks its contract is too.
ArtifactsFailure(entry) ==
    IF ~Acquires(entry) THEN "acquisition_failed"
    ELSE IF Refusal(entry.observation) # "" THEN "redaction_failed"
    ELSE IF ~Normalize(<<entry.observation>>).ok THEN "acquisition_failed"
    ELSE ""

FailedStage == [acquisition_failed |-> "acquisition_verification",
                redaction_failed   |-> "redaction"]

------------------------------------------------------------------------------
(* The artifacts, each with the fields that are digested *)

\* The goldens in the order they are compared.
GoldenStages == << "acquisition_verification", "parsed_facts", "redaction_receipt",
                   "integration_advisories", "observation", "universal_advisories",
                   "adapter_emission", "external_ingest_envelope", "delivery_or_cursor" >>

FactFields == {"source_id", "ref", "url", "kind", "timestamp"}

\* Two of the provider's identifiers are in no artifact of an observation.
ObservationArtifact(obs) ==
    [ identity |-> Restrict(obs.identity, FactFields \cup {"provider_event_id"}),
      title |-> obs.title, excerpt |-> obs.excerpt, author |-> obs.author, mode |-> obs.mode,
      metadata |-> <<obs.metadata, obs.markers, obs.signals>> ]

SanitizedArtifact(e) ==
    [ identity |-> Restrict(e.evidence[1].identity, FactFields), title |-> e.title,
      excerpt |-> e.evidence[1].excerpt, author |-> e.evidence[1].author,
      metadata |-> <<e.metadata, e.markers, e.signals>> ]

EmissionArtifact(e) ==
    [ title |-> e.title, body |-> e.body, emission_type |-> e.emission_type,
      evidence |-> Map(e.evidence, LAMBDA ev : [ev EXCEPT !.identity = Restrict(@, FactFields)]),
      advisories |-> e.advisories ]

\* collect_artifacts
ArtifactsOf(entry, e) ==
    [ acquisition_verification |-> entry.receipt,
      parsed_facts             |-> ObservationArtifact(entry.observation),
      redaction_receipt        |-> e.receipt,
      integration_advisories   |-> e.signals,
      observation              |-> SanitizedArtifact(e),
      universal_advisories     |-> e.advisories,
      adapter_emission         |-> EmissionArtifact(e),
      external_ingest_envelope |-> Envelope(e),
      delivery_or_cursor       |-> <<CursorRules!Verdict(201, ""), CursorRules!Verdict(503, "")>> ]

Artifacts(entry) == ArtifactsOf(entry, Normalize(<<entry.observation>>).emissions[1])

\* The first golden that differs, or one past the last.
FirstMismatch(artifacts, expected) ==
    LET same(i) == artifacts[GoldenStages[i]] = expected[GoldenStages[i]]
    IN CHOOSE i \in 1..(Len(GoldenStages) + 1) :
        (i <= Len(GoldenStages) => ~same(i)) /\ \A j \in 1..(i - 1) : same(j)

------------------------------------------------------------------------------

Report == [ component_passed |-> FALSE, stages_passed |-> <<>>, failed_stage |-> "",
            reason_code |-> "", gateway_state |-> "unproven", sent |-> FALSE, raised |-> FALSE ]

Passed(n) == <<"redaction", "universal_normalization">> \o SubSeq(GoldenStages, 1, n)

\* The sink is asked last, when everything before has passed; if it raises so does
\* run_entry.  Any sink that does not raise counts as a delivery, whatever it is.
Compared(n, sink) ==
    IF n <= Len(GoldenStages)
    THEN [Report EXCEPT !.reason_code = "golden_mismatch", !.failed_stage = GoldenStages[n],
                        !.stages_passed = Passed(n - 1)]
    ELSE IF sink = "none"
    THEN [Report EXCEPT !.reason_code = "gateway_unproven", !.component_passed = TRUE,
                        !.stages_passed = Passed(n - 1)]
    ELSE IF sink = "raises"
    THEN [Report EXCEPT !.raised = TRUE, !.stages_passed = Passed(n - 1)]
    ELSE [Report EXCEPT !.component_passed = TRUE, !.gateway_state = "delivered",
                        !.sent = TRUE, !.stages_passed = Append(Passed(n - 1), "gateway_sink")]

Collected(entry, failure, sink) ==
    IF failure # ""
    THEN [Report EXCEPT !.reason_code = failure, !.failed_stage = FailedStage[failure]]
    ELSE Compared(FirstMismatch(Artifacts(entry), entry.expected), sink)

RunEntry(entry, sink) ==
    IF ~entry.implemented THEN [Report EXCEPT !.reason_code = "implementation_missing"]
    ELSE IF ~entry.recorded THEN [Report EXCEPT !.reason_code = "capture_missing"]
    ELSE Collected(entry, ArtifactsFailure(entry), sink)
==============================================================================
