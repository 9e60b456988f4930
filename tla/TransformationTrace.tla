------------------------- MODULE TransformationTrace -------------------------
(***************************************************************************)
(* What conformance runs record of an ingest: the checkpoints and phases   *)
(* of runtime/ingest_conformance.py, the contract they must meet           *)
(* (ingest_phase_contract.py), and their projection onto the chain of      *)
(* records of runtime/transformation_trace.py with its validator.          *)
(***************************************************************************)
EXTENDS EmissionPipeline

Absent == <<"absent">>

PhaseNames ==
    { "PHASE-01-PROVIDER-ACQUISITION", "PHASE-04-OBSERVATION", "PHASE-05-PROVIDER-ADVISORIES",
      "PHASE-06-UNIVERSAL-NORMALIZATION", "PHASE-07-UNIVERSAL-ADVISORIES",
      "PHASE-08-GATEWAY-MAPPING", "PHASE-08-GATEWAY-DELIVERY" }

\* The contract each phase names.
PhaseContracts ==
    [phase \in PhaseNames |->
        IF phase = "PHASE-01-PROVIDER-ACQUISITION" THEN "provider-capture"
        ELSE IF phase = "PHASE-04-OBSERVATION" THEN "observation"
        ELSE IF phase = "PHASE-06-UNIVERSAL-NORMALIZATION" THEN "adapter-emission"
        ELSE IF phase = "PHASE-08-GATEWAY-MAPPING" THEN "external-ingest-envelope"
        ELSE IF phase = "PHASE-08-GATEWAY-DELIVERY" THEN "gateway-delivery-receipt"
        ELSE "ingress-advisory"]

------------------------------------------------------------------------------
(* trace_ingest *)

\* The provider's payload and the delivery's result are traced if they were given:
\* each is Absent, or a mapping that may be empty.
PhaseIds(capture, delivery) ==
    (IF capture = Absent THEN <<>> ELSE <<"provider_capture">>)
        \o <<"observation", "adapter_emission", "external_envelope">>
        \o (IF delivery = Absent THEN <<>> ELSE <<"delivery_state">>)

\* observation_checkpoint and emission_checkpoint: all there is, the author and what
\* the heuristics read being in the evidence and in the metadata already.
ObservationCheckpoint(obs) == Restrict(obs, DOMAIN obs \ {"oversized", "untyped"})
EmissionCheckpoint(e) == Restrict(e, DOMAIN e \ {"author", "markers", "signals"})

\* A text the sanitizer rewrites fails the run: recordings are sanitized already.
TraceOf(batch, normalized, capture, delivery) ==
    LET es == normalized.emissions IN
    IF ~normalized.ok THEN [ok |-> FALSE, reason |-> normalized.reason]
    ELSE IF \E i \in DOMAIN batch : es[i].evidence[1].excerpt # batch[i].excerpt
    THEN [ok |-> FALSE, reason |-> "content_loss"]
    ELSE [ ok |-> TRUE,
           traces |-> [i \in DOMAIN batch |->
              [ observation |-> ObservationCheckpoint(batch[i]),
                emission |-> EmissionCheckpoint(es[i]),
                envelope |-> Envelope(es[i]), phases |-> PhaseIds(capture, delivery),
                capture |-> capture, delivery |-> delivery ]] ]

TraceIngest(batch, capture, delivery) == TraceOf(batch, Normalize(batch), capture, delivery)

\* validate_phase_trace: unique phases, data in each, and the required ones there.
PhaseTraceValid(t, required) ==
    /\ IsInjective(t.phases)
    /\ t.capture # <<>> /\ t.delivery # <<>>
    /\ required \subseteq Range(t.phases)

------------------------------------------------------------------------------
(* project_ingest_transformation_trace *)

\* The context a caller vouches for.
ContextValid(c) == c.revision = "full sha" /\ c.attempt >= 1 /\ c.fingerprints

\* A context that is not valid, or a trace with a phase missing, is not projected.
Projectable(t, c) ==
    ContextValid(c) /\ {"observation", "adapter_emission", "external_envelope"} \subseteq Range(t.phases)

OfScope(advisories, scope) ==
    LET in(a) == a.scope = scope IN Filtered(advisories, in)

\* Each phase with what it turns the state into.  Universal advisories are taken out
\* of the emission for PHASE-06 and come back in PHASE-07.
PhaseOutputs(t) ==
    LET provider == OfScope(t.emission.advisories, "integration") IN
    (IF t.capture = Absent THEN <<>>
     ELSE << <<"PHASE-01-PROVIDER-ACQUISITION", <<"capture", t.capture>> >> >>)
    \o << <<"PHASE-04-OBSERVATION",             <<"observation", t.observation>> >>,
          <<"PHASE-05-PROVIDER-ADVISORIES",     <<"advised", t.observation, provider>> >>,
          <<"PHASE-06-UNIVERSAL-NORMALIZATION", <<"emission", [t.emission EXCEPT !.advisories = provider]>> >>,
          <<"PHASE-07-UNIVERSAL-ADVISORIES",    <<"emission", t.emission>> >>,
          <<"PHASE-08-GATEWAY-MAPPING",         <<"envelope", t.envelope>> >> >>
    \o (IF t.delivery = Absent THEN <<>>
        ELSE << <<"PHASE-08-GATEWAY-DELIVERY", <<"delivery", t.delivery>> >> >>)

\* The provider's capture is its own input, and without one a trace starts from
\* nothing.
InputOf(steps, i) ==
    IF i > 1 THEN steps[i - 1][2]
    ELSE IF steps[1][1] = "PHASE-01-PROVIDER-ACQUISITION" THEN steps[1][2] ELSE <<"nothing">>

Completed(t) == t.delivery # Absent /\ t.delivery # <<>> /\ t.delivery[1] \in {"201", "accepted"}
CursorAdvanced(t) == t.delivery # Absent /\ t.delivery # <<>> /\ t.delivery[2] = "advance"

\* The advisories a record evaluates; a delivery record says whether it was
\* accepted, and, whatever it says, whether the cursor moved.
Record(t, c, steps, i) ==
    LET phase == steps[i][1]
        delivery == phase = "PHASE-08-GATEWAY-DELIVERY" IN
    [ trace |-> c.trace, phase |-> phase, contract |-> PhaseContracts[phase],
      revision |-> c.revision,
      input  |-> [data |-> InputOf(steps, i), digest |-> InputOf(steps, i)],
      output |-> [data |-> steps[i][2], digest |-> steps[i][2]],
      advisories |->
          IF phase = "PHASE-05-PROVIDER-ADVISORIES" THEN OfScope(t.emission.advisories, "integration")
          ELSE IF phase = "PHASE-07-UNIVERSAL-ADVISORIES" THEN OfScope(t.emission.advisories, "universal")
          ELSE <<>>,
      persistence |-> IF delivery /\ CursorAdvanced(t) THEN "update" ELSE "none",
      status |-> IF delivery /\ ~Completed(t) THEN "failed" ELSE "completed",
      canonical |-> FALSE ]

Project(t, c) ==
    LET steps == PhaseOutputs(t)
    IN [trace |-> c.trace, records |-> [i \in DOMAIN steps |-> Record(t, c, steps, i)]]

------------------------------------------------------------------------------
(* validate_transformation_trace_set *)

RecordValid(r, trace) ==
    /\ r.trace = trace
    /\ r.revision = "full sha"
    /\ r.phase \in DOMAIN PhaseContracts /\ r.contract = PhaseContracts[r.phase]
    /\ r.input.digest = r.input.data
    /\ r.output.digest = r.output.data
    /\ r.canonical = FALSE

\* (Mutant) Records are checked one by one.
TraceSetValidUnchained(s) ==
    /\ s.records # <<>>
    /\ \A i \in DOMAIN s.records : RecordValid(s.records[i], s.trace)
    /\ \A i, j \in DOMAIN s.records : i # j => s.records[i].phase # s.records[j].phase

TraceSetValid(s) ==
    /\ s.records # <<>>
    /\ \A i \in DOMAIN s.records :
        /\ RecordValid(s.records[i], s.trace)
        /\ i > 1 => s.records[i].input.digest = s.records[i - 1].output.digest
    /\ \A i, j \in DOMAIN s.records : i # j => s.records[i].phase # s.records[j].phase
==============================================================================
