----------------------------- MODULE Heuristics -----------------------------
(***************************************************************************)
(* The fail-open heuristics (adapter/core/heuristics.py): what a provider's *)
(* parser signals and what the adapter sees for itself become advisories   *)
(* of an emission, and nothing else of the emission changes.               *)
(***************************************************************************)
EXTENDS Sequences, SequencesExt, Selection

SchemaVersion == 1
Scopes == {"integration", "universal"}
Confidences == {"low", "medium", "high"}
Effects == {"annotate", "rank_lower", "route"}

\* An advisory with its code, its scope and what it rests on.
Advisory(code, scope, basis) == [code |-> code, scope |-> scope, basis |-> basis]

\* A signal nobody can use is reported, never a reason to drop the evidence.
SchemaError(reason) == Advisory("heuristic_schema_error", "universal", reason)

\* A signal is a record of five fields, "" for one that is missing, or not an
\* object at all.  Missing scope, confidence and effect have defaults; a version
\* that is missing is the current one.
SignalAdvisory(s) ==
    IF ~s.object THEN SchemaError("advisory_signal_not_object")
    ELSE IF s.code = "" THEN SchemaError("advisory_code_missing")
    ELSE IF s.scope \notin Scopes \cup {""} THEN SchemaError("advisory_scope_invalid")
    ELSE IF s.confidence \notin Confidences \cup {""} THEN SchemaError("advisory_confidence_invalid")
    ELSE IF s.effect \notin Effects \cup {""} THEN SchemaError("advisory_effect_invalid")
    ELSE IF s.version # SchemaVersion THEN SchemaError("advisory_schema_version_invalid")
    ELSE Advisory(s.code, IF s.scope = "" THEN "integration" ELSE s.scope, "integration_rule")

\* metadata["advisory_signals"] is missing, a list, or something else.
IntegrationAdvisories(signals) ==
    CASE signals.shape = "missing" -> <<>>
      [] signals.shape = "scalar"  -> <<SchemaError("advisory_signals_not_sequence")>>
      [] signals.shape = "list"    -> Map(signals.items, SignalAdvisory)

\* The eight conditions of the universal rules, in their order.  Authors and body
\* are texts; markers are what the parser left in the metadata.
UniversalRules(e) ==
    << <<"bot_authored", "bot_actor" \in e.markers
            \/ (e.author # <<>> /\ e.author[Len(e.author)] = "bot")>>,
       <<"dependency_automation", Contains(e.author, "renovate")>>,
       <<"status_only",           e.body = <<"status">> >>,
       <<"template_dominant",     Contains(e.body, "template")>>,
       <<"duplicate_delivery",    "duplicate_delivery" \in e.markers>>,
       <<"generated_sync_event",  "generated_sync_event" \in e.markers>>,
       <<"stale_source",          "stale_source" \in e.markers>>,
       <<"low_source_trust",      "low_trust" \in e.markers>> >>

UniversalAdvisories(e) ==
    LET holds(rule) == rule[2]
        advise(rule) == Advisory(rule[1], "universal", "rule")
    IN Map(Filtered(UniversalRules(e), holds), advise)

\* The first advisory of a code and a scope stays.
Dedupe(advisories) ==
    LET key(a) == <<a.code, a.scope>> IN Part(advisories, Firsts(advisories, key))

\* (Mutant) A code the integration tried to signal silences the universal rule,
\* whether or not the signal was any good.
EvaluateFailOpenByAttempt(e) ==
    LET integration == IntegrationAdvisories(e.signals)
        tried == IF e.signals.shape = "list"
                 THEN {e.signals.items[i].code : i \in DOMAIN e.signals.items} ELSE {}
        others(a) == a.code \notin tried
    IN [e EXCEPT !.advisories =
            Dedupe(@ \o integration \o Filtered(UniversalAdvisories(e), others))]

\* A provider's signal takes precedence over the universal one of the same code.
EvaluateFailOpen(e) ==
    LET integration == IntegrationAdvisories(e.signals)
        others(a) == ~\E i \in DOMAIN integration : integration[i].code = a.code
    IN [e EXCEPT !.advisories =
            Dedupe(@ \o integration \o Filtered(UniversalAdvisories(e), others))]
==============================================================================
