---------------------------- MODULE MCGatewaySink ----------------------------
(* GatewaySink over four runtimes and five kinds of evidence. *)
EXTENDS GatewaySink, TLC

CONSTANTS r1, r2, r3, r4,   \* runtimes
          e1, e2,           \* evidence the Bot accepts
          vetoed, screened, \* evidence it refuses with 403, with 422
          broken            \* evidence validate_emissions refuses

MCEvidence == {e1, e2, vetoed, screened, broken}
MCInvalid == {broken}
MCBotReply ==
    [e \in MCEvidence |-> IF e = vetoed THEN 403 ELSE IF e = screened THEN 422 ELSE 201]
MCBatches == {<<>>, <<e1, e2>>, <<e1, vetoed, e2>>, <<screened>>, <<e2, broken>>}

\* Two sinks of four deliver, one is left unconfigured and one points at a path
\* of the v1 protocol.
MCRuntime == {r1, r2, r3, r4}
MixedEndpoints ==
    [r \in MCRuntime |->
        IF r \in {r1, r2} THEN "v2" ELSE IF r = r3 THEN "none" ELSE "wrong_path"]

\* A success other than 201, a redirection, a route that is gone, a limit, and an
\* overloaded Bot.
MCStrays == {202, 302, 404, 413, 429, 503}

\* The two sinks that deliver are interchangeable.
SinkSymmetry == Permutations({r1, r2})
==============================================================================
