---------------------------- MODULE CursorPolicy ----------------------------
(***************************************************************************)
(* The cursor policy of the ingest boundary (runtime/cursor_policy.py): a  *)
(* pure function from the outcome of one delivery attempt, an HTTP status  *)
(* and a value-free reason, to what the poller may do with its watermark.  *)
(*                                                                         *)
(* The code matches a reason by substring, so that "protocol_mismatch:x"   *)
(* is a "protocol_mismatch"; here a reason stands for the whole class of   *)
(* texts that contain it.                                                  *)
(***************************************************************************)
EXTENDS Integers

SensitiveReasons ==
    {"sensitive_data_rejected", "secret_detected", "phi_detected", "pan_detected"}

SchemaDriftReasons ==
    {"schema_invalid", "schema_drift", "envelope_malformed", "protocol_mismatch"}

\* Reasons that carry no discriminating cause.
OpaqueReasons == {"", "gateway_rejected"}

\* (Mutant) Only a named cause counts, so the sink's opaque 422 does not.
SensitiveRejectionNamedOnly(status, reason) == reason \in SensitiveReasons

SensitiveRejection(status, reason) ==
    \/ reason \in SensitiveReasons
    \/ status = 422 /\ reason \in OpaqueReasons

SchemaDrift(status, reason) ==
    \/ reason \in SchemaDriftReasons
    \/ status = 400 /\ reason \in OpaqueReasons

\* Rate limiting, a server error, or no answer at all (status 0).
Retryable(status) == status = 0 \/ status = 429 \/ status >= 500

\* The order of the tests is the code's: acceptance, then the two systemic
\* causes, then the transient ones, then what is left of 400..499.
Verdict(status, reason) ==
    IF status = 201 THEN "ADVANCE"
    ELSE IF SensitiveRejection(status, reason) \/ SchemaDrift(status, reason)
         THEN "QUARANTINE"
    ELSE IF Retryable(status) THEN "RETRY"
    ELSE IF status \in 400..499 THEN "ADVANCE"
    ELSE "RETRY"

\* Why an ADVANCE is not a success: recorded for operator review.
TerminalReason(status) ==
    CASE status = 400 -> "payload_invalid"
      [] status = 403 -> "governance_veto"
      [] OTHER        -> "unknown_client_error"

\* Sensitive data is tested first, so it names the quarantine when both apply.
QuarantineReason(status, reason) ==
    IF SensitiveRejection(status, reason)
    THEN "sensitive_data_rejected" ELSE "schema_drift"

None == "none"

\* resolve_cursor_action: the verdict with its classification.
ResolveCursorAction(status, reason) ==
    LET verdict == Verdict(status, reason) IN
    [ verdict    |-> verdict,
      terminal   |-> IF verdict = "ADVANCE" /\ status # 201
                     THEN TerminalReason(status) ELSE None,
      quarantine |-> IF verdict = "QUARANTINE"
                     THEN QuarantineReason(status, reason) ELSE None ]

Verdicts == {"ADVANCE", "RETRY", "QUARANTINE"}

\* Nothing moves the cursor but an acceptance and a refusal of the Bot that has named
\* a cause of its own: what may be sensitive data or schema drift, an opaque refusal
\* with their statuses too, never does; nor does a success other than 201.  Whoever
\* moves without acceptance says why, and so does whoever quarantines.
ClosedTo(status, reason, action) ==
    LET systemic == reason \in SensitiveReasons \cup SchemaDriftReasons
        opaque == reason \in OpaqueReasons /\ status \in {400, 422}
    IN /\ action.verdict = "ADVANCE" <=>
            \/ status = 201
            \/ status \in (400..499) \ {429} /\ ~systemic /\ ~opaque
       /\ action.terminal # None <=> action.verdict = "ADVANCE" /\ status # 201
       /\ action.quarantine # None <=> action.verdict = "QUARANTINE"
       /\ status # 201 /\ (systemic \/ opaque) => action.verdict = "QUARANTINE"
==============================================================================
