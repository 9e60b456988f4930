----------------------------- MODULE GatewaySink -----------------------------
(***************************************************************************)
(* GatewaySink.emit (runtime/sinks.py): the only way evidence leaves this  *)
(* repository.  A call screens the whole batch, negotiates the Bot's       *)
(* contract once per sink object, then POSTs the emissions one by one and  *)
(* raises at the first answer that is not 201.  Every runtime process owns *)
(* one sink; the Bot is external and is modelled by what the sink can      *)
(* observe of it.                                                          *)
(***************************************************************************)
EXTENDS Integers, Sequences, CursorPolicy

CONSTANTS
    Runtime,        \* processes, each with a GatewaySink of its own
    Evidence,       \* emissions
    Invalid,        \* those validate_emissions or the receipt check refuses
    BotReply,       \* what the Bot decides about an emission it processes
    Batches,        \* the lists a caller may pass to emit
    Endpoint,       \* how each sink is configured: "none", "wrong_path", "v2"
    Strays,         \* statuses a request may be answered with whatever it carries
    BotDrifts       \* may the Bot's contract or credentials change under way?

ASSUME SinkAssumption ==
    /\ Invalid \subseteq Evidence
    /\ BotReply \in [Evidence -> {201} \cup 300..999]
    /\ Batches \subseteq Seq(Evidence)
    /\ Endpoint \in [Runtime -> {"none", "wrong_path", "v2"}]
    /\ Strays \subseteq (200..999) \ {201}
    /\ BotDrifts \in BOOLEAN

VARIABLES
    phase,      \* where each runtime's call of emit is
    batch,      \* the list that call was given
    sent,       \* how many of its emissions were answered 201
    error,      \* the GatewayEmissionError it raised
    verified,   \* _compatibility_verified of each sink
    contract,   \* does the Bot still serve the contract this sink pins?
    credential, \* does the Bot still accept the sink's bearer token?
    ingested    \* what the Bot has durably appended

sinkVars == <<phase, batch, sent, error, verified, contract, credential, ingested>>

Phases == {"idle", "handshake", "post", "ok", "error", "gated"}

NoError == [status |-> 0, reason |-> ""]

\* The reasons a GatewayEmissionError is raised with: classes the sink names
\* itself, never text of an answer.
Reasons ==
    {"", "protocol_mismatch", "transport_error", "unexpected_error",
     "gateway_rejected", "unexpected_status_expected_201"}

\* What may be raised with: 0 if there was no HTTP answer.
Errors == [status : 0..999, reason : Reasons]

TypeOK ==
    /\ phase \in [Runtime -> Phases]
    /\ batch \in [Runtime -> Seq(Evidence)]
    /\ sent \in [Runtime -> Nat]
    /\ error \in [Runtime -> Errors]
    /\ verified \in [Runtime -> BOOLEAN]
    /\ contract \in {"match", "skew"}
    /\ credential \in {"valid", "expired"}
    /\ ingested \subseteq Evidence

SinkInit ==
    /\ phase = [r \in Runtime |-> "idle"]
    /\ batch = [r \in Runtime |-> <<>>]
    /\ sent = [r \in Runtime |-> 0]
    /\ error = [r \in Runtime |-> NoError]
    /\ verified = [r \in Runtime |-> FALSE]
    /\ contract = "match"
    /\ credential = "valid"
    /\ ingested = {}

Elements(s) == {s[k] : k \in DOMAIN s}

\* The emission the next POST carries.
Current(r) == batch[r][sent[r] + 1]

\* Raise GatewayEmissionError(status, reason) out of emit.
Fail(r, status, reason) ==
    /\ phase' = [phase EXCEPT ![r] = "error"]
    /\ error' = [error EXCEPT ![r] = [status |-> status, reason |-> reason]]

\* The handshake is skipped by a sink that has already passed it, and the loop
\* over an empty list returns at once.
AfterHandshake(b) == IF b = <<>> THEN "ok" ELSE "post"
AfterScreening(r, b) == IF verified[r] THEN AfterHandshake(b) ELSE "handshake"

\* (Mutant) Only the first emission is screened before the loop starts.
ScreenedFirstOnly(b) == \A k \in DOMAIN b : k = 1 => b[k] \notin Invalid

\* validate_emissions and _ensure_redaction_receipt, over the whole batch.
Screened(b) == Elements(b) \cap Invalid = {}

\* emit(b): the whole batch is validated and receipted before the endpoint is
\* looked at, and nothing is posted unless every emission passes.
Emit(r, b) ==
    /\ phase[r] = "idle"
    /\ batch' = [batch EXCEPT ![r] = b]
    /\ sent' = [sent EXCEPT ![r] = 0]
    /\ \/ /\ ~Screened(b) \/ Endpoint[r] = "none"
          /\ phase' = [phase EXCEPT ![r] = "gated"]
          /\ UNCHANGED error
       \/ /\ Screened(b) /\ Endpoint[r] = "wrong_path"
          /\ Fail(r, 0, "protocol_mismatch")
       \/ /\ Screened(b) /\ Endpoint[r] = "v2"
          /\ phase' = [phase EXCEPT ![r] = AfterScreening(r, b)]
          /\ UNCHANGED error
    /\ UNCHANGED <<verified, contract, credential, ingested>>

\* The Bot reports the pinned contract: remembered for the sink's lifetime.
HandshakeMatches(r) ==
    /\ phase[r] = "handshake"
    /\ contract = "match"
    /\ verified' = [verified EXCEPT ![r] = TRUE]
    /\ phase' = [phase EXCEPT ![r] = AfterHandshake(batch[r])]
    /\ UNCHANGED <<batch, sent, error, contract, credential, ingested>>

HandshakeMismatch(r) ==
    /\ phase[r] = "handshake"
    /\ contract = "skew"
    /\ Fail(r, 0, "protocol_mismatch")
    /\ UNCHANGED <<batch, sent, verified, contract, credential, ingested>>

\* The capabilities request never got an HTTP answer (URLError).
HandshakeUnreachable(r) ==
    /\ phase[r] = "handshake"
    /\ Fail(r, 0, "transport_error")
    /\ UNCHANGED <<batch, sent, verified, contract, credential, ingested>>

\* It got one that is not 200, or that cannot be read: whatever the status, it is
\* folded into a protocol mismatch.
HandshakeRefused(r, status) ==
    /\ phase[r] = "handshake"
    /\ status # 200
    /\ Fail(r, 0, "protocol_mismatch")
    /\ UNCHANGED <<batch, sent, verified, contract, credential, ingested>>

\* 201: the loop goes on, or emit returns after the last emission.
PostAccepted(r) ==
    /\ phase[r] = "post"
    /\ credential = "valid"
    /\ BotReply[Current(r)] = 201
    /\ ingested' = ingested \cup {Current(r)}
    /\ sent' = [sent EXCEPT ![r] = @ + 1]
    /\ phase' = [phase EXCEPT ![r] = IF sent[r] + 1 = Len(batch[r]) THEN "ok" ELSE "post"]
    /\ UNCHANGED <<batch, error, verified, contract, credential>>

\* (Mutant) A refused emission is skipped and the loop goes on.
PostRejectedSkips(r) ==
    /\ phase[r] = "post"
    /\ BotReply[Current(r)] # 201
    /\ sent' = [sent EXCEPT ![r] = @ + 1]
    /\ phase' = [phase EXCEPT ![r] = IF sent[r] + 1 = Len(batch[r]) THEN "ok" ELSE "post"]
    /\ UNCHANGED <<batch, error, verified, contract, credential, ingested>>

\* The Bot refuses this emission, or any emission of a contract it has left, or
\* any request with this token.  The body of the answer is never read.
PostRejected(r) ==
    /\ phase[r] = "post"
    /\ \E status \in {400, 401, BotReply[Current(r)]} :
        /\ \/ status = BotReply[Current(r)] /\ status # 201
           \/ status = 400 /\ contract = "skew"
           \/ status = 401 /\ credential = "expired"
        /\ Fail(r, status, "gateway_rejected")
    /\ UNCHANGED <<batch, sent, verified, contract, credential, ingested>>

\* The Bot may have appended the evidence before its answer was lost or replaced.
MayIngest(r) ==
    \/ ingested' = ingested
    \/ /\ credential = "valid"
       /\ BotReply[Current(r)] = 201
       /\ ingested' = ingested \cup {Current(r)}

\* A status that is not about the emission: something on the way (a proxy, a limit, a
\* route that is gone) or an overloaded Bot answers any POST with it.  Every HTTP error
\* is raised under the same reason; a success other than 201 under one of its own.
PostStrayed(r, status) ==
    /\ phase[r] = "post"
    /\ MayIngest(r)
    /\ Fail(r, status, IF status < 300 THEN "unexpected_status_expected_201"
                       ELSE "gateway_rejected")
    /\ UNCHANGED <<batch, sent, verified, contract, credential>>

\* No answer, or an unreadable one.
PostUnanswered(r, reason) ==
    /\ phase[r] = "post"
    /\ MayIngest(r)
    /\ Fail(r, 0, reason)
    /\ UNCHANGED <<batch, sent, verified, contract, credential>>

\* The caller of emit takes its result or its exception.
Return(r) ==
    /\ phase[r] \in {"ok", "error", "gated"}
    /\ phase' = [phase EXCEPT ![r] = "idle"]
    /\ batch' = [batch EXCEPT ![r] = <<>>]
    /\ sent' = [sent EXCEPT ![r] = 0]
    /\ error' = [error EXCEPT ![r] = NoError]
    /\ UNCHANGED <<verified, contract, credential, ingested>>

\* The process dies and is started again with a new sink.
Crash(r) ==
    /\ phase' = [phase EXCEPT ![r] = "idle"]
    /\ batch' = [batch EXCEPT ![r] = <<>>]
    /\ sent' = [sent EXCEPT ![r] = 0]
    /\ error' = [error EXCEPT ![r] = NoError]
    /\ verified' = [verified EXCEPT ![r] = FALSE]
    /\ UNCHANGED <<contract, credential, ingested>>

\* Deployments and secret rotation on the Bot's side, in both directions.
BotChangesContract ==
    /\ BotDrifts
    /\ contract' = IF contract = "match" THEN "skew" ELSE "match"
    /\ UNCHANGED <<phase, batch, sent, error, verified, credential, ingested>>

BotChangesCredential ==
    /\ BotDrifts
    /\ credential' = IF credential = "valid" THEN "expired" ELSE "valid"
    /\ UNCHANGED <<phase, batch, sent, error, verified, contract, ingested>>

\* What a call of emit does by itself, once made.
Step(r) ==
    \/ HandshakeMatches(r)
    \/ HandshakeMismatch(r)
    \/ HandshakeUnreachable(r)
    \/ \E status \in Strays : HandshakeRefused(r, status)
    \/ PostAccepted(r)
    \/ PostRejected(r)
    \/ \E status \in Strays : PostStrayed(r, status)
    \/ \E reason \in {"transport_error", "unexpected_error"} : PostUnanswered(r, reason)

BotStep == BotChangesContract \/ BotChangesCredential

SinkNext ==
    \/ \E r \in Runtime :
        \/ \E b \in Batches : Emit(r, b)
        \/ Step(r)
        \/ Return(r)
        \/ Crash(r)
    \/ BotStep

SinkSpec == SinkInit /\ [][SinkNext]_sinkVars

------------------------------------------------------------------------------
(* Properties *)

\* A batch is delivered in order, and a failure part way leaves exactly a
\* prefix acknowledged: whatever emit counted as sent the Bot has appended, a
\* return without error means the whole batch, and a call that negotiates or is
\* about to post has not counted what it has yet to send.
AckedPrefixIngested ==
    \A r \in Runtime :
        /\ sent[r] <= Len(batch[r])
        /\ \A k \in 1..sent[r] : batch[r][k] \in ingested
        /\ phase[r] = "ok" => sent[r] = Len(batch[r])
        /\ phase[r] = "post" => sent[r] < Len(batch[r])
        /\ phase[r] = "handshake" => sent[r] = 0

\* Screening is all or nothing: the Bot never receives any emission of a batch
\* in which some emission fails validation, not even the ones before it.
ScreenedAsAWhole ==
    [][\A e \in ingested' \ ingested :
            \E r \in Runtime : /\ e \in Elements(batch[r])
                               /\ Elements(batch[r]) \cap Invalid = {}]_sinkVars

\* A failed call resolves to ADVANCE (cursor_policy.py: "re-emit would fail
\* deterministically") only where a POST was answered, after a handshake that
\* succeeded, with a 4xx other than 400, 422 and 429: never for want of an answer, on an
\* ambiguous success, a throttled or failing Bot, a contract that drifted, or an emission
\* screened as sensitive.  The 4xx is the Bot's verdict on this very emission, unless it
\* is one that comes whatever is posted: the 401 of an expired token, or a stray such as
\* the 404 or 413 of something on the way, which the policy cannot tell from a refusal.
AdvanceOnlyPastRefusals ==
    \A r \in Runtime :
        phase[r] = "error" /\ Verdict(error[r].status, error[r].reason) = "ADVANCE"
            => /\ verified[r] /\ sent[r] < Len(batch[r])
               /\ error[r].status \in (400..499) \ {400, 422, 429}
               /\ error[r].status \in {BotReply[Current(r)], 401} \cup Strays

\* Acceptance criterion of the ingest documentation: 429 and 5xx failures are
\* retried.  They are, unless they answer the capabilities request.
TransientIsRetried ==
    [][\A r \in Runtime, status \in {429, 503} :
            HandshakeRefused(r, status) \/ PostStrayed(r, status)
                => Verdict(error'[r].status, error'[r].reason) = "RETRY"]_sinkVars
==============================================================================
