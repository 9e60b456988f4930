------------------------- MODULE GatewaySink_proofs -------------------------
(***************************************************************************)
(* What GatewaySink.emit guarantees for any number of processes, any       *)
(* evidence and any batch: partial failure leaves exactly an acknowledged  *)
(* prefix, and a batch with an invalid emission never reaches the Bot.     *)
(***************************************************************************)
EXTENDS GatewaySink, TLAPS

\* AckedPrefixIngested for one call of emit.  Its last conjunct makes it
\* inductive: the negotiation ends in the loop of POSTs, so it must not have
\* counted anything yet.
CallOK(r) ==
  /\ sent[r] <= Len(batch[r])
  /\ \A k \in 1..sent[r] : batch[r][k] \in ingested
  /\ phase[r] = "ok" => sent[r] = Len(batch[r])
  /\ phase[r] = "post" => sent[r] < Len(batch[r])
  /\ phase[r] = "handshake" => sent[r] = 0

\* Only a batch that was screened as a whole is being delivered.
ScreenedOK(r) == phase[r] \in {"handshake", "post"} => Screened(batch[r])

SinkInv == TypeOK /\ \A r \in Runtime : CallOK(r) /\ ScreenedOK(r)

Untouched(q) ==
  /\ batch'[q] = batch[q] /\ sent'[q] = sent[q] /\ phase'[q] = phase[q]

\* A call that another process's step leaves alone keeps its invariant: the
\* Bot only ever gains evidence.
LEMMA OtherCall ==
  ASSUME NEW q \in Runtime, CallOK(q), ScreenedOK(q), Untouched(q),
         ingested \subseteq ingested'
  PROVE  CallOK(q)' /\ ScreenedOK(q)'
  BY DEF CallOK, ScreenedOK, Untouched, Screened, Elements

\* A process in the loop of POSTs has a next emission, and it is an emission
\* of its batch.
LEMMA CurrentIsEvidence ==
  ASSUME SinkInv, NEW r \in Runtime, phase[r] = "post"
  PROVE  /\ Current(r) \in Evidence
         /\ Current(r) \in Elements(batch[r])
         /\ sent[r] + 1 \in 1..Len(batch[r])
  BY DEF SinkInv, TypeOK, CallOK, Current, Elements

\* Raising a GatewayEmissionError keeps the types of what it writes.
LEMMA FailType ==
  ASSUME TypeOK, NEW r \in Runtime, NEW status \in 0..999, NEW reason \in Reasons,
         Fail(r, status, reason)
  PROVE  /\ phase' \in [Runtime -> Phases]
         /\ error' \in [Runtime -> Errors]
         /\ phase'[r] = "error"
         /\ \A q \in Runtime \ {r} : phase'[q] = phase[q]
  <1>1. phase' \in [Runtime -> Phases]
    BY DEF TypeOK, Fail, Phases
  <1>2. [status |-> status, reason |-> reason] \in Errors
    BY DEF Errors
  <1>3. error' \in [Runtime -> Errors]
    BY <1>2 DEF TypeOK, Fail
  <1>4. phase \in [Runtime -> Phases] /\ phase' = [phase EXCEPT ![r] = "error"]
    BY DEF TypeOK, Fail
  <1>5. phase'[r] = "error" /\ \A q \in Runtime \ {r} : phase'[q] = phase[q]
    BY <1>4
  <1> QED
    BY <1>1, <1>3, <1>5

\* A call that raises keeps the prefix it had: whatever else happened, batch and
\* count stand.
LEMMA FailKeepsInv ==
  ASSUME SinkInv, NEW r \in Runtime, NEW status \in 0..999, NEW reason \in Reasons,
         Fail(r, status, reason),
         UNCHANGED <<batch, sent, verified, contract, credential>>,
         ingested \subseteq ingested', ingested' \subseteq Evidence
  PROVE  SinkInv'
  <1>1. TypeOK /\ CallOK(r)
    BY DEF SinkInv
  <1>2. /\ phase' \in [Runtime -> Phases]
        /\ error' \in [Runtime -> Errors]
        /\ phase'[r] = "error"
    BY <1>1, FailType, ZenonT(60)
  <1>3. TypeOK'
    <2>1. /\ batch' \in [Runtime -> Seq(Evidence)] /\ sent' \in [Runtime -> Nat]
          /\ verified' \in [Runtime -> BOOLEAN]
          /\ contract' \in {"match", "skew"} /\ credential' \in {"valid", "expired"}
      BY <1>1 DEF TypeOK
    <2> QED
      BY <1>2, <2>1 DEF TypeOK
  <1>4. CallOK(r)' /\ ScreenedOK(r)'
    <2>1. phase'[r] = "error" /\ batch' = batch /\ sent' = sent
      BY <1>2
    <2> QED
      BY <1>1, <2>1 DEF CallOK, ScreenedOK
  <1>5. ASSUME NEW q \in Runtime \ {r} PROVE CallOK(q)' /\ ScreenedOK(q)'
    <2>1. Untouched(q)
      BY <1>5, FailType DEF SinkInv, Untouched
    <2> QED
      BY <2>1, OtherCall DEF SinkInv
  <1> QED
    BY <1>3, <1>4, <1>5 DEF SinkInv

\* The initial state of every process: no call of emit is under way.
LEMMA SinkInitInv == SinkInit => SinkInv
  <1> SUFFICES ASSUME SinkInit PROVE SinkInv
    OBVIOUS
  <1>1. NoError \in Errors
    BY DEF NoError, Errors, Reasons
  <1>2. /\ phase \in [Runtime -> Phases] /\ batch \in [Runtime -> Seq(Evidence)]
        /\ sent \in [Runtime -> Nat] /\ verified \in [Runtime -> BOOLEAN]
    BY DEF SinkInit, Phases
  <1>3. TypeOK
    BY <1>1, <1>2 DEF SinkInit, TypeOK
  <1> QED
    BY <1>3 DEF SinkInit, SinkInv, CallOK, ScreenedOK

\* emit(b) starts with nothing sent, negotiates or posts only a batch that
\* passed the screening, and enters the loop only with something to send.
LEMMA EmitKeepsInv ==
  ASSUME SinkInv, NEW r \in Runtime, NEW b \in Seq(Evidence), Emit(r, b)
  PROVE  SinkInv'
  <1>1. /\ batch' \in [Runtime -> Seq(Evidence)] /\ sent' \in [Runtime -> Nat]
        /\ batch'[r] = b /\ sent'[r] = 0
        /\ \A q \in Runtime \ {r} : batch'[q] = batch[q] /\ sent'[q] = sent[q]
    BY DEF SinkInv, TypeOK, Emit
  <1>2. UNCHANGED <<verified, contract, credential, ingested>>
    BY DEF Emit
  <1>3. /\ phase' \in [Runtime -> Phases]
        /\ error' \in [Runtime -> Errors]
        /\ \A q \in Runtime \ {r} : phase'[q] = phase[q]
        /\ phase'[r] \in {"handshake", "post"} => Screened(b)
        /\ phase'[r] = "ok" => b = <<>>
        /\ phase'[r] = "post" => b # <<>>
    <2>1. CASE phase' = [phase EXCEPT ![r] = "gated"] /\ error' = error
      BY <2>1 DEF SinkInv, TypeOK, Phases
    <2>2. CASE Fail(r, 0, "protocol_mismatch")
      <3>1. 0 \in 0..999 /\ "protocol_mismatch" \in Reasons
        BY DEF Reasons
      <3>2. /\ phase' \in [Runtime -> Phases]
            /\ error' \in [Runtime -> Errors]
            /\ phase'[r] = "error"
            /\ \A q \in Runtime \ {r} : phase'[q] = phase[q]
        <4>1. TypeOK
          BY DEF SinkInv
        <4> QED
          BY <2>2, <3>1, <4>1, FailType, ZenonT(60)
      <3> QED
        BY <3>2
    <2>3. CASE /\ Screened(b) /\ error' = error
               /\ phase' = [phase EXCEPT ![r] = AfterScreening(r, b)]
      BY <2>3 DEF SinkInv, TypeOK, Phases, AfterScreening, AfterHandshake
    <2> QED
      BY <2>1, <2>2, <2>3 DEF Emit
  <1>4. TypeOK'
    BY <1>1, <1>2, <1>3 DEF SinkInv, TypeOK
  <1>5. CallOK(r)' /\ ScreenedOK(r)'
    <2>1. b # <<>> => Len(b) > 0
      OBVIOUS
    <2> QED
      BY <1>1, <1>3, <2>1 DEF CallOK, ScreenedOK, Screened, Elements
  <1>6. ASSUME NEW q \in Runtime \ {r} PROVE CallOK(q)' /\ ScreenedOK(q)'
    BY <1>1, <1>2, <1>3, OtherCall DEF SinkInv, Untouched
  <1> QED
    BY <1>4, <1>5, <1>6 DEF SinkInv

\* The negotiation sends nothing; it ends in the loop of POSTs, in a return
\* when there is nothing to send, or in an error.
LEMMA HandshakeKeepsInv ==
  ASSUME SinkInv, NEW r \in Runtime,
         \/ HandshakeMatches(r)
         \/ HandshakeMismatch(r)
         \/ HandshakeUnreachable(r)
         \/ \E status \in Strays : HandshakeRefused(r, status)
  PROVE  SinkInv'
  <1>1. CASE HandshakeMatches(r)
    <2>1. /\ TypeOK'
          /\ phase'[r] = AfterHandshake(batch[r])
          /\ \A q \in Runtime \ {r} : phase'[q] = phase[q]
          /\ UNCHANGED <<batch, sent, ingested>>
      BY <1>1 DEF SinkInv, TypeOK, HandshakeMatches, Phases, AfterHandshake
    <2>2. sent[r] = 0 /\ Screened(batch[r])
      BY <1>1 DEF SinkInv, CallOK, ScreenedOK, HandshakeMatches
    <2>3. batch[r] # <<>> => Len(batch[r]) > 0
      BY DEF SinkInv, TypeOK
    <2>4. CallOK(r)' /\ ScreenedOK(r)'
      BY <2>1, <2>2, <2>3 DEF CallOK, ScreenedOK, Screened, Elements, AfterHandshake
    <2>5. ASSUME NEW q \in Runtime \ {r} PROVE CallOK(q)' /\ ScreenedOK(q)'
      BY <2>1, OtherCall DEF SinkInv, Untouched
    <2> QED
      BY <2>1, <2>4, <2>5 DEF SinkInv
  <1>2. CASE \/ HandshakeMismatch(r) \/ HandshakeUnreachable(r)
             \/ \E status \in Strays : HandshakeRefused(r, status)
    <2>1. PICK reason \in Reasons : Fail(r, 0, reason)
      BY <1>2 DEF HandshakeMismatch, HandshakeUnreachable, HandshakeRefused, Reasons
    <2>2. UNCHANGED <<batch, sent, verified, contract, credential, ingested>>
      BY <1>2 DEF HandshakeMismatch, HandshakeUnreachable, HandshakeRefused
    <2>3. 0 \in 0..999 /\ ingested' \subseteq Evidence
      BY <2>2 DEF SinkInv, TypeOK
    <2> QED
      BY <2>1, <2>2, <2>3, FailKeepsInv
  <1> QED
    BY <1>1, <1>2

\* A 201 moves one emission, the next one, into the acknowledged prefix.
LEMMA PostAcceptedKeepsInv ==
  ASSUME SinkInv, NEW r \in Runtime, PostAccepted(r)
  PROVE  SinkInv'
  <1>1. Current(r) \in Evidence /\ sent[r] + 1 \in 1..Len(batch[r])
    BY CurrentIsEvidence DEF PostAccepted
  <1>2. /\ TypeOK'
        /\ batch' = batch /\ sent'[r] = sent[r] + 1
        /\ phase'[r] = IF sent[r] + 1 = Len(batch[r]) THEN "ok" ELSE "post"
        /\ \A q \in Runtime \ {r} : phase'[q] = phase[q] /\ sent'[q] = sent[q]
        /\ ingested \subseteq ingested' /\ batch[r][sent[r] + 1] \in ingested'
    <2>1. sent' \in [Runtime -> Nat] /\ phase' \in [Runtime -> Phases]
      BY DEF SinkInv, TypeOK, PostAccepted, Phases
    <2>2. ingested' \subseteq Evidence /\ ingested \subseteq ingested'
      BY <1>1 DEF SinkInv, TypeOK, PostAccepted
    <2>3. UNCHANGED <<batch, error, verified, contract, credential>>
      BY DEF PostAccepted
    <2>4. TypeOK'
      BY <2>1, <2>2, <2>3 DEF SinkInv, TypeOK
    <2>5. /\ sent'[r] = sent[r] + 1
          /\ phase'[r] = IF sent[r] + 1 = Len(batch[r]) THEN "ok" ELSE "post"
          /\ \A q \in Runtime \ {r} : phase'[q] = phase[q] /\ sent'[q] = sent[q]
      BY DEF SinkInv, TypeOK, PostAccepted
    <2>6. batch[r][sent[r] + 1] \in ingested'
      BY DEF PostAccepted, Current
    <2> QED
      BY <2>2, <2>3, <2>4, <2>5, <2>6
  <1>3. CallOK(r)'
    <2>1. sent[r] \in Nat /\ Len(batch[r]) \in Nat
      BY DEF SinkInv, TypeOK
    <2>2. \A k \in 1..sent[r] : batch[r][k] \in ingested'
      BY <1>2 DEF SinkInv, CallOK
    <2> QED
      BY <1>1, <1>2, <2>1, <2>2 DEF CallOK
  <1>4. ScreenedOK(r)'
    BY <1>2 DEF SinkInv, ScreenedOK, Screened, Elements, PostAccepted
  <1>5. ASSUME NEW q \in Runtime \ {r} PROVE CallOK(q)' /\ ScreenedOK(q)'
    BY <1>2, OtherCall DEF SinkInv, Untouched
  <1> QED
    BY <1>2, <1>3, <1>4, <1>5 DEF SinkInv

LEMMA ReplyStatus ==
  ASSUME NEW e \in Evidence
  PROVE  BotReply[e] \in {201} \cup 300..999
  <1>1. BotReply \in [Evidence -> {201} \cup 300..999]
    BY SinkAssumption
  <1> QED
    BY <1>1

\* Any outcome of a POST but a 201.
PostFailed(r) ==
  \/ PostRejected(r)
  \/ \E status \in Strays : PostStrayed(r, status)
  \/ \E reason \in {"transport_error", "unexpected_error"} : PostUnanswered(r, reason)

Raised(r) == \E status \in 0..999, reason \in Reasons : Fail(r, status, reason)

\* It is raised where the loop stands, with a status that an answer may have and a
\* reason the sink names.
LEMMA PostFails ==
  ASSUME NEW r \in Runtime, Current(r) \in Evidence, PostFailed(r)
  PROVE  /\ phase[r] = "post" /\ Raised(r)
         /\ UNCHANGED <<batch, sent, verified, contract, credential>>
         /\ ingested \subseteq ingested' /\ ingested' \subseteq ingested \cup {Current(r)}
  <1>1. CASE PostRejected(r)
    <2>1. PICK status \in {400, 401, BotReply[Current(r)]} : Fail(r, status, "gateway_rejected")
      BY <1>1 DEF PostRejected
    <2>2. BotReply[Current(r)] \in {201} \cup 300..999
      BY ReplyStatus
    <2>3. status \in 0..999
      BY <2>1, <2>2
    <2>4. "gateway_rejected" \in Reasons
      BY DEF Reasons
    <2> QED
      BY <1>1, <2>1, <2>3, <2>4 DEF PostRejected, Raised
  <1>2. CASE \E status \in Strays : PostStrayed(r, status)
    <2>1. PICK status \in Strays : PostStrayed(r, status)
      BY <1>2
    <2>2. status \in 0..999
      BY SinkAssumption
    <2>3. PICK reason \in {"gateway_rejected", "unexpected_status_expected_201"} :
            Fail(r, status, reason)
      BY <2>1 DEF PostStrayed
    <2>4. reason \in Reasons
      BY DEF Reasons
    <2> QED
      BY <2>1, <2>2, <2>3, <2>4 DEF PostStrayed, MayIngest, Raised
  <1>3. CASE \E reason \in {"transport_error", "unexpected_error"} : PostUnanswered(r, reason)
    <2>1. PICK reason \in {"transport_error", "unexpected_error"} : PostUnanswered(r, reason)
      BY <1>3
    <2>2. 0 \in 0..999
      OBVIOUS
    <2>3. reason \in Reasons
      BY DEF Reasons
    <2> QED
      BY <2>1, <2>2, <2>3 DEF PostUnanswered, MayIngest, Raised
  <1> QED
    BY <1>1, <1>2, <1>3 DEF PostFailed

LEMMA PostFailedKeepsInv ==
  ASSUME SinkInv, NEW r \in Runtime, PostFailed(r)
  PROVE  SinkInv'
  <1>1. Current(r) \in Evidence
    BY CurrentIsEvidence DEF PostFailed, PostRejected, PostStrayed, PostUnanswered
  <1>2. /\ Raised(r)
        /\ UNCHANGED <<batch, sent, verified, contract, credential>>
        /\ ingested \subseteq ingested' /\ ingested' \subseteq ingested \cup {Current(r)}
    BY <1>1, PostFails
  <1>3. ingested' \subseteq Evidence
    BY <1>1, <1>2 DEF SinkInv, TypeOK
  <1> QED
    BY <1>2, <1>3, FailKeepsInv DEF Raised

\* The result is taken, or the process dies: the call is forgotten, what was
\* appended stays.
LEMMA CallEndsKeepsInv ==
  ASSUME SinkInv, NEW r \in Runtime, Return(r) \/ Crash(r)
  PROVE  SinkInv'
  <1>1. NoError \in Errors
    BY DEF NoError, Errors, Reasons
  <1>2. error' \in [Runtime -> Errors]
    <2>1. error' = [error EXCEPT ![r] = NoError]
      BY DEF Return, Crash
    <2> QED
      BY <1>1, <2>1 DEF SinkInv, TypeOK
  <1>3. /\ phase' \in [Runtime -> Phases] /\ batch' \in [Runtime -> Seq(Evidence)]
        /\ sent' \in [Runtime -> Nat] /\ verified' \in [Runtime -> BOOLEAN]
        /\ UNCHANGED <<contract, credential, ingested>>
        /\ phase'[r] = "idle" /\ batch'[r] = <<>> /\ sent'[r] = 0
        /\ \A q \in Runtime \ {r} : Untouched(q)
    <2>1. /\ phase' = [phase EXCEPT ![r] = "idle"]
          /\ batch' = [batch EXCEPT ![r] = <<>>]
          /\ sent' = [sent EXCEPT ![r] = 0]
          /\ verified' = verified \/ verified' = [verified EXCEPT ![r] = FALSE]
          /\ UNCHANGED <<contract, credential, ingested>>
      BY DEF Return, Crash
    <2>2. phase' \in [Runtime -> Phases] /\ sent' \in [Runtime -> Nat]
      BY <2>1 DEF SinkInv, TypeOK, Phases
    <2>3. batch' \in [Runtime -> Seq(Evidence)]
      BY <2>1 DEF SinkInv, TypeOK
    <2>4. verified' \in [Runtime -> BOOLEAN]
      BY <2>1 DEF SinkInv, TypeOK
    <2>5. phase'[r] = "idle" /\ batch'[r] = <<>> /\ sent'[r] = 0
      BY <2>1 DEF SinkInv, TypeOK
    <2>6. \A q \in Runtime \ {r} : Untouched(q)
      BY <2>1 DEF SinkInv, TypeOK, Untouched
    <2> QED
      BY <2>1, <2>2, <2>3, <2>4, <2>5, <2>6
  <1>4. CallOK(r)' /\ ScreenedOK(r)'
    BY <1>3 DEF CallOK, ScreenedOK
  <1>5. ASSUME NEW q \in Runtime \ {r} PROVE CallOK(q)' /\ ScreenedOK(q)'
    BY <1>3, OtherCall DEF SinkInv
  <1> QED
    BY <1>2, <1>3, <1>4, <1>5 DEF SinkInv, TypeOK

\* A step of one call of emit.
LEMMA StepKeepsInv ==
  ASSUME SinkInv, NEW r \in Runtime, Step(r)
  PROVE  SinkInv'
  BY HandshakeKeepsInv, PostAcceptedKeepsInv, PostFailedKeepsInv DEF Step, PostFailed

LEMMA NextKeepsInv == SinkInv /\ [SinkNext]_sinkVars => SinkInv'
  <1> SUFFICES ASSUME SinkInv, [SinkNext]_sinkVars PROVE SinkInv'
    OBVIOUS
  <1>1. ASSUME NEW r \in Runtime, NEW b \in Batches, Emit(r, b) PROVE SinkInv'
    BY <1>1, EmitKeepsInv, SinkAssumption
  <1>2. ASSUME NEW r \in Runtime, Step(r) PROVE SinkInv'
    BY <1>2, StepKeepsInv
  <1>3. ASSUME NEW r \in Runtime, Return(r) \/ Crash(r) PROVE SinkInv'
    BY <1>3, CallEndsKeepsInv
  <1>4. CASE BotStep \/ UNCHANGED sinkVars
    <2>1. TypeOK'
      <3>1. UNCHANGED <<phase, batch, sent, error, verified, ingested>>
        BY <1>4 DEF BotStep, BotChangesContract, BotChangesCredential, sinkVars
      <3>2. contract' \in {"match", "skew"} /\ credential' \in {"valid", "expired"}
        BY <1>4 DEF BotStep, BotChangesContract, BotChangesCredential, sinkVars,
                    SinkInv, TypeOK
      <3> QED
        BY <3>1, <3>2 DEF SinkInv, TypeOK
    <2>2. ASSUME NEW q \in Runtime PROVE Untouched(q) /\ ingested' = ingested
      BY <1>4 DEF BotStep, BotChangesContract, BotChangesCredential, sinkVars, Untouched
    <2>3. ASSUME NEW q \in Runtime PROVE CallOK(q)' /\ ScreenedOK(q)'
      BY <2>2, OtherCall DEF SinkInv
    <2> QED
      BY <2>1, <2>3 DEF SinkInv
  <1> QED
    BY <1>1, <1>2, <1>3, <1>4 DEF SinkNext

\* emit delivers in order and stops at the first failure: in every reachable
\* state what a call counts as sent is a prefix of its batch that the Bot has
\* appended, and a call that returns has had its whole batch acknowledged.
THEOREM PrefixDelivery == SinkSpec => [](TypeOK /\ AckedPrefixIngested)
  <1>1. SinkInit => SinkInv
    BY SinkInitInv
  <1>2. SinkInv /\ [SinkNext]_sinkVars => SinkInv'
    BY NextKeepsInv
  <1>3. SinkInv => TypeOK /\ AckedPrefixIngested
    BY DEF SinkInv, CallOK, AckedPrefixIngested
  <1> QED
    BY <1>1, <1>2, <1>3, PTL DEF SinkSpec

\* Evidence reaches the Bot only out of a batch that validate_emissions and the
\* receipt check passed as a whole.
THEOREM AllOrNothing == SinkSpec => ScreenedAsAWhole
  <1> DEFINE OnlyScreened ==
        \A e \in ingested' \ ingested :
            \E r \in Runtime : /\ e \in Elements(batch[r])
                               /\ Elements(batch[r]) \cap Invalid = {}
  <1>1. SinkInv /\ [SinkNext]_sinkVars => [OnlyScreened]_sinkVars
    <2> SUFFICES ASSUME SinkInv, SinkNext, NEW e \in ingested' \ ingested
                 PROVE  \E r \in Runtime : /\ e \in Elements(batch[r])
                                           /\ Elements(batch[r]) \cap Invalid = {}
      OBVIOUS
    <2>1. PICK r \in Runtime : Step(r)
      BY DEF SinkNext, Emit, Return, Crash, BotStep, BotChangesContract, BotChangesCredential
    <2>2. phase[r] = "post" /\ e = Current(r)
      BY <2>1 DEF Step, HandshakeMatches, HandshakeMismatch, HandshakeUnreachable,
                  HandshakeRefused, PostAccepted, PostRejected, PostStrayed, PostUnanswered,
                  MayIngest
    <2>3. e \in Elements(batch[r])
      BY <2>2, CurrentIsEvidence
    <2>4. Screened(batch[r])
      BY <2>2 DEF SinkInv, ScreenedOK
    <2> QED
      BY <2>3, <2>4 DEF Screened
  <1>2. SinkInit => SinkInv
    BY SinkInitInv
  <1>3. SinkInv /\ [SinkNext]_sinkVars => SinkInv'
    BY NextKeepsInv
  <1>4. SinkInv /\ SinkInv' /\ [SinkNext]_sinkVars => [OnlyScreened]_sinkVars
    BY <1>1
  <1> QED
    BY <1>1, <1>2, <1>3, PTL DEF SinkSpec, ScreenedAsAWhole
------------------------------------------------------------------------------
(* The cursor moves past refusals only *)

\* The 4xx statuses that the policy takes for the end of an emission.
Terminal == (400..499) \ {400, 422, 429}

\* AdvanceOnlyPastRefusals for one call, with what the loop of POSTs takes from the
\* negotiation.
MovesPast(r) ==
  /\ phase[r] = "post" => verified[r]
  /\ phase[r] = "error" /\ Verdict(error[r].status, error[r].reason) = "ADVANCE"
        => /\ verified[r] /\ sent[r] < Len(batch[r])
           /\ error[r].status \in Terminal
           /\ error[r].status \in {BotReply[Current(r)], 401} \cup Strays

\* No answer and a success that is none never move the cursor; of the HTTP errors only a
\* terminal one does.
LEMMA NeverAdvances ==
  /\ \A reason : Verdict(0, reason) # "ADVANCE"
  /\ \A status \in (200..299) \ {201} : \A reason : Verdict(status, reason) # "ADVANCE"
  /\ \A status \in (200..999) \ {201} :
        Verdict(status, "gateway_rejected") = "ADVANCE" => status \in Terminal
  <1>1. \A reason : Verdict(0, reason) # "ADVANCE"
    BY DEF Verdict, Retryable
  <1>2. \A status \in (200..299) \ {201} : \A reason : Verdict(status, reason) # "ADVANCE"
    BY DEF Verdict
  <1>3. \A status \in (200..999) \ {201} :
            Verdict(status, "gateway_rejected") = "ADVANCE" => status \in Terminal
    BY DEF Verdict, SensitiveRejection, SchemaDrift, OpaqueReasons, Retryable, Terminal
  <1> QED
    BY <1>1, <1>2, <1>3

Alike(q) == Untouched(q) /\ error'[q] = error[q] /\ verified'[q] = verified[q]

\* A call that nobody touched moves past what it moved past before.
LEMMA OtherMovesPast ==
  ASSUME NEW q \in Runtime, MovesPast(q), Alike(q)
  PROVE  MovesPast(q)'
  BY DEF MovesPast, Alike, Untouched, Current

\* Outside an error there is nothing to move past.
LEMMA NoErrorMovesPast ==
  ASSUME NEW r \in Runtime, phase'[r] # "error", phase'[r] = "post" => verified'[r]
  PROVE  MovesPast(r)'
  BY DEF MovesPast

\* A failure that does not advance, or that is a terminal answer to a POST.
LEMMA FailMovesPast ==
  ASSUME TypeOK, \A q \in Runtime : MovesPast(q),
         NEW r \in Runtime, NEW status, NEW reason, Fail(r, status, reason),
         UNCHANGED verified, \A q \in Runtime \ {r} : batch'[q] = batch[q] /\ sent'[q] = sent[q],
         Verdict(status, reason) = "ADVANCE" =>
            /\ verified[r] /\ sent'[r] < Len(batch'[r])
            /\ status \in Terminal
            /\ status \in {BotReply[Current(r)'], 401} \cup Strays
  PROVE  \A q \in Runtime : MovesPast(q)'
  <1>1. error' = [error EXCEPT ![r] = [status |-> status, reason |-> reason]]
    BY DEF Fail
  <1>2. error'[r].status = status /\ error'[r].reason = reason
    BY <1>1 DEF TypeOK
  <1>3. phase'[r] = "error" /\ \A q \in Runtime \ {r} : error'[q] = error[q] /\ phase'[q] = phase[q]
    BY DEF TypeOK, Fail
  <1>4. Verdict(error[r].status, error[r].reason)' = Verdict(status, reason)
    BY <1>2 DEF Verdict, SensitiveRejection, SchemaDrift, Retryable
  <1>5. MovesPast(r)'
    BY <1>2, <1>3, <1>4 DEF MovesPast
  <1>6. ASSUME NEW q \in Runtime \ {r} PROVE MovesPast(q)'
    BY <1>3, OtherMovesPast DEF Alike, Untouched
  <1> QED
    BY <1>5, <1>6

LEMMA StepMovesPast ==
  ASSUME SinkInv, NEW r \in Runtime, Step(r), \A q \in Runtime : MovesPast(q)
  PROVE  \A q \in Runtime : MovesPast(q)'
  <1>1. TypeOK /\ CallOK(r)
    BY DEF SinkInv
  <1>2. CASE HandshakeMatches(r) \/ PostAccepted(r)
    <2>1. /\ phase'[r] # "error" /\ error' = error /\ batch' = batch
          /\ \A q \in Runtime \ {r} :
                phase'[q] = phase[q] /\ sent'[q] = sent[q] /\ verified'[q] = verified[q]
      BY <1>1, <1>2 DEF HandshakeMatches, PostAccepted, AfterHandshake, TypeOK
    <2>2. verified'[r]
      BY <1>1, <1>2 DEF HandshakeMatches, PostAccepted, MovesPast, TypeOK
    <2>3. ASSUME NEW q \in Runtime \ {r} PROVE MovesPast(q)'
      BY <2>1, OtherMovesPast DEF Alike, Untouched
    <2> QED
      BY <2>1, <2>2, <2>3, NoErrorMovesPast
  <1>3. CASE \/ HandshakeMismatch(r) \/ HandshakeUnreachable(r)
             \/ \E status \in Strays : HandshakeRefused(r, status)
    <2>1. PICK reason : Fail(r, 0, reason) /\ UNCHANGED <<batch, sent, verified>>
      BY <1>3 DEF HandshakeMismatch, HandshakeUnreachable, HandshakeRefused
    <2> QED
      BY <1>1, <2>1, NeverAdvances, FailMovesPast
  <1>4. ASSUME phase[r] = "post", NEW status, NEW reason, Fail(r, status, reason),
               UNCHANGED <<batch, sent, verified>>,
               Verdict(status, reason) = "ADVANCE" =>
                    /\ status \in Terminal
                    /\ status \in {BotReply[Current(r)], 401} \cup Strays
        PROVE  \A q \in Runtime : MovesPast(q)'
    <2>1. Current(r)' = Current(r) /\ sent'[r] < Len(batch'[r])
      BY <1>1, <1>4 DEF Current, CallOK
    <2>2. verified[r]
      BY <1>4 DEF MovesPast
    <2> QED
      BY <1>1, <1>4, <2>1, <2>2, FailMovesPast
  <1>5. CASE PostRejected(r)
    <2>1. PICK status \in {400, 401, BotReply[Current(r)]} :
            /\ Fail(r, status, "gateway_rejected") /\ status # 201
            /\ UNCHANGED <<batch, sent, verified>>
      BY <1>5 DEF PostRejected
    <2>2. Current(r) \in Evidence
      BY <1>5, CurrentIsEvidence DEF PostRejected
    <2>3. status \in (200..999) \ {201}
      <3>1. BotReply[Current(r)] \in {201} \cup 300..999
        BY <2>2, ReplyStatus
      <3> QED
        BY <2>1, <3>1
    <2>4. Verdict(status, "gateway_rejected") = "ADVANCE" => status \in Terminal
      BY <2>3, NeverAdvances
    <2>5. status \in Terminal => status \in {BotReply[Current(r)], 401} \cup Strays
      BY <2>1 DEF Terminal
    <2> QED
      BY <1>4, <1>5, <2>1, <2>4, <2>5 DEF PostRejected
  <1>6. CASE \E status \in Strays : PostStrayed(r, status)
    <2>1. PICK status \in Strays : PostStrayed(r, status)
      BY <1>6
    <2>2. status \in (200..999) \ {201}
      BY SinkAssumption
    <2>3. CASE status < 300
      BY <1>4, <2>1, <2>2, <2>3, NeverAdvances DEF PostStrayed
    <2>4. CASE ~(status < 300)
      <3>1. Fail(r, status, "gateway_rejected") /\ phase[r] = "post"
        BY <2>1, <2>4 DEF PostStrayed
      <3>2. Verdict(status, "gateway_rejected") = "ADVANCE" => status \in Terminal
        BY <2>2, NeverAdvances
      <3> QED
        BY <1>4, <2>1, <3>1, <3>2 DEF PostStrayed
    <2> QED
      BY <2>3, <2>4
  <1>7. CASE \E reason \in {"transport_error", "unexpected_error"} : PostUnanswered(r, reason)
    <2>1. PICK reason \in {"transport_error", "unexpected_error"} : PostUnanswered(r, reason)
      BY <1>7
    <2> QED
      BY <1>4, <2>1, NeverAdvances DEF PostUnanswered
  <1> QED
    BY <1>2, <1>3, <1>5, <1>6, <1>7 DEF Step

LEMMA NextMovesPast ==
  ASSUME SinkInv, [SinkNext]_sinkVars, \A q \in Runtime : MovesPast(q)
  PROVE  \A q \in Runtime : MovesPast(q)'
  <1>1. TypeOK
    BY DEF SinkInv
  <1>2. ASSUME NEW r \in Runtime, NEW b \in Batches, Emit(r, b)
        PROVE  \A q \in Runtime : MovesPast(q)'
    <2>1. UNCHANGED verified /\ \A q \in Runtime \ {r} : batch'[q] = batch[q] /\ sent'[q] = sent[q]
      BY <1>1, <1>2 DEF Emit, TypeOK
    <2>2. CASE Fail(r, 0, "protocol_mismatch")
      BY <1>1, <2>1, <2>2, NeverAdvances, FailMovesPast
    <2>3. CASE /\ error' = error
               /\ \/ phase' = [phase EXCEPT ![r] = "gated"]
                  \/ phase' = [phase EXCEPT ![r] = AfterScreening(r, b)]
      <3>1. /\ phase'[r] # "error" /\ (phase'[r] = "post" => verified[r])
            /\ \A q \in Runtime \ {r} : phase'[q] = phase[q]
        BY <1>1, <2>3 DEF TypeOK, AfterScreening, AfterHandshake
      <3>2. ASSUME NEW q \in Runtime \ {r} PROVE MovesPast(q)'
        BY <2>1, <2>3, <3>1, OtherMovesPast DEF Alike, Untouched
      <3>3. phase'[r] = "post" => verified'[r]
        BY <2>1, <3>1
      <3> QED
        BY <3>1, <3>2, <3>3, NoErrorMovesPast
    <2> QED
      BY <1>2, <2>2, <2>3 DEF Emit
  <1>3. ASSUME NEW r \in Runtime, Return(r) \/ Crash(r)
        PROVE  \A q \in Runtime : MovesPast(q)'
    <2>1. phase'[r] = "idle" /\ \A q \in Runtime \ {r} : Alike(q)
      BY <1>1, <1>3 DEF Return, Crash, TypeOK, Alike, Untouched
    <2>2. ASSUME NEW q \in Runtime \ {r} PROVE MovesPast(q)'
      BY <2>1, OtherMovesPast
    <2> QED
      BY <2>1, <2>2, NoErrorMovesPast
  <1>4. CASE BotStep \/ UNCHANGED sinkVars
    <2>1. ASSUME NEW q \in Runtime PROVE Alike(q)
      BY <1>4 DEF BotStep, BotChangesContract, BotChangesCredential, sinkVars, Alike, Untouched
    <2> QED
      BY <2>1, OtherMovesPast
  <1> QED
    BY <1>2, <1>3, <1>4, StepMovesPast DEF SinkNext

\* Whatever a POST is answered with, by the Bot or by anything on the way, the policy
\* moves the cursor past an emission only after a successful handshake and on a terminal
\* 4xx, which is the Bot's verdict on that emission unless it comes whatever is posted.
THEOREM MovesPastRefusals == SinkSpec => []AdvanceOnlyPastRefusals
  <1> DEFINE AllMovePast == \A q \in Runtime : MovesPast(q)
  <1>1. SinkInit => SinkInv /\ AllMovePast
    BY SinkInitInv DEF SinkInit, MovesPast
  <1>2. SinkInv /\ AllMovePast /\ [SinkNext]_sinkVars => SinkInv' /\ AllMovePast'
    BY NextKeepsInv, NextMovesPast
  <1>3. AllMovePast => AdvanceOnlyPastRefusals
    BY DEF MovesPast, AdvanceOnlyPastRefusals, Terminal
  <1> HIDE DEF AllMovePast
  <1> QED
    BY <1>1, <1>2, <1>3, PTL DEF SinkSpec
==============================================================================
