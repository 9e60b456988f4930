-------------------------- MODULE Operations_proofs --------------------------
(***************************************************************************)
(* The properties of the run of the operations, each from what the         *)
(* operation does on any input: of the emission side in Emission_proofs,   *)
(* of the others here.  A property follows in two steps: the inputs of the *)
(* cases are inputs (...Are), and what is done holds what the call of that *)
(* input returned (Called).  Only the reader of manifests keeps anything   *)
(* from step to step, and has an inductive invariant (ManifestInv).        *)
(***************************************************************************)
EXTENDS MCOperations, Emission_proofs, TLAPS

(* A behaviour is one call: what is done tells which. *)

\* What a call leaves in done.
LEMMA DoneIs ==
  ASSUME NEW kind, NEW in, NEW out, Does(kind, in, out)
  PROVE  done'.kind = kind /\ done'.in = in /\ done'.out = out
  BY DEF Does

\* What a file that is half read leaves in done.
LEMMA HalfwayIs ==
  ASSUME NEW lines, NEW at, NEW state, NEW d, d = Halfway(lines, at, state)
  PROVE  d.kind = "reading" /\ d.in = lines /\ d.at = at /\ d.state = state
  BY DEF Halfway

\* What done holds after a step tells which call the step was.
LEMMA Called ==
  ASSUME OperationNext
  PROVE  /\ done'.kind = "text" => RedactText
         /\ done'.kind = "batch" => NormalizeBatch
         /\ done'.kind = "advise" => Advise
         /\ done'.kind = "grade" => Grade
         /\ done'.kind = "verdict" => ResolveCursor
         /\ done'.kind = "discover" => DiscoverOne
         /\ done'.kind = "stub" => AskStub
         /\ done'.kind = "run" => RunConnector
         /\ done'.kind = "token" => ResolveTokens
         /\ done'.kind = "mods" => RunMods
         /\ done'.kind = "artifact" => RunOneMod
         /\ done'.kind = "reading" => LoadManifest \/ ReadManifestLine
         /\ done'.kind = "manifest" => BuildManifest
         /\ done'.kind = "trace" => TraceOne
         /\ done'.kind = "rows" => DeliverRows
  <1>1. RedactText => done'.kind = "text"
    BY DoneIs DEF RedactText
  <1>2. NormalizeBatch => done'.kind = "batch"
    BY DoneIs DEF NormalizeBatch
  <1>3. Advise => done'.kind = "advise"
    BY DoneIs DEF Advise
  <1>4. TraceOne => done'.kind = "trace"
    BY DoneIs DEF TraceOne
  <1>5. Grade => done'.kind = "grade"
    BY DoneIs DEF Grade
  <1>6. ResolveCursor => done'.kind = "verdict"
    BY DoneIs DEF ResolveCursor
  <1>7. DiscoverOne => done'.kind = "discover"
    BY DoneIs DEF DiscoverOne
  <1>8. AskStub => done'.kind = "stub"
    BY DoneIs DEF AskStub
  <1>9. RunConnector => done'.kind = "run"
    BY DoneIs DEF RunConnector
  <1>10. ResolveTokens => done'.kind = "token"
    BY DoneIs DEF ResolveTokens
  <1>11. RunMods => done'.kind = "mods"
    BY DoneIs DEF RunMods
  <1>12. RunOneMod => done'.kind = "artifact"
    BY DoneIs DEF RunOneMod
  <1>13. LoadManifest \/ ReadManifestLine => done'.kind = "reading"
    BY HalfwayIs DEF LoadManifest, ReadManifestLine
  <1>15. BuildManifest => done'.kind = "manifest"
    BY DoneIs DEF BuildManifest
  <1>14. DeliverRows => done'.kind = "rows"
    BY DoneIs DEF DeliverRows
  <1> QED
    BY <1>1, <1>2, <1>3, <1>4, <1>5, <1>6, <1>7, <1>8, <1>9, <1>10, <1>11, <1>12, <1>13, <1>14, <1>15
    DEF OperationNext

------------------------------------------------------------------------------
(* The cursor policy *)

\* resolve_cursor_action fails closed for every integer status and any reason at all:
\* only an acceptance or a refusal with a cause of its own moves the cursor, systemic
\* causes quarantine, and each verdict that is not a plain one has its label.
THEOREM PolicyFailsClosed ==
  ASSUME NEW status \in Int, NEW reason
  PROVE  Policy!ClosedTo(status, reason, Policy!ResolveCursorAction(status, reason))
  <1> DEFINE action == Policy!ResolveCursorAction(status, reason)
             systemic == reason \in Policy!SensitiveReasons \cup Policy!SchemaDriftReasons
             opaque == reason \in Policy!OpaqueReasons /\ status \in {400, 422}
  <1>1. action.verdict = Policy!Verdict(status, reason)
    BY DEF Policy!ResolveCursorAction
  <1>2. (Policy!SensitiveRejection(status, reason) \/ Policy!SchemaDrift(status, reason))
            <=> systemic \/ opaque
    BY DEF Policy!SensitiveRejection, Policy!SchemaDrift
  <1>3. action.verdict = "ADVANCE" <=>
            status = 201 \/ (status \in (400..499) \ {429} /\ ~systemic /\ ~opaque)
    BY <1>1, <1>2 DEF Policy!Verdict, Policy!Retryable
  <1>4. status # 201 /\ (systemic \/ opaque) => action.verdict = "QUARANTINE"
    BY <1>1, <1>2 DEF Policy!Verdict
  <1>5. /\ Policy!TerminalReason(status) # Policy!None
        /\ Policy!QuarantineReason(status, reason) # Policy!None
    BY DEF Policy!TerminalReason, Policy!QuarantineReason, Policy!None
  <1>6. /\ action.terminal # Policy!None <=> action.verdict = "ADVANCE" /\ status # 201
        /\ action.quarantine # Policy!None <=> action.verdict = "QUARANTINE"
    BY <1>1, <1>5 DEF Policy!ResolveCursorAction
  <1> QED
    BY <1>3, <1>4, <1>6 DEF Policy!ClosedTo

\* Nothing moves the cursor but an acceptance and a refusal with a cause of its own
\* (resolve_cursor_action): of any status, whatever the reason.
THEOREM PolicyIsClosed == OperationSpec => []FailsClosed
  <1>1. OperationInit => FailsClosed
    BY DEF OperationInit, FailsClosed
  <1>2. FailsClosed /\ [OperationNext]_done => FailsClosed'
    <2> SUFFICES ASSUME FailsClosed, [OperationNext]_done, done'.kind = "verdict"
                 PROVE  Policy!ClosedTo(done'.in[1], done'.in[2], done'.out)
      BY DEF FailsClosed
    <2>1. CASE OperationNext
      <3>1. PICK status \in Statuses, reason \in ReasonInputs :
                Does("verdict", <<status, reason>>, Policy!ResolveCursorAction(status, reason))
        BY <2>1, Called DEF ResolveCursor
      <3>2. status \in Int
        BY DEF Statuses
      <3>3. /\ done'.in[1] = status /\ done'.in[2] = reason
            /\ done'.out = Policy!ResolveCursorAction(status, reason)
        BY <3>1 DEF Does
      <3> QED
        BY <3>2, <3>3, PolicyFailsClosed
    <2>2. CASE UNCHANGED done
      BY <2>2 DEF FailsClosed
    <2> QED
      BY <2>1, <2>2
  <1> QED
    BY <1>1, <1>2, PTL DEF OperationSpec

------------------------------------------------------------------------------
(* The token cache *)

\* RefreshTokenSecretResolver.resolve, from any cache: a token is the cache's while it is
\* fresh, else a minted one, and nothing is kept of a mint that fails.
ResolvesAs(cache, now, answer, result) ==
    /\ result.ok \in BOOLEAN /\ result.minted \in BOOLEAN
    /\ result.minted => result.ok /\ result.cache.expiry = now + answer.ttl - 60
    /\ ~result.minted => result.cache = cache
    /\ result.ok /\ ~result.minted => cache.token # "" /\ now < cache.expiry
    /\ Local!Mint(answer) = "" => result.ok

\* ResolvesAs, of one call of the resolver.
LEMMA Resolving ==
  ASSUME NEW cache, NEW now \in Int, NEW answer, answer.ttl \in Int
  PROVE  ResolvesAs(cache, now, answer, Local!ResolveToken(cache, now, answer))
  BY DEF ResolvesAs, Local!ResolveToken, Local!Skew

\* Three calls at any moments, whatever the provider answers: a token from the cache is
\* the last one minted, and within its life.
THEOREM AnyThreeCalls ==
  ASSUME NEW r, r.moments \in [1..3 -> Int],
         \A i \in 1..3 : r.answers[i].ttl \in Int
  PROVE  Outlives(r, Resolved(r))
  <1> DEFINE call(last, i) == Local!ResolveToken(last.cache, r.moments[i], r.answers[i])
             first == call(NoToken, 1)
             second == call(first, 2)
             third == call(second, 3)
             results == <<first, second, third>>
  <1>1. Resolved(r) = results
    BY DEF Resolved
  <1>2. results[1] = first /\ results[2] = second /\ results[3] = third
    OBVIOUS
  <1>3. \A i \in {1, 2, 3} : r.moments[i] \in Int /\ r.answers[i].ttl \in Int
    OBVIOUS
  <1>4. ResolvesAs(NoToken.cache, r.moments[1], r.answers[1], first)
    BY <1>3, Resolving
  <1>5. ResolvesAs(first.cache, r.moments[2], r.answers[2], second)
    <2> HIDE DEF first
    <2> QED
      BY <1>3, Resolving
  <1>6. ResolvesAs(second.cache, r.moments[3], r.answers[3], third)
    <2> HIDE DEF second
    <2> QED
      BY <1>3, Resolving
  <1> HIDE DEF first, second, third, results
  <1>7. NoToken.cache.token = ""
    BY DEF NoToken
  <1>8. /\ first.minted => first.cache.expiry = r.moments[1] + r.answers[1].ttl - 60
        /\ ~first.minted => first.cache.token = ""
    BY <1>4, <1>7 DEF ResolvesAs
  <1>9. /\ second.ok /\ ~second.minted =>
             first.minted /\ r.moments[2] < r.moments[1] + r.answers[1].ttl - 60
        /\ second.minted => second.cache.expiry = r.moments[2] + r.answers[2].ttl - 60
        /\ ~second.minted => second.cache = first.cache
    BY <1>5, <1>8 DEF ResolvesAs
  <1>10. third.ok /\ ~third.minted =>
            \/ second.minted /\ r.moments[3] < r.moments[2] + r.answers[2].ttl - 60
            \/ /\ ~second.minted /\ first.minted
               /\ r.moments[3] < r.moments[1] + r.answers[1].ttl - 60
    BY <1>6, <1>8, <1>9 DEF ResolvesAs
  <1>11. first.minted \in BOOLEAN /\ second.minted \in BOOLEAN /\ third.minted \in BOOLEAN
    BY <1>4, <1>5, <1>6 DEF ResolvesAs
  <1>12. ASSUME NEW i \in 2..3, results[i].ok, ~results[i].minted
         PROVE  \E j \in 1..(i - 1) : /\ results[j].minted
                                      /\ \A k \in (j + 1)..i : ~results[k].minted
                                      /\ r.moments[i] < r.moments[j] + r.answers[j].ttl
    <2>1. CASE i = 2
      <3>1. second.ok /\ ~second.minted
        BY <1>2, <1>12, <2>1
      <3>2. first.minted /\ r.moments[2] < r.moments[1] + r.answers[1].ttl
        BY <1>3, <1>9, <3>1
      <3>3. \A k \in (1 + 1)..2 : ~results[k].minted
        BY <1>12, <2>1
      <3> QED
        BY <1>2, <2>1, <3>2, <3>3
    <2>2. CASE i = 3
      <3>1. third.ok /\ ~third.minted
        BY <1>2, <1>12, <2>2
      <3>2. CASE second.minted
        <4>1. r.moments[3] < r.moments[2] + r.answers[2].ttl
          BY <1>3, <1>10, <3>1, <3>2
        <4>2. \A k \in (2 + 1)..3 : ~results[k].minted
          BY <1>12, <2>2
        <4> QED
          BY <1>2, <2>2, <3>2, <4>1, <4>2
      <3>3. CASE ~second.minted
        <4>1. first.minted /\ r.moments[3] < r.moments[1] + r.answers[1].ttl
          BY <1>3, <1>10, <3>1, <3>3
        <4>2. \A k \in (1 + 1)..3 : k = 2 \/ k = 3
          OBVIOUS
        <4>3. \A k \in (1 + 1)..3 : ~results[k].minted
          BY <1>2, <3>1, <3>3, <4>2
        <4> QED
          BY <1>2, <2>2, <4>1, <4>3
      <3> QED
        BY <3>2, <3>3
    <2> QED
      BY <2>1, <2>2
  <1>13. ASSUME NEW i \in 1..3, Local!Mint(r.answers[i]) = "" PROVE results[i].ok
    <2>1. CASE i = 1
      BY <1>2, <1>4, <1>13, <2>1 DEF ResolvesAs
    <2>2. CASE i = 2
      BY <1>2, <1>5, <1>13, <2>2 DEF ResolvesAs
    <2>3. CASE i = 3
      BY <1>2, <1>6, <1>13, <2>3 DEF ResolvesAs
    <2> QED
      BY <2>1, <2>2, <2>3
  <1>14. ASSUME NEW i \in 2..3, ~results[i].ok PROVE results[i].cache = results[i - 1].cache
    <2>1. CASE i = 2
      <3>1. ~second.ok
        BY <1>2, <1>14, <2>1
      <3>2. second.cache = first.cache
        BY <1>5, <3>1 DEF ResolvesAs
      <3> QED
        BY <1>2, <2>1, <3>2
    <2>2. CASE i = 3
      <3>1. ~third.ok
        BY <1>2, <1>14, <2>2
      <3>2. third.cache = second.cache
        BY <1>6, <3>1 DEF ResolvesAs
      <3> QED
        BY <1>2, <2>2, <3>2
    <2> QED
      BY <2>1, <2>2
  <1> QED
    BY <1>1, <1>12, <1>13, <1>14 DEF Outlives

\* No token outlives its use (RefreshTokenSecretResolver), whatever lifetimes the
\* provider states.
THEOREM NoTokenOutlivesItsUse == OperationSpec => []TokenOutlivesItsUse
  <1>1. OperationInit => TokenOutlivesItsUse
    BY DEF OperationInit, TokenOutlivesItsUse
  <1>2. TokenOutlivesItsUse /\ [OperationNext]_done => TokenOutlivesItsUse'
    <2> SUFFICES ASSUME TokenOutlivesItsUse, [OperationNext]_done, done'.kind = "token"
                 PROVE  Outlives(done'.in, done'.out)
      BY DEF TokenOutlivesItsUse
    <2>1. CASE OperationNext
      <3>1. PICK r \in Resolves : Does("token", r, Resolved(r))
        BY <2>1, Called DEF ResolveTokens
      <3>2. r.moments \in [1..3 -> Int] /\ \A i \in 1..3 : r.answers[i].ttl \in Int
        <4>1. \A answer \in Answers \cup {GoodAnswer} : answer.ttl \in Int
          <5> DEFINE lasting(ttl) == [GoodAnswer EXCEPT !.ttl = ttl]
                     Lasting == {lasting(ttl) : ttl \in {0, 30, 60, 61, 90, 3600}}
                     empty == [GoodAnswer EXCEPT !.token = ""]
                     raising == [GoodAnswer EXCEPT !.raises = TRUE]
          <5>1. \A ttl : lasting(ttl).ttl = ttl
            BY DEF GoodAnswer
          <5>2. GoodAnswer.ttl = 90 /\ BadAnswer.ttl = 90 /\ empty.ttl = 90 /\ raising.ttl = 90
            BY DEF GoodAnswer, BadAnswer
          <5>3. Answers = Lasting \cup {BadAnswer, empty, raising}
            BY DEF Answers
          <5> HIDE DEF lasting, empty, raising
          <5>4. \A answer \in Lasting : answer.ttl \in Int
            BY <5>1
          <5> HIDE DEF Lasting
          <5> QED
            BY <5>2, <5>3, <5>4
        <4>2. Moments \subseteq Int /\ {0, 1, 30, 90} \subseteq Int
          BY DEF Moments
        <4>3. \A i \in 1..3 : r.answers[i] \in Answers \cup {GoodAnswer}
          BY <3>1 DEF Resolves
        <4>4. \E second, third \in Int : r.moments = <<0, second, third>>
          BY <3>1, <4>2 DEF Resolves
        <4> QED
          BY <4>1, <4>3, <4>4
      <3> QED
        BY <3>1, <3>2, AnyThreeCalls, DoneIs
    <2>2. CASE UNCHANGED done
      BY <2>2 DEF TokenOutlivesItsUse
    <2> QED
      BY <2>1, <2>2
  <1> QED
    BY <1>1, <1>2, PTL DEF OperationSpec

------------------------------------------------------------------------------
(* The gate of a run *)

\* What fails in the token endpoint, the header or the endpoint has names of its own.
LEMMA FailuresApart ==
  ASSUME NEW resolved, NEW answer, NEW c, NEW runtime,
         resolved.failure = "" \/ resolved.failure = Local!Mint(answer)
  PROVE  /\ Local!SecretFailure(resolved) # "bad_runtime_config"
         /\ Local!SecretFailure(resolved) = "secret_unresolved" =>
                resolved.failure = "" /\ resolved.secret = ""
         /\ Local!SecretFailure(resolved) = "" =>
                resolved.failure = "" /\ resolved.secret \notin {"", "malformed"}
         /\ Local!TargetRefusal(c, runtime) \notin {"bad_runtime_config", "secret_unresolved"}
  <1>1. Local!Mint(answer) \in {"", "transport_error", "refresh_failed", "oversized_body",
                               "unparseable_body", "missing_token"}
    BY DEF Local!Mint, Local!TokenFailure
  <1>2. resolved.failure \notin {"bad_runtime_config", "secret_unresolved"}
    BY <1>1
  <1>3. /\ Local!HeaderFailure(resolved.secret) \notin {"bad_runtime_config", "secret_unresolved"}
        /\ Local!HeaderFailure(resolved.secret) = "" => resolved.secret # "malformed"
    BY DEF Local!HeaderFailure
  <1>4. /\ resolved.failure # "" => Local!SecretFailure(resolved) = resolved.failure
        /\ resolved.failure = "" /\ resolved.secret = "" =>
                Local!SecretFailure(resolved) = "secret_unresolved"
        /\ resolved.failure = "" /\ resolved.secret # "" =>
                Local!SecretFailure(resolved) = Local!HeaderFailure(resolved.secret)
    BY DEF Local!SecretFailure
  <1>5. Local!TargetRefusal(c, runtime) \notin {"bad_runtime_config", "secret_unresolved"}
    BY DEF Local!TargetRefusal, Local!HostRefusal, Local!EndpointRefusal
  <1> QED
    BY <1>2, <1>3, <1>4, <1>5

\* A minted token is not empty.
LEMMA MintedToken ==
  ASSUME NEW answer, Local!Mint(answer) = ""
  PROVE  answer.token # ""
  BY DEF Local!Mint, Local!TokenFailure

\* What a runner is built from: the one credential of its descriptor, that its builder
\* reads, and the values of its descriptor, that its builder takes.
LEMMA RunnerDeclares ==
  ASSUME NEW c \in Local!Runners
  PROVE  /\ c \in DOMAIN Local!Descriptors
         /\ c # "google_drive" => Local!Builders[c].key \in {<<c>>, <<>>}
         /\ c = "google_drive" \/ Local!Builders[c].key # <<>> =>
                \E cred \in Local!CredentialsOf(c) :
                    cred.key = <<c>> /\ cred.required /\ Local!Serves(cred, "active")
         /\ c # "google_drive" =>
                \A value \in Local!Descriptors[c].runtime :
                    value \in Local!Builders[c].takes \/ (c = "anthropic_admin" /\ value = "bucket_width")
  <1>1. c \in {"linear", "granola", "anthropic_admin", "openai_admin", "copilot", "cursor",
              "devin", "servicenow", "mcp_registry", "google_drive"}
    BY DEF Local!Runners, Local!Builders
  <1>2. CASE c = "linear"
    BY <1>2 DEF Local!Descriptors, Local!Builders, Local!Builder, Local!Linear, Local!Credential,
                Local!CredentialsOf, Local!Serves, Local!Range
  <1>3. CASE c = "granola"
    BY <1>3 DEF Local!Descriptors, Local!Builders, Local!Builder, Local!Granola, Local!Credential,
                Local!CredentialsOf, Local!Serves, Local!Range
  <1>4. CASE c = "anthropic_admin"
    BY <1>4 DEF Local!Descriptors, Local!Builders, Local!Builder, Local!AnthropicAdmin, Local!Credential,
                Local!CredentialsOf, Local!Serves, Local!Range
  <1>5. CASE c = "openai_admin"
    BY <1>5 DEF Local!Descriptors, Local!Builders, Local!Builder, Local!OpenAIAdmin, Local!Credential,
                Local!CredentialsOf, Local!Serves, Local!Range
  <1>6. CASE c = "copilot"
    BY <1>6 DEF Local!Descriptors, Local!Builders, Local!Builder, Local!Copilot, Local!Credential,
                Local!CredentialsOf, Local!Serves, Local!Range
  <1>7. CASE c = "cursor"
    BY <1>7 DEF Local!Descriptors, Local!Builders, Local!Builder, Local!Cursor, Local!Credential,
                Local!CredentialsOf, Local!Serves, Local!Range
  <1>8. CASE c = "devin"
    BY <1>8 DEF Local!Descriptors, Local!Builders, Local!Builder, Local!Devin, Local!Credential,
                Local!CredentialsOf, Local!Serves, Local!Range
  <1>9. CASE c = "servicenow"
    BY <1>9 DEF Local!Descriptors, Local!Builders, Local!Builder, Local!ServiceNow, Local!Credential,
                Local!CredentialsOf, Local!Serves, Local!Range
  <1>10. CASE c = "mcp_registry"
    BY <1>10 DEF Local!Descriptors, Local!Builders, Local!Builder, Local!McpRegistry, Local!Credential,
                Local!CredentialsOf, Local!Serves, Local!Range
  <1>11. CASE c = "google_drive"
    BY <1>11 DEF Local!Descriptors, Local!Builders, Local!Builder, Local!GoogleDrive, Local!Credential,
                Local!CredentialsOf, Local!Serves, Local!Range
  <1> QED
    BY <1>1, <1>2, <1>3, <1>4, <1>5, <1>6, <1>7, <1>8, <1>9, <1>10, <1>11

\* The key of a runner's credential, which is its name.
LEMMA RunnerKey ==
  ASSUME NEW c \in Local!Runners
  PROVE  LET key == IF c = "google_drive" THEN <<c>> ELSE Local!Builders[c].key IN
         /\ c = "mcp_registry" <=> key = <<>>
         /\ c # "mcp_registry" => key = <<c>>
         /\ key = <<"google_drive">> <=> c = "google_drive"
  <1>1. Local!Builders["mcp_registry"].key = <<>>
    BY DEF Local!Builders, Local!Builder
  <1>2. c \notin {"mcp_registry", "google_drive"} => Local!Builders[c].key = <<c>>
    BY DEF Local!Runners, Local!Builders, Local!Builder
  <1> QED
    BY <1>1, <1>2

\* The one credential a token is minted from is google_drive's.
LEMMA OnlyDriveRefreshes ==
  ASSUME NEW c \in DOMAIN Local!Descriptors, NEW cred \in Local!CredentialsOf(c), cred.refreshed
  PROVE  c = "google_drive" /\ cred = Local!GoogleDrive.credentials[1]
  <1>1. c \in {"linear", "granola", "anthropic_admin", "openai_admin", "copilot", "cursor",
              "devin", "servicenow", "mcp_registry", "google_drive"}
    BY DEF Local!Descriptors
  <1>2. CASE c = "linear"
    BY <1>2 DEF Local!Descriptors, Local!Linear, Local!Credential, Local!CredentialsOf, Local!Range
  <1>3. CASE c = "granola"
    BY <1>3 DEF Local!Descriptors, Local!Granola, Local!Credential, Local!CredentialsOf, Local!Range
  <1>4. CASE c = "anthropic_admin"
    BY <1>4 DEF Local!Descriptors, Local!AnthropicAdmin, Local!Credential, Local!CredentialsOf, Local!Range
  <1>5. CASE c = "openai_admin"
    BY <1>5 DEF Local!Descriptors, Local!OpenAIAdmin, Local!Credential, Local!CredentialsOf, Local!Range
  <1>6. CASE c = "copilot"
    BY <1>6 DEF Local!Descriptors, Local!Copilot, Local!Credential, Local!CredentialsOf, Local!Range
  <1>7. CASE c = "cursor"
    BY <1>7 DEF Local!Descriptors, Local!Cursor, Local!Credential, Local!CredentialsOf, Local!Range
  <1>8. CASE c = "devin"
    BY <1>8 DEF Local!Descriptors, Local!Devin, Local!Credential, Local!CredentialsOf, Local!Range
  <1>9. CASE c = "servicenow"
    BY <1>9 DEF Local!Descriptors, Local!ServiceNow, Local!Credential, Local!CredentialsOf, Local!Range
  <1>10. CASE c = "mcp_registry"
    BY <1>10 DEF Local!Descriptors, Local!McpRegistry, Local!Credential, Local!CredentialsOf, Local!Range
  <1>11. CASE c = "google_drive"
    BY <1>11 DEF Local!Descriptors, Local!GoogleDrive, Local!Credential, Local!CredentialsOf, Local!Range
  <1> QED
    BY <1>1, <1>2, <1>3, <1>4, <1>5, <1>6, <1>7, <1>8, <1>9, <1>10, <1>11

\* The triple of google_drive, which is the only one.
LEMMA DriveTriple ==
  /\ Local!CredentialsOf("google_drive") = {Local!GoogleDrive.credentials[1]}
  /\ Local!GoogleDrive.credentials[1].key = <<"google_drive">>
  /\ Local!GoogleDrive.credentials[1].refreshed
  /\ Local!AuxKeys(Local!GoogleDrive.credentials[1]) = Triple
  /\ "google_drive" \in DOMAIN Local!Descriptors
  <1>1. Local!Descriptors["google_drive"] = Local!GoogleDrive /\ "google_drive" \in DOMAIN Local!Descriptors
    BY DEF Local!Descriptors
  <1>2. /\ Local!GoogleDrive.credentials = <<Local!GoogleDrive.credentials[1]>>
        /\ Local!GoogleDrive.credentials[1].key = <<"google_drive">>
        /\ Local!GoogleDrive.credentials[1].refreshed
    BY DEF Local!GoogleDrive, Local!Credential
  <1>3. \A x : Local!Range(<<x>>) = {x}
    BY DEF Local!Range
  <1> QED
    BY <1>1, <1>2, <1>3 DEF Local!CredentialsOf, Triple

\* A configuration with all three parts of it.
Renewed(blocks, env) ==
    "google_drive" \in DOMAIN blocks /\ \A key \in Triple : Local!Resolve(blocks, env, key) # ""

\* build_resolver makes a resolver of the triple, if it is whole, and of nothing else.
LEMMA OnlyTheTriple ==
  ASSUME NEW blocks, NEW env
  PROVE  /\ \A c \in DOMAIN blocks \cap DOMAIN Local!Descriptors : \A cred \in Local!CredentialsOf(c) :
                Local!Durable(blocks, env, cred) =>
                    cred = Local!GoogleDrive.credentials[1] /\ Renewed(blocks, env)
         /\ Renewed(blocks, env) <=>
                /\ "google_drive" \in DOMAIN blocks
                /\ Local!Durable(blocks, env, Local!GoogleDrive.credentials[1])
  <1>1. Local!Durable(blocks, env, Local!GoogleDrive.credentials[1]) <=>
            \A key \in Triple : Local!Resolve(blocks, env, key) # ""
    BY DriveTriple DEF Local!Durable
  <1>2. ASSUME NEW c \in DOMAIN blocks \cap DOMAIN Local!Descriptors, NEW cred \in Local!CredentialsOf(c),
               Local!Durable(blocks, env, cred)
        PROVE  cred = Local!GoogleDrive.credentials[1] /\ Renewed(blocks, env)
    <2>1. cred.refreshed
      BY <1>2 DEF Local!Durable
    <2>2. c = "google_drive" /\ cred = Local!GoogleDrive.credentials[1]
      BY <2>1, OnlyDriveRefreshes
    <2> QED
      BY <1>1, <1>2, <2>2 DEF Renewed
  <1> QED
    BY <1>1, <1>2 DEF Renewed

\* A triple with a control character in it, in words of the file and the environment.
LEMMA PoisonIsTheTriples ==
  ASSUME NEW blocks, NEW env
  PROVE  Local!Poisoned(blocks, env) <=>
            Renewed(blocks, env) /\ \E key \in Triple : Local!Resolve(blocks, env, key) = "malformed"
  <1>1. ASSUME Local!Poisoned(blocks, env)
        PROVE  Renewed(blocks, env) /\ \E key \in Triple : Local!Resolve(blocks, env, key) = "malformed"
    <2>1. PICK c \in DOMAIN blocks \cap DOMAIN Local!Descriptors : \E cred \in Local!CredentialsOf(c) :
              /\ Local!Durable(blocks, env, cred)
              /\ \E key \in Local!AuxKeys(cred) : Local!Resolve(blocks, env, key) = "malformed"
      BY <1>1 DEF Local!Poisoned
    <2> QED
      BY <2>1, OnlyTheTriple, DriveTriple
  <1>2. ASSUME Renewed(blocks, env), NEW key \in Triple, Local!Resolve(blocks, env, key) = "malformed"
        PROVE  Local!Poisoned(blocks, env)
    BY <1>2, OnlyTheTriple, DriveTriple DEF Local!Poisoned
  <1> QED
    BY <1>1, <1>2

\* What the resolver gives for a key: nothing is asked for, a token is minted, or the
\* secret of the file or the environment.
ResolvedAs(resolved, blocks, env, key, answer) ==
    /\ key = <<>> => resolved.failure = "" /\ resolved.secret = "public"
    /\ key = <<"google_drive">> /\ Renewed(blocks, env) =>
          /\ resolved.failure = Local!Mint(answer)
          /\ resolved.failure = "" => resolved.secret = answer.token
    /\ key # <<>> /\ ~(key = <<"google_drive">> /\ Renewed(blocks, env)) =>
          resolved.failure = "" /\ resolved.secret = Local!Resolve(blocks, env, key)

\* ResolvedAs, of the resolver of any configuration.
LEMMA ResolvedIs ==
  ASSUME NEW blocks, NEW env, NEW key, NEW answer
  PROVE  ResolvedAs(Local!ResolvedSecret(blocks, env, key, answer), blocks, env, key, answer)
  <1> DEFINE durable == \E c \in DOMAIN blocks \cap DOMAIN Local!Descriptors :
                            \E cred \in Local!CredentialsOf(c) :
                                cred.key = key /\ Local!Durable(blocks, env, cred)
  <1>1. durable <=> key = <<"google_drive">> /\ Renewed(blocks, env)
    <2>1. durable => key = <<"google_drive">> /\ Renewed(blocks, env)
      BY OnlyTheTriple, DriveTriple
    <2>2. key = <<"google_drive">> /\ Renewed(blocks, env) => durable
      BY OnlyTheTriple, DriveTriple
    <2> QED
      BY <2>1, <2>2
  <1> DEFINE resolved == Local!ResolvedSecret(blocks, env, key, answer)
  <1>2. /\ key = <<>> => resolved.failure = "" /\ resolved.secret = "public"
        /\ key # <<>> /\ ~durable =>
               resolved.failure = "" /\ resolved.secret = Local!Resolve(blocks, env, key)
        /\ key # <<>> /\ durable =>
               /\ resolved.failure = Local!Mint(answer)
               /\ resolved.failure = "" => resolved.secret = answer.token
    BY DEF Local!ResolvedSecret
  <1>3. <<"google_drive">> # <<>>
    OBVIOUS
  <1> HIDE DEF durable, resolved
  <1>4. ResolvedAs(resolved, blocks, env, key, answer)
    BY <1>1, <1>2, <1>3 DEF ResolvedAs
  <1> QED
    BY <1>4 DEF resolved

\* What comes of the headers: nothing, if there is a secret and no control character in it.
LEMMA SecretIs ==
  ASSUME NEW resolved
  PROVE  Local!SecretFailure(resolved) = "" <=>
            resolved.failure = "" /\ resolved.secret \notin {"", "malformed"}
  BY DEF Local!SecretFailure, Local!HeaderFailure

\* A builder fails at nothing but its arguments, its secret and its endpoint.
LEMMA BuildsIf ==
  ASSUME NEW c, NEW resolved, NEW runtime
  PROVE  Local!BuildFailure(c, resolved, runtime) = "" <=>
            /\ Local!Builders[c].needs \subseteq DOMAIN runtime
            /\ DOMAIN runtime \subseteq Local!Builders[c].takes
            /\ Local!TargetRefusal(c, runtime) = ""
            /\ Local!SecretFailure(resolved) = ""
  <1> DEFINE argued == /\ Local!Builders[c].needs \subseteq DOMAIN runtime
                       /\ DOMAIN runtime \subseteq Local!Builders[c].takes
             bare == resolved.failure # "" \/ resolved.secret = ""
             built == Local!BuildFailure(c, resolved, runtime)
  <1>1. /\ ~argued => built = "bad_runtime_config"
        /\ argued /\ bare => built = Local!SecretFailure(resolved)
        /\ argued /\ ~bare /\ Local!TargetRefusal(c, runtime) # "" =>
                built = Local!TargetRefusal(c, runtime)
        /\ argued /\ ~bare /\ Local!TargetRefusal(c, runtime) = "" =>
                built = Local!SecretFailure(resolved)
    BY DEF Local!BuildFailure
  <1>2. bare => Local!SecretFailure(resolved) # ""
    BY SecretIs
  <1> HIDE DEF argued, bare, built
  <1>3. built = "" <=>
            argued /\ Local!TargetRefusal(c, runtime) = "" /\ Local!SecretFailure(resolved) = ""
    BY <1>1, <1>2
  <1> QED
    BY <1>3 DEF argued, built

\* A document is fetched if there is one and its secret is usable.
LEMMA FetchesIf ==
  ASSUME NEW runtime, NEW resolved
  PROVE  Local!DocumentFailure("", runtime, resolved) = "" <=>
            /\ Local!At(runtime, "document_id") \notin {"", "malformed"}
            /\ Local!SecretFailure(resolved) = ""
  BY DEF Local!DocumentFailure

\* The arguments and the endpoint of a builder that are in order, runner by runner.
LEMMA BuilderTakes ==
  ASSUME NEW c \in DOMAIN Local!Builders, NEW runtime,
         \A value \in DOMAIN runtime : value \in Local!Descriptors[c].runtime
  PROVE  /\ Local!Builders[c].needs \subseteq DOMAIN runtime
         /\ DOMAIN runtime \subseteq Local!Builders[c].takes
         /\ Local!TargetRefusal(c, runtime) = ""
         <=> Startable(c, runtime)
  <1>1. c \in {"linear", "granola", "anthropic_admin", "openai_admin", "copilot", "cursor",
              "devin", "servicenow", "mcp_registry"}
    BY DEF Local!Builders
  <1>2. /\ Local!EndpointRefusal("pinned") = ""
        /\ \A at : Local!EndpointRefusal(at) = "" => at = "pinned"
        /\ \A at : Local!HostRefusal(at) = "" <=> at \in {"pinned", "other host"}
    BY DEF Local!EndpointRefusal, Local!HostRefusal
  <1>3. CASE c = "linear"
    <2>1. /\ Local!Builders[c].needs = {} /\ Local!Builders[c].takes = {"endpoint", "page_size"}
          /\ Local!Builders[c].target = "endpoint"
      BY <1>3 DEF Local!Builders, Local!Builder
    <2>2. Local!Descriptors[c].runtime = {"page_size"}
      BY <1>3 DEF Local!Descriptors, Local!Linear
    <2> QED
      BY <1>2, <1>3, <2>1, <2>2 DEF Local!TargetRefusal, Startable
  <1>4. CASE c = "mcp_registry"
    <2>1. /\ Local!Builders[c].needs = {} /\ Local!Builders[c].takes = {"base_url"}
          /\ Local!Builders[c].target = "base_url"
      BY <1>4 DEF Local!Builders, Local!Builder
    <2>2. Local!Descriptors[c].runtime = {"base_url"}
      BY <1>4 DEF Local!Descriptors, Local!McpRegistry
    <2> QED
      BY <1>2, <1>4, <2>1, <2>2 DEF Local!TargetRefusal, Startable
  <1>5. CASE c = "devin"
    <2>1. /\ Local!Builders[c].needs = {"base_url"} /\ Local!Builders[c].takes = {"base_url"}
          /\ Local!Builders[c].target = "base_url"
      BY <1>5 DEF Local!Builders, Local!Builder
    <2>2. Local!Descriptors[c].runtime = {"base_url"}
      BY <1>5 DEF Local!Descriptors, Local!Devin
    <2> QED
      BY <1>2, <1>5, <2>1, <2>2 DEF Local!TargetRefusal, Startable
  <1>6. CASE c = "servicenow"
    <2>1. /\ Local!Builders[c].needs = {"instance", "username"}
          /\ Local!Builders[c].takes = {"instance", "username", "limit", "fields"}
          /\ Local!Builders[c].target = "instance"
      BY <1>6 DEF Local!Builders, Local!Builder
    <2>2. Local!Descriptors[c].runtime = {"instance", "username", "limit", "fields"}
      BY <1>6 DEF Local!Descriptors, Local!ServiceNow
    <2> QED
      BY <1>2, <1>6, <2>1, <2>2 DEF Local!TargetRefusal, Startable
  <1>7. ASSUME c \in {"granola", "anthropic_admin", "openai_admin", "copilot", "cursor"}
        PROVE  /\ Local!Builders[c].needs = {} /\ Local!Builders[c].target = "base_url"
               /\ "bucket_width" \notin Local!Builders[c].takes
               /\ \A value \in Local!Descriptors[c].runtime :
                    value = "bucket_width" \/ value \in Local!Builders[c].takes
    <2>1. CASE c = "granola"
      BY <2>1 DEF Local!Builders, Local!Builder, Local!Descriptors, Local!Granola
    <2>2. CASE c = "anthropic_admin"
      BY <2>2 DEF Local!Builders, Local!Builder, Local!Descriptors, Local!AnthropicAdmin
    <2>3. CASE c = "openai_admin"
      BY <2>3 DEF Local!Builders, Local!Builder, Local!Descriptors, Local!OpenAIAdmin
    <2>4. CASE c = "copilot"
      BY <2>4 DEF Local!Builders, Local!Builder, Local!Descriptors, Local!Copilot
    <2>5. CASE c = "cursor"
      BY <2>5 DEF Local!Builders, Local!Builder, Local!Descriptors, Local!Cursor
    <2> QED
      BY <1>7, <2>1, <2>2, <2>3, <2>4, <2>5
  <1>8. CASE c \in {"granola", "anthropic_admin", "openai_admin", "copilot", "cursor"}
    <2>1. DOMAIN runtime \subseteq Local!Builders[c].takes <=> "bucket_width" \notin DOMAIN runtime
      BY <1>7, <1>8
    <2>2. Local!TargetRefusal(c, runtime) = "" <=>
              ("base_url" \in DOMAIN runtime => runtime["base_url"] = "pinned")
      <3>1. Local!TargetRefusal(c, runtime) = Local!EndpointRefusal(
                IF "base_url" \in DOMAIN runtime THEN runtime["base_url"] ELSE "pinned")
        BY <1>7, <1>8 DEF Local!TargetRefusal
      <3> QED
        BY <1>2, <3>1
    <2>3. Startable(c, runtime) <=>
              /\ "bucket_width" \notin DOMAIN runtime
              /\ "base_url" \in DOMAIN runtime => runtime["base_url"] = "pinned"
      BY <1>8 DEF Startable
    <2> QED
      BY <1>7, <1>8, <2>1, <2>2, <2>3
  <1> QED
    BY <1>1, <1>3, <1>4, <1>5, <1>6, <1>8

\* The gate reads what the resolver and the builders read: what it lets pass has a
\* credential (assert_runnable), and is sent if and only if the triples, the secret, the
\* runtime values and the endpoint are in order, of any connector, block and environment.
THEOREM AnyRun ==
  ASSUME NEW run, run.c \in Local!Runners
  PROVE  GateAgrees(run, Local!RunFailure(run.c, run.blocks, run.env, "", run.answer))
  <1> DEFINE c == run.c
             blocks == run.blocks
             env == run.env
             runtime == blocks[c].runtime
             gate == Local!Gate(blocks, env, c, "active")
             key == IF c = "google_drive" THEN <<c>> ELSE Local!Builders[c].key
             resolved == Local!ResolvedSecret(blocks, env, key, run.answer)
             failure == Local!RunFailure(c, blocks, env, "", run.answer)
             renewed == Renewed(blocks, env)
  <1>1. gate # "" => failure = gate
    BY DEF Local!RunFailure
  <1>2. gate = "" =>
            failure = IF Local!Poisoned(blocks, env) THEN "triple_contains_control_char"
                      ELSE IF c = "google_drive" THEN Local!DocumentFailure("", runtime, resolved)
                      ELSE Local!BuildFailure(c, resolved, runtime)
    BY DEF Local!RunFailure
  <1>3. gate = "" =>
            /\ c \in DOMAIN blocks
            /\ \A value \in DOMAIN runtime : value \in Local!Descriptors[c].runtime
            /\ Local!Missing(blocks, env, c, "active") = {}
    BY DEF Local!Gate
  <1>4. /\ key = <<>> => resolved.failure = "" /\ resolved.secret = "public"
        /\ key = <<"google_drive">> /\ renewed =>
              /\ resolved.failure = Local!Mint(run.answer)
              /\ resolved.failure = "" => resolved.secret = run.answer.token
        /\ key # <<>> /\ ~(key = <<"google_drive">> /\ renewed) =>
              resolved.failure = "" /\ resolved.secret = Local!Resolve(blocks, env, key)
    <2>1. ResolvedAs(resolved, blocks, env, key, run.answer)
      BY ResolvedIs
    <2> HIDE DEF resolved, key
    <2> QED
      BY <2>1 DEF ResolvedAs, renewed
  <1>5. /\ c = "mcp_registry" <=> key = <<>>
        /\ c # "mcp_registry" => key = <<c>>
        /\ key = <<"google_drive">> <=> c = "google_drive"
    BY RunnerKey
  <1> HIDE DEF gate, failure, resolved, renewed
  <1>6. gate = "" => ~(resolved.failure = "" /\ resolved.secret = "")
    <2> SUFFICES ASSUME gate = "", resolved.failure = "", resolved.secret = "" PROVE FALSE
      OBVIOUS
    <2>1. key = <<c>> /\ key # <<>>
      BY <1>4, <1>5
    <2>2. PICK cred \in Local!CredentialsOf(c) :
              cred.key = <<c>> /\ cred.required /\ Local!Serves(cred, "active")
      BY <2>1, RunnerDeclares
    <2>3. ~(key = <<"google_drive">> /\ renewed)
      BY <1>4, MintedToken
    <2>4. Local!Resolve(blocks, env, cred.key) = ""
      BY <1>4, <2>1, <2>2, <2>3
    <2>5. ~Local!Durable(blocks, env, cred)
      <3> SUFFICES ASSUME Local!Durable(blocks, env, cred) PROVE FALSE
        OBVIOUS
      <3>1. c \in DOMAIN blocks \cap DOMAIN Local!Descriptors
        BY <1>3, RunnerDeclares
      <3>2. cred = Local!GoogleDrive.credentials[1] /\ renewed
        BY <3>1, OnlyTheTriple DEF renewed
      <3> QED
        BY <2>1, <2>2, <2>3, <3>2, DriveTriple
    <2>6. cred \in Local!Missing(blocks, env, c, "active")
      BY <2>2, <2>4, <2>5 DEF Local!Missing
    <2> QED
      BY <1>3, <2>6
  <1>7. gate = "" => failure # "secret_unresolved"
    <2>1. /\ Local!SecretFailure(resolved) = "secret_unresolved" =>
                resolved.failure = "" /\ resolved.secret = ""
          /\ Local!TargetRefusal(c, runtime) # "secret_unresolved"
      <3>1. resolved.failure = "" \/ resolved.failure = Local!Mint(run.answer)
        BY <1>4
      <3> QED
        BY <3>1, FailuresApart
    <2>2. Local!DocumentFailure("", runtime, resolved)
              \in {"document_id_required", "bad_document_id", Local!SecretFailure(resolved)}
      BY DEF Local!DocumentFailure
    <2>3. Local!BuildFailure(c, resolved, runtime)
              \in {"bad_runtime_config", Local!SecretFailure(resolved), Local!TargetRefusal(c, runtime)}
      BY DEF Local!BuildFailure
    <2> QED
      BY <1>2, <1>6, <2>1, <2>2, <2>3
  <1> DEFINE minted == Local!Mint(run.answer) = "" /\ run.answer.token # "malformed"
             usable == CASE c = "mcp_registry" -> TRUE
                         [] c = "google_drive" /\ renewed -> minted
                         [] OTHER -> Local!Resolve(blocks, env, <<c>>) # "malformed"
             poisoned == renewed /\ \E part \in Triple : Local!Resolve(blocks, env, part) = "malformed"
  <1>8. Sendable(run) <=> ~poisoned /\ usable /\ Startable(c, runtime)
    <2>1. renewed <=> /\ "google_drive" \in DOMAIN blocks
                      /\ "" \notin {Local!Resolve(blocks, env, part) : part \in Triple}
      BY DEF renewed, Renewed
    <2>2. poisoned <=>
              renewed /\ "malformed" \in {Local!Resolve(blocks, env, part) : part \in Triple}
      OBVIOUS
    <2> HIDE DEF poisoned
    <2> QED
      BY <2>1, <2>2 DEF Sendable
  <1>9. poisoned <=> Local!Poisoned(blocks, env)
    BY PoisonIsTheTriples DEF renewed
  <1>10. gate = "" => (Local!SecretFailure(resolved) = "" <=> usable)
    <2> SUFFICES ASSUME gate = ""
                 PROVE  (resolved.failure = "" /\ resolved.secret # "malformed") <=> usable
      BY <1>6, SecretIs
    <2>1. CASE c = "mcp_registry"
      BY <1>4, <1>5, <2>1
    <2>2. CASE c = "google_drive" /\ renewed
      BY <1>4, <1>5, <2>2
    <2>3. CASE c # "mcp_registry" /\ ~(c = "google_drive" /\ renewed)
      BY <1>4, <1>5, <2>3
    <2> QED
      BY <2>1, <2>2, <2>3
  <1> HIDE DEF usable, poisoned
  <1>11. ASSUME gate = "" PROVE failure = "" <=> ~poisoned /\ usable /\ Startable(c, runtime)
    <2>1. CASE c = "google_drive"
      <3>1. Local!DocumentFailure("", runtime, resolved) = "" <=> usable /\ Startable(c, runtime)
        BY <1>10, <1>11, <2>1, FetchesIf DEF Startable
      <3> QED
        BY <1>2, <1>9, <1>11, <2>1, <3>1
    <2>2. CASE c # "google_drive"
      <3>1. c \in DOMAIN Local!Builders
        BY <2>2 DEF Local!Runners
      <3>2. Local!BuildFailure(c, resolved, runtime) = "" <=> usable /\ Startable(c, runtime)
        BY <1>3, <1>10, <1>11, <3>1, BuildsIf, BuilderTakes
      <3> QED
        BY <1>2, <1>9, <1>11, <2>2, <3>2
    <2> QED
      BY <2>1, <2>2
  <1> QED
    BY <1>1, <1>7, <1>8, <1>11 DEF GateAgrees, gate, failure

\* What the gate lets pass never fails for want of a credential, and what it sends or
\* keeps from being sent is told by the rest of the configuration (assert_runnable,
\* build_resolver, the builders and fetch_document).
THEOREM WhatPassesRuns == OperationSpec => []GateMeansCredentialed
  <1>1. OperationInit => GateMeansCredentialed
    BY DEF OperationInit, GateMeansCredentialed
  <1>2. GateMeansCredentialed /\ [OperationNext]_done => GateMeansCredentialed'
    <2> SUFFICES ASSUME GateMeansCredentialed, [OperationNext]_done, done'.kind = "run"
                 PROVE  GateAgrees(done'.in, done'.out)
      BY DEF GateMeansCredentialed
    <2>1. CASE OperationNext
      <3>1. PICK run \in Runs :
                Does("run", run, Local!RunFailure(run.c, run.blocks, run.env, "", run.answer))
        BY <2>1, Called DEF RunConnector
      <3>2. run.c \in Local!Runners
        <4> DEFINE empty == [c |-> "linear", blocks |-> <<>>, env |-> (<<"linear">> :> "value"),
                             answer |-> GoodAnswer]
                   PerRunner == {RunsOf(c) : c \in Local!Runners}
        <4>1. \A r \in BesideDrive("linear") \cup {empty} : r.c \in Local!Runners
          <5>1. \A r \in BesideDrive("linear") : r.c = "linear"
            BY DEF BesideDrive
          <5>2. empty.c = "linear"
            OBVIOUS
          <5> HIDE DEF empty
          <5>3. "linear" \in Local!Runners
            BY DEF Local!Runners, Local!Builders
          <5> QED
            BY <5>1, <5>2, <5>3
        <4>2. \A c \in Local!Runners : \A r \in RunsOf(c) : r.c = c
          BY DEF RunsOf
        <4>3. \A rs \in PerRunner : \A r \in rs : r.c \in Local!Runners
          BY <4>2
        <4>4. Runs = (UNION PerRunner) \cup (BesideDrive("linear") \cup {empty})
          BY DEF Runs
        <4> HIDE DEF empty, PerRunner
        <4>5. \A r \in (UNION PerRunner) \cup (BesideDrive("linear") \cup {empty}) : r.c \in Local!Runners
          <5>1. \A r \in UNION PerRunner : \E rs \in PerRunner : r \in rs
            OBVIOUS
          <5>2. \A r \in UNION PerRunner : r.c \in Local!Runners
            BY <4>3, <5>1
          <5> QED
            BY <4>1, <5>2
        <4>6. run \in Runs
          BY <3>1
        <4> QED
          BY <4>4, <4>5, <4>6
      <3> QED
        <4> DEFINE failure == Local!RunFailure(run.c, run.blocks, run.env, "", run.answer)
        <4>1. GateAgrees(run, failure)
          BY <3>2, AnyRun
        <4>2. Does("run", run, failure)
          BY <3>1
        <4> HIDE DEF failure
        <4>3. done'.in = run /\ done'.out = failure
          BY <4>2, DoneIs
        <4> QED
          BY <4>1, <4>3
    <2>2. CASE UNCHANGED done
      BY <2>2 DEF GateMeansCredentialed
    <2> QED
      BY <2>1, <2>2
  <1> QED
    BY <1>1, <1>2, PTL DEF OperationSpec
------------------------------------------------------------------------------
(* Texts *)

\* Nothing that the patterns know is left of a text but two residues, no other word is
\* lost, and what was found tells whether it was changed (redact, redact_with_findings):
\* of any text, however long.
THEOREM TextLeavesClean == OperationSpec => []RedactedIsClean
  <1>1. OperationInit => RedactedIsClean
    BY DEF OperationInit, RedactedIsClean
  <1>2. RedactedIsClean /\ [OperationNext]_done => RedactedIsClean'
    <2> SUFFICES ASSUME RedactedIsClean, [OperationNext]_done, done'.kind = "text"
                 PROVE  RedactsTo(done'.in, done'.out)
      BY DEF RedactedIsClean
    <2>1. CASE OperationNext
      <3>1. PICK t \in Texts : Does("text", t, Redact(t))
        BY <2>1, Called DEF RedactText
      <3>2. t \in Seq(Tokens)
        <4>1. \A n \in Nat : \A text \in [1..n -> Tokens] : text \in Seq(Tokens)
          OBVIOUS
        <4>2. {"phi:", "phone", "card", "secret", "tel:", "digits", "id:"} \subseteq Tokens
          BY DEF Tokens
        <4>3. t \in UNION {[1..n -> Tokens] : n \in 0..3} => t \in Seq(Tokens)
          <5> SUFFICES ASSUME t \in UNION {[1..n -> Tokens] : n \in 0..3} PROVE t \in Seq(Tokens)
            OBVIOUS
          <5>1. PICK n \in 0..3 : t \in [1..n -> Tokens]
            OBVIOUS
          <5> QED
            BY <4>1, <5>1
        <4>4. t \in [1..4 -> {"phi:", "phone", "card", "secret", "tel:", "digits", "id:"}]
                => t \in [1..4 -> Tokens]
          BY <4>2
        <4> QED
          BY <4>1, <4>3, <4>4 DEF Texts
      <3> QED
        BY <3>1, <3>2, AnyText DEF Does
    <2>2. CASE UNCHANGED done
      BY <2>2 DEF RedactedIsClean
    <2> QED
      BY <2>1, <2>2
  <1> QED
    BY <1>1, <1>2, PTL DEF OperationSpec

------------------------------------------------------------------------------
(* Batches *)

CaseCodes == {"", "bot_authored", "provider_code", "stale_source"}

\* No code of the cases is what a pattern looks for.
LEMMA CaseCodesAre == Codes(CaseCodes)
  BY DEF Codes, CaseCodes, Known, Cards, Personal

\* The texts of the cases are texts.
LEMMA SomeTextsAre ==
  /\ SomeTexts \subseteq Seq(Tokens)
  /\ \A t \in Tokens : <<t>> \in Seq(Tokens)
  /\ \A t, v \in Tokens : <<t, v>> \in Seq(Tokens)
  /\ <<>> \in Seq(Tokens)
  <1>1. /\ \A t \in Tokens : <<t>> \in Seq(Tokens)
        /\ \A t, v \in Tokens : <<t, v>> \in Seq(Tokens)
        /\ <<>> \in Seq(Tokens)
    OBVIOUS
  <1>2. /\ <<"digits">> \in Seq(Tokens) /\ <<"secret">> \in Seq(Tokens) /\ <<"phone">> \in Seq(Tokens)
        /\ <<"word", "email">> \in Seq(Tokens) /\ <<"tel:", "digits">> \in Seq(Tokens)
        /\ <<"id:", "card">> \in Seq(Tokens) /\ <<"card13">> \in Seq(Tokens)
        /\ <<"phi:", "word">> \in Seq(Tokens) /\ <<"word", "secret">> \in Seq(Tokens)
    BY <1>1 DEF Tokens, Words
  <1>3. SomeTexts \subseteq Seq(Tokens)
    BY <1>1, <1>2 DEF SomeTexts
  <1> QED
    BY <1>1, <1>3

\* The words of the cases are tokens.
LEMMA CaseTokens ==
  { "word", "bot", "renovate", "status", "template", "digits", "secret", "phone", "email",
    "tel:", "id:", "card", "card13" } \subseteq Tokens
  BY DEF Tokens, Words

\* An observation without signals.
LEMMA NoSignalsAre == NoSignals \in AllSignals(CaseCodes)
  BY EmptySeq DEF NoSignals, AllSignals

\* The observation the cases are variations of.
LEMMA BaseObsIs == BaseObs \in AnyObservation(CaseCodes)
  <1> DEFINE id == [f \in IdentityFields |-> <<"word">>]
  <1>1. <<"word">> \in Seq(Tokens) /\ <<"word", "digits">> \in Seq(Tokens)
    BY SomeTextsAre, CaseTokens
  <1>2. id \in [IdentityFields -> Seq(Tokens)]
    BY <1>1
  <1>3. BaseObs = [ identity |-> id, excerpt |-> <<"word", "digits">>, title |-> <<"word">>,
                    author |-> <<"word">>, metadata |-> {}, markers |-> {}, signals |-> NoSignals,
                    mode |-> "webhook", oversized |-> FALSE, untyped |-> {} ]
    BY DEF BaseObs
  <1>4. "webhook" \in DOMAIN DeliveryMode
    BY DEF DeliveryMode
  <1> HIDE DEF id
  <1> QED
    BY <1>1, <1>2, <1>3, <1>4, NoSignalsAre DEF AnyObservation
\* One thing of an observation changed is an observation.
LEMMA IdentityChanged ==
  ASSUME NEW obs \in AnyObservation(CaseCodes), NEW f \in IdentityFields, NEW t \in Seq(Tokens)
  PROVE  [obs EXCEPT !.identity[f] = t] \in AnyObservation(CaseCodes)
  <1> DEFINE id == [obs.identity EXCEPT ![f] = t]
  <1>1. id \in [IdentityFields -> Seq(Tokens)]
    BY DEF AnyObservation
  <1>2. [obs EXCEPT !.identity = id] \in AnyObservation(CaseCodes)
    <2> HIDE DEF id
    <2> QED
      BY <1>1 DEF AnyObservation
  <1> QED
    BY <1>2

\* An observation with another text.
LEMMA TextChanged ==
  ASSUME NEW obs \in AnyObservation(CaseCodes), NEW f \in FreeTexts, NEW t \in Seq(Tokens)
  PROVE  [obs EXCEPT ![f] = t] \in AnyObservation(CaseCodes)
  BY DEF AnyObservation, FreeTexts

\* An observation with other metadata.
LEMMA MetadataChanged ==
  ASSUME NEW obs \in AnyObservation(CaseCodes), NEW leaves, leaves \subseteq AnyLeaf
  PROVE  [obs EXCEPT !.metadata = leaves] \in AnyObservation(CaseCodes)
  BY DEF AnyObservation

\* An observation of another mode, too large, or of a wrong type.
LEMMA RestChanged ==
  ASSUME NEW obs \in AnyObservation(CaseCodes)
  PROVE  /\ \A m \in DOMAIN DeliveryMode : [obs EXCEPT !.mode = m] \in AnyObservation(CaseCodes)
         /\ [obs EXCEPT !.oversized = TRUE] \in AnyObservation(CaseCodes)
         /\ [obs EXCEPT !.untyped = {"title"}] \in AnyObservation(CaseCodes)
         /\ \A some \in SUBSET Markers : [obs EXCEPT !.markers = some] \in AnyObservation(CaseCodes)
         /\ \A signals \in AllSignals(CaseCodes) :
                [obs EXCEPT !.signals = signals] \in AnyObservation(CaseCodes)
  <1>1. \A m \in DOMAIN DeliveryMode : [obs EXCEPT !.mode = m] \in AnyObservation(CaseCodes)
    BY DEF AnyObservation
  <1>2. [obs EXCEPT !.oversized = TRUE] \in AnyObservation(CaseCodes)
    BY DEF AnyObservation
  <1>3. [obs EXCEPT !.untyped = {"title"}] \in AnyObservation(CaseCodes)
    BY DEF AnyObservation, FreeTexts
  <1>4. \A some \in SUBSET Markers : [obs EXCEPT !.markers = some] \in AnyObservation(CaseCodes)
    BY DEF AnyObservation
  <1>5. \A signals \in AllSignals(CaseCodes) :
            [obs EXCEPT !.signals = signals] \in AnyObservation(CaseCodes)
    BY DEF AnyObservation
  <1> QED
    BY <1>1, <1>2, <1>3, <1>4, <1>5

\* The metadata of the cases.
LEMMA LeavesAre ==
  /\ Leaves \subseteq AnyLeaf
  /\ \A key, text \in Seq(Tokens) : \A kind \in {"text", "number", "set"} :
        Leaf(key, kind, text) \in AnyLeaf
  <1>1. /\ <<"word">> \in Seq(Tokens) /\ <<"secret">> \in Seq(Tokens) /\ <<"phone">> \in Seq(Tokens)
        /\ <<"card">> \in Seq(Tokens) /\ <<"digits">> \in Seq(Tokens)
        /\ <<"word", "secret">> \in Seq(Tokens)
    BY SomeTextsAre, CaseTokens
  <1>2. [ key : {<<"word">>, <<"secret">>, <<"phone">>}, kind : {"text"},
          text : {<<"word">>, <<"card">>, <<"phone">>, <<"word", "secret">>} ] \subseteq AnyLeaf
    BY <1>1 DEF AnyLeaf
  <1>3. [ key : {<<"word">>, <<"digits">>}, kind : {"number", "bytes", "object", "set"},
          text : {<<"digits">>, <<"card">>, <<"phone">>} ] \subseteq AnyLeaf
    BY <1>1 DEF AnyLeaf, Unsanitizable, Unencodable
  <1>4. \A key, text \in Seq(Tokens) : \A kind \in {"text", "number", "set"} :
            Leaf(key, kind, text) \in AnyLeaf
    BY DEF Leaf, AnyLeaf, Unsanitizable
  <1> QED
    BY <1>2, <1>3, <1>4 DEF Leaves

\* The observations of the cases are observations.
LEMMA ObservationsAre ==
  Observations \subseteq AnyObservation(CaseCodes) /\ Neighbours \subseteq AnyObservation(CaseCodes)
  <1> DEFINE Typed == AnyObservation(CaseCodes)
             identified == {WithIdentity(f, t) : f \in {"source_id", "ref", "url", "provider_event_id"},
                                                 t \in SomeTexts}
             worded == {[BaseObs EXCEPT ![f] = t] : f \in FreeTexts, t \in SomeTexts}
             labelled == {[BaseObs EXCEPT !.metadata = {l}] : l \in Leaves}
             sent == {[BaseObs EXCEPT !.mode = m] : m \in DOMAIN DeliveryMode}
             odd == { [BaseObs EXCEPT !.oversized = TRUE], [BaseObs EXCEPT !.untyped = {"title"}],
                      [BaseObs EXCEPT !.identity["url"] = <<>>, !.identity["ref"] = <<"phone">>],
                      [BaseObs EXCEPT !.title = <<>>, !.author = <<"email">>],
                      [BaseObs EXCEPT !.metadata = {Leaf(<<"word">>, "text", <<"secret">>),
                                                    Leaf(<<"word">>, "set", <<"digits">>)}] }
  <1>1. /\ <<>> \in Seq(Tokens) /\ <<"word">> \in Seq(Tokens) /\ <<"secret">> \in Seq(Tokens)
        /\ <<"phone">> \in Seq(Tokens) /\ <<"email">> \in Seq(Tokens) /\ <<"digits">> \in Seq(Tokens)
    BY SomeTextsAre, CaseTokens
  <1>2. {"source_id", "ref", "url", "provider_event_id"} \subseteq IdentityFields
        /\ {"excerpt", "title", "author"} = FreeTexts
    BY DEF IdentityFields, FreeTexts
  <1>3. \A f \in IdentityFields : \A t \in Seq(Tokens) : WithIdentity(f, t) \in Typed
    BY BaseObsIs, IdentityChanged DEF WithIdentity
  <1>4. identified \subseteq Typed
    BY <1>2, <1>3, SomeTextsAre
  <1>5. worded \subseteq Typed
    BY BaseObsIs, SomeTextsAre, TextChanged
  <1>6. labelled \subseteq Typed
    <2>1. \A l \in Leaves : {l} \subseteq AnyLeaf
      BY LeavesAre
    <2> QED
      BY <2>1, BaseObsIs, MetadataChanged
  <1>7. /\ sent \subseteq Typed
        /\ [BaseObs EXCEPT !.oversized = TRUE] \in Typed /\ [BaseObs EXCEPT !.untyped = {"title"}] \in Typed
    BY BaseObsIs, RestChanged
  <1>8. [BaseObs EXCEPT !.identity["url"] = <<>>, !.identity["ref"] = <<"phone">>] \in Typed
    <2>1. [BaseObs EXCEPT !.identity["url"] = <<>>] \in Typed
      BY <1>1, <1>2, BaseObsIs, IdentityChanged
    <2>2. [[BaseObs EXCEPT !.identity["url"] = <<>>] EXCEPT !.identity["ref"] = <<"phone">>] \in Typed
      BY <1>1, <1>2, <2>1, IdentityChanged
    <2> QED
      BY <2>2
  <1>9. [BaseObs EXCEPT !.title = <<>>, !.author = <<"email">>] \in Typed
    <2>1. [BaseObs EXCEPT !.title = <<>>] \in Typed
      BY <1>1, <1>2, BaseObsIs, TextChanged
    <2>2. [[BaseObs EXCEPT !.title = <<>>] EXCEPT !.author = <<"email">>] \in Typed
      BY <1>1, <1>2, <2>1, TextChanged
    <2> QED
      BY <2>2
  <1>10. [BaseObs EXCEPT !.metadata = {Leaf(<<"word">>, "text", <<"secret">>),
                                       Leaf(<<"word">>, "set", <<"digits">>)}] \in Typed
    <2>1. {Leaf(<<"word">>, "text", <<"secret">>), Leaf(<<"word">>, "set", <<"digits">>)} \subseteq AnyLeaf
      BY <1>1, LeavesAre
    <2> QED
      BY <2>1, BaseObsIs, MetadataChanged
  <1>11. [BaseObs EXCEPT !.excerpt = <<>>] \in Typed /\ [BaseObs EXCEPT !.author = <<"email">>] \in Typed
    BY <1>1, <1>2, BaseObsIs, TextChanged
  <1>12. WithIdentity("ref", <<"phone">>) \in Typed /\ WithIdentity("url", <<"secret">>) \in Typed
    BY <1>1, <1>2, <1>3
  <1> HIDE DEF Typed, identified, worded, labelled, sent
  <1>13. Observations \subseteq Typed
    <2>1. odd \subseteq Typed
      BY <1>7, <1>8, <1>9, <1>10
    <2>2. Observations = identified \cup worded \cup labelled \cup sent \cup odd
      BY DEF Observations, identified, worded, labelled, sent
    <2> HIDE DEF odd
    <2> QED
      BY <1>4, <1>5, <1>6, <1>7, <2>1, <2>2
  <1>14. BaseObs \in Typed
    BY BaseObsIs DEF Typed
  <1>15. Neighbours \subseteq Typed
    BY <1>7, <1>11, <1>12, <1>14 DEF Neighbours
  <1> QED
    BY <1>13, <1>15 DEF Typed

\* The batches of the cases are batches of observations.
LEMMA BatchesAre ==
  BatchInputs \subseteq Seq(AnyObservation(CaseCodes))
  <1> DEFINE Typed == AnyObservation(CaseCodes)
  <1>1. \A a \in Typed : <<a>> \in Seq(Typed)
    OBVIOUS
  <1>2. \A a, b \in Typed : <<a, b>> \in Seq(Typed)
    OBVIOUS
  <1>3. Observations \subseteq Typed /\ Neighbours \subseteq Typed
    BY ObservationsAre
  <1> HIDE DEF Typed
  <1>4. ASSUME NEW b \in BatchInputs
         PROVE  b \in Seq(Typed)
    <2>1. CASE \E obs \in Observations : b = <<obs>>
      BY <1>1, <1>3, <2>1
    <2>2. CASE \E obs \in Observations, other \in Neighbours : b = <<obs, other>> \/ b = <<other, obs>>
      BY <1>2, <1>3, <2>2
    <2> QED
      BY <2>1, <2>2 DEF BatchInputs
  <1> QED
    BY <1>4 DEF Typed

\* A batch leaves the process if and only if all of it is fit to, whole and in order, and
\* then nothing sensitive is in what is emitted, mapped or exported (normalize): of any
\* batch, however long, with any texts, metadata and signals.
THEOREM BatchLeavesClean == OperationSpec => []RedactAndPass
  <1>1. OperationInit => RedactAndPass
    BY DEF OperationInit, RedactAndPass
  <1>2. RedactAndPass /\ [OperationNext]_done => RedactAndPass'
    <2> SUFFICES ASSUME RedactAndPass, [OperationNext]_done, done'.kind = "batch"
                 PROVE  PassesFit(done'.in, done'.out)
      BY DEF RedactAndPass
    <2>1. CASE OperationNext
      <3>1. PICK b \in BatchInputs : Does("batch", b, Normalize(b))
        BY <2>1, Called DEF NormalizeBatch
      <3>2. b \in Seq(AnyObservation(CaseCodes))
        BY BatchesAre
      <3> QED
        BY <3>1, <3>2, CaseCodesAre, AnyBatch DEF Does
    <2>2. CASE UNCHANGED done
      BY <2>2 DEF RedactAndPass
    <2> QED
      BY <2>1, <2>2
  <1> QED
    BY <1>1, <1>2, PTL DEF OperationSpec
------------------------------------------------------------------------------
(* Advisories *)

\* The signals of the cases are signals.
LEMMA SignalsAre ==
  /\ Signals \subseteq Signal(CaseCodes) /\ SomeSignals \subseteq Signal(CaseCodes)
  /\ Plain \in Signal(CaseCodes)
  <1> DEFINE blank == ""
             scopes == Scopes \cup {"", "bogus"}
             sures == Confidences \cup {"", "bogus"}
             effects == Effects \cup {"", "bogus"}
             S == Signal(CaseCodes)
  <1>1. /\ blank \in CaseCodes /\ "bot_authored" \in CaseCodes /\ "provider_code" \in CaseCodes
        /\ "stale_source" \in CaseCodes
    BY DEF CaseCodes
  <1>2. blank \in scopes /\ "bogus" \in scopes /\ "universal" \in scopes
    BY DEF Scopes
  <1>3. /\ blank \in sures /\ "bogus" \in sures /\ "high" \in sures
        /\ blank \in effects /\ "bogus" \in effects /\ "route" \in effects
    BY DEF Confidences, Effects
  <1>4. S = [ object : BOOLEAN, code : CaseCodes, scope : scopes, confidence : sures,
              effect : effects, version : Int ]
    BY DEF Signal
  <1>5. Plain = [ object |-> TRUE, code |-> "provider_code", scope |-> blank, confidence |-> blank,
                  effect |-> blank, version |-> SchemaVersion ]
    BY DEF Plain
  <1>6. Signals = [ object : BOOLEAN, code : {blank, "bot_authored", "provider_code"}, scope : scopes,
                    confidence : {blank, "high", "bogus"}, effect : {blank, "route", "bogus"},
                    version : {SchemaVersion, SchemaVersion + 1} ]
    BY DEF Signals
  <1> HIDE DEF blank, scopes, sures, effects, S
  <1>7. Signals \subseteq S
    BY <1>1, <1>3, <1>4, <1>6 DEF SchemaVersion
  <1>8. Plain \in S
    BY <1>1, <1>2, <1>3, <1>4, <1>5 DEF SchemaVersion
  <1>9. /\ [Plain EXCEPT !.object = FALSE] \in S /\ [Plain EXCEPT !.code = blank] \in S
        /\ [Plain EXCEPT !.code = "bot_authored"] \in S
        /\ [Plain EXCEPT !.scope = "universal"] \in S /\ [Plain EXCEPT !.scope = "bogus"] \in S
    BY <1>1, <1>2, <1>4, <1>8
  <1>10. /\ [Plain EXCEPT !.code = "bot_authored", !.effect = "bogus"] \in S
         /\ [Plain EXCEPT !.code = "stale_source", !.scope = "universal"] \in S
    BY <1>1, <1>2, <1>3, <1>4, <1>8
  <1>11. SomeSignals \subseteq S
    BY <1>8, <1>9, <1>10 DEF blank, SomeSignals
  <1> QED
    BY <1>7, <1>8, <1>11 DEF S

\* The lists of signals of the cases, and what stands where a list should, are signals.
LEMMA SignalListsAre ==
  SignalLists \subseteq AllSignals(CaseCodes)
  <1> DEFINE S == Signal(CaseCodes)
             List(items) == [shape |-> "list", items |-> items]
  <1>1. \A items \in Seq(S) : List(items) \in AllSignals(CaseCodes)
    BY DEF AllSignals
  <1>2. <<>> \in Seq(S) /\ \A a, b \in S : <<a>> \in Seq(S) /\ <<a, b>> \in Seq(S)
    <2> HIDE DEF S
    <2> QED
      OBVIOUS
  <1>3. [shape |-> "scalar", items |-> <<>>] \in AllSignals(CaseCodes)
    BY <1>2 DEF AllSignals
  <1>4. Signals \subseteq S /\ SomeSignals \subseteq S
    BY SignalsAre
  <1> HIDE DEF S
  <1>5. \A s \in Signals : List(<<s>>) \in AllSignals(CaseCodes)
    BY <1>1, <1>2, <1>4
  <1>6. \A s, t \in SomeSignals : List(<<s, t>>) \in AllSignals(CaseCodes)
    BY <1>1, <1>2, <1>4
  <1>7. List(<<>>) \in AllSignals(CaseCodes)
    BY <1>1, <1>2
  <1> SUFFICES ASSUME NEW list \in SignalLists PROVE list \in AllSignals(CaseCodes)
    OBVIOUS
  <1>8. \/ \E s \in Signals : list = List(<<s>>)
        \/ \E s, t \in SomeSignals : list = List(<<s, t>>)
        \/ list \in {NoSignals, [shape |-> "scalar", items |-> <<>>], List(<<>>)}
    BY DEF SignalLists
  <1> HIDE DEF List
  <1> QED
    BY <1>3, <1>5, <1>6, <1>7, <1>8, NoSignalsAre

\* No signal, however malformed, changes or drops the evidence or silences a universal
\* rule that holds (evaluate_fail_open): of any list of signals, with any codes.
THEOREM AdvisoriesNeverDecide == OperationSpec => []AdvisoriesFailOpen
  <1>1. OperationInit => AdvisoriesFailOpen
    BY DEF OperationInit, AdvisoriesFailOpen
  <1>2. AdvisoriesFailOpen /\ [OperationNext]_done => AdvisoriesFailOpen'
    <2> SUFFICES ASSUME AdvisoriesFailOpen, [OperationNext]_done, done'.kind = "advise"
                 PROVE  FailsOpen(done'.in, done'.out)
      BY DEF AdvisoriesFailOpen
    <2>1. CASE OperationNext
      <3>1. PICK e \in Advised : Does("advise", e, EvaluateFailOpen(e))
        BY <2>1, Called DEF Advise
      <3>2. PICK obs \in Noticed, signals \in SignalLists :
                e = EmissionFrom([obs EXCEPT !.signals = signals])
        <4> DEFINE Of(o, s) == EmissionFrom([o EXCEPT !.signals = s])
        <4>1. Advised = {Of(obs, signals) : obs \in Noticed, signals \in SignalLists}
          BY DEF Advised
        <4> HIDE DEF Of
        <4>2. \E o \in Noticed, s \in SignalLists : e = Of(o, s)
          BY <4>1
        <4> QED
          BY <4>2 DEF Of
      <3> DEFINE signalled == [obs EXCEPT !.signals = signals]
      <3>3. signalled.signals = signals
        BY DEF Noticed, BaseObs
      <3> HIDE DEF signalled
      <3>4. e = EmissionFrom(signalled)
        BY <3>2 DEF signalled
      <3>5. /\ e = [f \in EmissionKeys |-> e[f]] /\ "advisories" \in EmissionKeys
            /\ e.signals = signals /\ e.advisories = <<>>
        BY <3>3, <3>4 DEF EmissionFrom, EmissionKeys
      <3>6. signals \in AllSignals(CaseCodes)
        BY SignalListsAre
      <3>7. FailsOpen(e, EvaluateFailOpen(e))
        BY <3>5, <3>6, CaseCodesAre, AnySignals
      <3> QED
        BY <3>1, <3>7 DEF Does
    <2>2. CASE UNCHANGED done
      BY <2>2 DEF AdvisoriesFailOpen
    <2> QED
      BY <2>1, <2>2
  <1> QED
    BY <1>1, <1>2, PTL DEF OperationSpec
------------------------------------------------------------------------------
(* Traces *)

\* The observations that are traced are observations.
LEMMA TracedAre ==
  ASSUME NEW obs \in Traced
  PROVE  obs \in AnyObservation(CaseCodes)
  <1> DEFINE Typed == AnyObservation(CaseCodes)
             one == [shape |-> "list", items |-> <<Plain>>]
             two == [shape |-> "list", items |-> <<Plain, [Plain EXCEPT !.code = ""]>>]
  <1>1. /\ <<"phone">> \in Seq(Tokens) /\ <<"email">> \in Seq(Tokens)
        /\ <<"word", "bot">> \in Seq(Tokens)
    BY SomeTextsAre, CaseTokens
  <1>2. {"author", "excerpt", "title"} \subseteq FreeTexts
    BY DEF FreeTexts
  <1>3. one \in AllSignals(CaseCodes) /\ two \in AllSignals(CaseCodes)
    <2>1. \A S : \A x, y \in S : <<x>> \in Seq(S) /\ <<x, y>> \in Seq(S)
      OBVIOUS
    <2>2. Plain \in Signal(CaseCodes) /\ [Plain EXCEPT !.code = ""] \in Signal(CaseCodes)
      <3>1. [Plain EXCEPT !.code = ""] \in SomeSignals
        BY DEF SomeSignals
      <3> QED
        BY <3>1, SignalsAre
    <2>3. /\ <<Plain>> \in Seq(Signal(CaseCodes))
          /\ <<Plain, [Plain EXCEPT !.code = ""]>> \in Seq(Signal(CaseCodes))
      BY <2>1, <2>2
    <2> QED
      BY <2>3 DEF AllSignals
  <1> HIDE DEF one, two
  <1>4. \A signals \in AllSignals(CaseCodes) :
            /\ [BaseObs EXCEPT !.signals = signals] \in Typed
            /\ [[BaseObs EXCEPT !.signals = signals] EXCEPT !.markers = {"stale_source"}] \in Typed
    <2>1. {"stale_source"} \in SUBSET Markers
      BY DEF Markers
    <2> QED
      BY <2>1, BaseObsIs, RestChanged
  <1>5. /\ [BaseObs EXCEPT !.author = <<"word", "bot">>] \in Typed
        /\ [BaseObs EXCEPT !.excerpt = <<"phone">>] \in Typed
        /\ [BaseObs EXCEPT !.title = <<"email">>] \in Typed
    BY <1>1, <1>2, BaseObsIs, TextChanged
  <1>6. \/ obs \in { BaseObs, [BaseObs EXCEPT !.author = <<"word", "bot">>],
                     [BaseObs EXCEPT !.excerpt = <<"phone">>], [BaseObs EXCEPT !.title = <<"email">>] }
        \/ obs = [BaseObs EXCEPT !.signals = one]
        \/ obs = [[BaseObs EXCEPT !.signals = two] EXCEPT !.markers = {"stale_source"}]
    BY DEF Traced, one, two
  <1> QED
    BY <1>3, <1>4, <1>5, <1>6, BaseObsIs

\* What is projected of the trace of an observation is evidence of what was done: a
\* change to it is caught wherever a chain without anchors can tell
\* (validate_transformation_trace_set).
THEOREM TracesAreChains == OperationSpec => []TraceIsEvidence
  <1>1. OperationInit => TraceIsEvidence
    BY DEF OperationInit, TraceIsEvidence
  <1>2. TraceIsEvidence /\ [OperationNext]_done => TraceIsEvidence'
    <2> SUFFICES ASSUME TraceIsEvidence, [OperationNext]_done, done'.kind = "trace"
                 PROVE  Evidences(done'.in, done'.out)
      BY DEF TraceIsEvidence
    <2>1. CASE OperationNext
      <3> DEFINE Out(in) == TraceIngest(<<in.obs>>, in.capture, in.delivery)
      <3>1. PICK in \in TraceInputs : Does("trace", in, Out(in))
        BY <2>1, Called DEF TraceOne
      <3>2. in.obs \in Traced /\ in.delivery \in Deliveries /\ in.context \in Contexts
        BY DEF TraceInputs
      <3>3. in.context.trace # "theirs"
        BY <3>2 DEF Contexts
      <3>4. in.obs \in AnyObservation(CaseCodes)
        BY <3>2, TracedAre
      <3>5. Evidences(in, Out(in))
        BY <3>2, <3>3, <3>4, CaseCodesAre, AnyTrace
      <3> QED
        BY <3>1, <3>5 DEF Does
    <2>2. CASE UNCHANGED done
      BY <2>2 DEF TraceIsEvidence
    <2> QED
      BY <2>1, <2>2
  <1> QED
    BY <1>1, <1>2, PTL DEF OperationSpec

------------------------------------------------------------------------------
(* Conformance entries *)

Keys == { "identity", "excerpt", "title", "author", "metadata", "markers", "signals", "mode",
          "oversized", "untyped" }

\* Two observations of a size and of types that can be read are one if what is digested of
\* them is.
LEMMA PayloadTells ==
  ASSUME NEW a \in AnyObservation(CaseCodes), NEW b \in AnyObservation(CaseCodes),
         a.oversized = b.oversized, a.untyped = b.untyped,
         ObservationPayload(a) = ObservationPayload(b)
  PROVE  a = b
  <1>1. a = [f \in Keys |-> a[f]] /\ b = [f \in Keys |-> b[f]]
    BY DEF AnyObservation, Keys
  <1>2. DOMAIN a = Keys /\ DOMAIN b = Keys
    BY <1>1
  <1>3. \A f \in Keys \ {"oversized", "untyped"} : a[f] = b[f]
    <2>1. \A f \in Keys \ {"oversized", "untyped"} :
             ObservationPayload(a)[f] = a[f] /\ ObservationPayload(b)[f] = b[f]
      BY <1>2 DEF ObservationPayload, Restrict
    <2> QED
      BY <2>1
  <1>4. \A f \in Keys : a[f] = b[f]
    BY <1>3
  <1> QED
    BY <1>1, <1>4

\* The observations whose recording has drifted are observations of a fit size and type.
LEMMA DriftsAre ==
  ASSUME NEW obs \in Drifts
  PROVE  obs \in AnyObservation(CaseCodes) /\ obs.oversized = FALSE /\ obs.untyped = {}
  <1> DEFINE Typed == AnyObservation(CaseCodes)
             Sized(o) == o \in Typed /\ o.oversized = FALSE /\ o.untyped = {}
  <1>1. /\ <<>> \in Seq(Tokens) /\ <<"word">> \in Seq(Tokens) /\ <<"secret">> \in Seq(Tokens)
        /\ <<"phone">> \in Seq(Tokens) /\ <<"email">> \in Seq(Tokens) /\ <<"digits">> \in Seq(Tokens)
    BY SomeTextsAre, CaseTokens
  <1>2. Sized(BaseObs)
    BY BaseObsIs DEF BaseObs
  <1>3. ASSUME NEW f \in IdentityFields, NEW t \in Seq(Tokens) PROVE Sized(WithIdentity(f, t))
    <2>1. WithIdentity(f, t) \in Typed
      BY BaseObsIs, IdentityChanged DEF WithIdentity
    <2>2. WithIdentity(f, t).oversized = FALSE /\ WithIdentity(f, t).untyped = {}
      BY DEF WithIdentity, BaseObs
    <2> QED
      BY <2>1, <2>2
  <1>4. ASSUME NEW t \in Seq(Tokens) PROVE Sized([BaseObs EXCEPT !.excerpt = t])
    <2>1. [BaseObs EXCEPT !.excerpt = t] \in Typed
      BY BaseObsIs, TextChanged DEF FreeTexts
    <2>2. [BaseObs EXCEPT !.excerpt = t].oversized = FALSE /\ [BaseObs EXCEPT !.excerpt = t].untyped = {}
      BY DEF BaseObs
    <2> QED
      BY <2>1, <2>2
  <1>5. Sized([BaseObs EXCEPT !.metadata = {Leaf(<<"word">>, "number", <<"digits">>)}])
    <2> DEFINE leaves == {Leaf(<<"word">>, "number", <<"digits">>)}
    <2>1. leaves \subseteq AnyLeaf
      BY <1>1, LeavesAre
    <2> HIDE DEF leaves
    <2>2. [BaseObs EXCEPT !.metadata = leaves] \in Typed
      BY <2>1, BaseObsIs, MetadataChanged
    <2>3. /\ [BaseObs EXCEPT !.metadata = leaves].oversized = FALSE
          /\ [BaseObs EXCEPT !.metadata = leaves].untyped = {}
      BY DEF BaseObs
    <2>4. Sized([BaseObs EXCEPT !.metadata = leaves])
      BY <2>2, <2>3
    <2> QED
      BY <2>4 DEF leaves
  <1>6. Sized([BaseObs EXCEPT !.markers = {"stale_source"}])
    <2>1. {"stale_source"} \in SUBSET Markers
      BY DEF Markers
    <2>2. [BaseObs EXCEPT !.markers = {"stale_source"}] \in Typed
      BY <2>1, BaseObsIs, RestChanged
    <2>3. /\ [BaseObs EXCEPT !.markers = {"stale_source"}].oversized = FALSE
          /\ [BaseObs EXCEPT !.markers = {"stale_source"}].untyped = {}
      BY DEF BaseObs
    <2> QED
      BY <2>2, <2>3
  <1>7. Sized([BaseObs EXCEPT !.mode = "active"])
    <2>1. "active" \in DOMAIN DeliveryMode
      BY DEF DeliveryMode
    <2>2. [BaseObs EXCEPT !.mode = "active"] \in Typed
      BY <2>1, BaseObsIs, RestChanged
    <2>3. [BaseObs EXCEPT !.mode = "active"].oversized = FALSE /\ [BaseObs EXCEPT !.mode = "active"].untyped = {}
      BY DEF BaseObs
    <2> QED
      BY <2>2, <2>3
  <1>8. Sized([BaseObs EXCEPT !.signals = [shape |-> "list", items |-> <<Plain>>]])
    <2> DEFINE signals == [shape |-> "list", items |-> <<Plain>>]
    <2>1. <<Plain>> \in Seq(Signal(CaseCodes))
      <3>1. \A S : \A x \in S : <<x>> \in Seq(S)
        OBVIOUS
      <3> QED
        BY <3>1, SignalsAre
    <2>2. signals \in AllSignals(CaseCodes)
      BY <2>1 DEF AllSignals
    <2> HIDE DEF signals
    <2>3. [BaseObs EXCEPT !.signals = signals] \in Typed
      BY <2>2, BaseObsIs, RestChanged
    <2>4. [BaseObs EXCEPT !.signals = signals].oversized = FALSE /\ [BaseObs EXCEPT !.signals = signals].untyped = {}
      BY DEF BaseObs
    <2>5. Sized([BaseObs EXCEPT !.signals = signals])
      BY <2>3, <2>4
    <2> QED
      BY <2>5 DEF signals
  <1>9. {"evidence_id", "provider_resource_id", "timestamp", "url"} \subseteq IdentityFields
    BY DEF IdentityFields
  <1> HIDE DEF Sized
  <1>10. Sized(obs)
    BY <1>1, <1>2, <1>3, <1>4, <1>5, <1>6, <1>7, <1>8, <1>9 DEF Drifts
  <1> QED
    BY <1>10 DEF Sized

\* The observation of the committed recordings fits.
LEMMA BaseFits == BaseObs \in Committed
  <1>1. <<"word">> \in Seq(Tokens) /\ Len(<<"word">>) = 1 /\ <<"word">>[1] = "word" /\ 1..1 = {1}
    BY SomeTextsAre, CaseTokens
  <1>2. SourceIdValid(<<"word">>)
    BY <1>1 DEF SourceIdValid, Words
  <1>3. DetectSensitive(<<"word">>) = {}
    BY <1>1, Single DEF Clean, Known, Cards, Personal
  <1>4. /\ ~BaseObs.oversized /\ BaseObs.untyped = {} /\ BaseObs.excerpt # <<>> /\ BaseObs.metadata = {}
        /\ \A f \in IdentityFields : BaseObs.identity[f] = <<"word">>
    BY DEF BaseObs
  <1>5. "source_id" \in IdentityFields
    BY DEF IdentityFields
  <1>6. Fit(BaseObs)
    BY <1>2, <1>3, <1>4, <1>5 DEF Fit
  <1> QED
    BY <1>6 DEF Committed, Drifts

\* Entries of all cases: of an observation that may drift, with the artifacts of a fit one.
LEMMA EntriesAre ==
  ASSUME NEW entry \in Entries
  PROVE  AnyEntry(CaseCodes, entry)
  <1>1. PICK r \in Recordings : entry = [r EXCEPT !.expected = Artifacts(r.golden)]
    BY DEF Entries
  <1> DEFINE Recorded(q) == /\ "expected" \in DOMAIN q /\ q.observation \in Drifts
                           /\ q.golden.observation \in Committed
  <1>2. BaseObs \in Drifts /\ BaseObs \in Committed
    BY BaseFits DEF Committed
  <1>3. \A c, receipt, sound : \A obs \in Drifts, committed \in Committed :
            Recorded(Recording(c, receipt, sound, obs, committed))
    BY DEF Recording
  <1>4. Recorded(Base)
    BY <1>2, <1>3 DEF Base
  <1>5. /\ \A receipt : Recorded([Base EXCEPT !.receipt = receipt])
        /\ Recorded([Base EXCEPT !.implemented = FALSE]) /\ Recorded([Base EXCEPT !.recorded = FALSE])
    BY <1>4 DEF Base, Recording
  <1> HIDE DEF Recorded
  <1>6. Recorded(r)
    <2>1. CASE \E c \in Connectors, receipt \in Receipts, sound \in Soundness :
                  r = Acquired(c, receipt, sound)
      BY <1>2, <1>3, <2>1 DEF Acquired
    <2>2. CASE \E obs \in Drifts, committed \in Committed : r = Drifted(obs, committed)
      BY <1>3, <2>2 DEF Drifted
    <2>3. CASE \E receipt \in Receipts : r = Received(receipt)
      BY <1>5, <2>3 DEF Received
    <2>4. CASE r \in Unrecorded
      BY <1>5, <2>4 DEF Unrecorded
    <2> QED
      BY <2>1, <2>2, <2>3, <2>4 DEF Recordings
  <1>7. /\ entry.observation = r.observation /\ entry.golden = r.golden
        /\ entry.expected = Artifacts(entry.golden)
    BY <1>1, <1>6 DEF Recorded
  <1>8. /\ r.observation \in Drifts /\ r.golden.observation \in Drifts /\ Fit(r.golden.observation)
    BY <1>6 DEF Recorded, Committed
  <1> QED
    BY <1>7, <1>8, DriftsAre, PayloadTells DEF AnyEntry

\* A component passes exactly if a real receiver acquired its recording and all of it comes
\* out as committed, and nothing is delivered that has not passed (run_entry): of any entry
\* of any observation.
THEOREM HarnessPassesWhatConforms == OperationSpec => []HarnessGrades
  <1>1. OperationInit => HarnessGrades
    BY DEF OperationInit, HarnessGrades
  <1>2. HarnessGrades /\ [OperationNext]_done => HarnessGrades'
    <2> SUFFICES ASSUME HarnessGrades, [OperationNext]_done, done'.kind = "grade"
                 PROVE  Grades(done'.in[1], done'.in[2], done'.out)
      BY DEF HarnessGrades
    <2>1. CASE OperationNext
      <3>1. PICK entry \in Entries, sink \in {"none", "raises", "gateway", "collecting"} :
                Does("grade", <<entry, sink>>, RunEntry(entry, sink))
        BY <2>1, Called DEF Grade
      <3>2. Grades(entry, sink, RunEntry(entry, sink))
        BY EntriesAre, CaseCodesAre, AnyEntryGraded
      <3>3. done'.in[1] = entry /\ done'.in[2] = sink /\ done'.out = RunEntry(entry, sink)
        BY <3>1 DEF Does
      <3> QED
        BY <3>2, <3>3
    <2>2. CASE UNCHANGED done
      BY <2>2 DEF HarnessGrades
    <2> QED
      BY <2>1, <2>2
  <1> QED
    BY <1>1, <1>2, PTL DEF OperationSpec
------------------------------------------------------------------------------
(* Mods *)

\* What of a reading an artifact may echo.
Echoed(r) ==
    {r.emission.source_id} \cup {ev.identity["ref"] : ev \in EvidenceOf(r)}
        \cup {l.text : l \in {m \in r.emission.metadata : m.kind = "text"}}

Keeps(a, outputs, r) == a.type \in outputs /\ a.numbers = {} /\ a.echoes \subseteq Echoed(r)

AllKept(artifacts, outputs, r) == \A a \in artifacts : Keeps(a, outputs, r)

\* The artifacts of the mods, each where its type is declared.
LEMMA AdviceIs ==
  ASSUME NEW r, NEW outputs, "routing_hint" \in outputs
  PROVE  /\ \A type \in outputs : Keeps(Advice(type, r), outputs, r)
         /\ \A role, priority : Keeps(Route(role, priority, r), outputs, r)
  <1>1. \A type \in outputs : Keeps(Advice(type, r), outputs, r)
    BY DEF Advice, Echoed, Keeps
  <1>2. \A role, priority : Keeps(Route(role, priority, r), outputs, r)
    BY DEF Advice, Route, Echoed, Keeps
  <1> QED
    BY <1>1, <1>2

\* A condition on artifacts that keep to the contract keeps to it.
LEMMA WhenKept ==
  ASSUME NEW c, NEW artifacts, NEW outputs, NEW r, AllKept(artifacts, outputs, r)
  PROVE  AllKept(When(c, artifacts), outputs, r)
  BY DEF AllKept, When

\* A mod's artifacts are of the types it declares, with no numbers, and echo nothing else.
LEMMA ModsKept ==
  ASSUME NEW r
  PROVE  \A id \in DOMAIN Outputs : AllKept(Bundled(r)[id], DeclaredBy(id).outputs, r)
  <1> DEFINE O(some) == some \cup {"routing_hint"}
             A == "source_evidence_annotation"
             R == "advisory_governance_result"
             Q == "suggested_review_question"
  <1>1. AllKept(NoisySourceGate(r), O({R}), r)
    BY AdviceIs DEF NoisySourceGate, AllKept, When, Result
  <1>2. AllKept(SecurityMentions(r), O({R, A}), r)
    BY AdviceIs DEF SecurityMentions, AllKept, When, Result, Annotation
  <1>3. AllKept(NotificationScopeRisk(r), O({R, Q}), r)
    BY AdviceIs DEF NotificationScopeRisk, AllKept, When, Result, Question
  <1>4. AllKept(AuthorityBoundary(r), O({R, A, Q}), r)
    BY AdviceIs DEF AuthorityBoundary, AllKept, When, Result, Annotation, Question
  <1>5. AllKept(SourceTrustCalibration(r), O({R, A}), r)
    BY AdviceIs DEF SourceTrustCalibration, AllKept, When, Result, Annotation
  <1>6. AllKept(AiAuthorshipReview(r), O({R, Q}), r)
    BY AdviceIs DEF AiAuthorshipReview, AllKept, When, Result, Question
  <1>7. AllKept(DependencyRisk(r), O({"dependency_signal", A}), r)
    <2> DEFINE outputs == O({"dependency_signal", A})
               echoes == {ev.identity["ref"] : ev \in EvidenceOf(r)}
                            \cup {l.text : l \in {m \in r.emission.metadata : m.kind = "text"}}
               priority == IF "catalogued" \in r.says THEN "high" ELSE "normal"
               Echoing(a) == [a EXCEPT !.echoes = echoes]
    <2>1. echoes \subseteq Echoed(r)
      BY DEF Echoed
    <2>2. DependencyRisk(r) =
             IF r.kind = "vulnerability"
             THEN { Echoing(Advice("dependency_signal", r)), Echoing(Route("security", priority, r)),
                    Echoing(Annotation(r)) }
             ELSE When("dependency file" \in r.says, {Advice("dependency_signal", r), Annotation(r)})
      BY DEF DependencyRisk
    <2> HIDE DEF echoes
    <2>3. Keeps(Echoing(Advice("dependency_signal", r)), outputs, r) /\ Keeps(Echoing(Annotation(r)), outputs, r)
      BY <2>1 DEF Keeps, Advice, Annotation
    <2>4. Keeps(Echoing(Route("security", priority, r)), outputs, r)
      BY <2>1 DEF Keeps, Advice, Route
    <2> HIDE DEF Echoing, priority
    <2>5. AllKept({Advice("dependency_signal", r), Annotation(r)}, outputs, r)
      BY AdviceIs DEF AllKept, Annotation
    <2>6. AllKept({ Echoing(Advice("dependency_signal", r)), Echoing(Route("security", priority, r)),
                 Echoing(Annotation(r)) }, outputs, r)
      BY <2>3, <2>4 DEF AllKept
    <2> QED
      BY <2>2, <2>5, <2>6, WhenKept
  <1>8. AllKept(ConnectorFreshness(r), O({R, A}), r)
    BY AdviceIs DEF ConnectorFreshness, AllKept, When, Result, Annotation
  <1>9. AllKept(AdapterContract(r), O({R, A}), r)
    BY AdviceIs DEF AdapterContract, AllKept, When, Result, Annotation
  <1>10. AllKept(DataClassification(r), O({R, A}), r)
    BY AdviceIs DEF DataClassification, AllKept, When, Result, Annotation
  <1>11. AllKept(CrossSystemReference(r), O({A, Q}), r)
    BY AdviceIs DEF CrossSystemReference, AllKept, When, Question, Annotation
  <1>12. AllKept(OwnershipRouting(r), O({"owner_lens_hint", A}), r)
    BY AdviceIs DEF OwnershipRouting, AllKept, When, Annotation
  <1>13. AllKept(PolicyExemptionAudit(r), O({R, Q}), r)
    BY AdviceIs DEF PolicyExemptionAudit, AllKept, When, Result, Question
  <1>14. AllKept(WebhookRisk(r), O({R, A}), r)
    BY AdviceIs DEF WebhookRisk, AllKept, When, Result, Annotation
  <1>15. AllKept(ComplianceRouting(r), O({R, Q}), r)
    BY AdviceIs DEF ComplianceRouting, AllKept, When, Result, Question
  <1>16. AllKept(CodeReviewRisk(r), O({R, A, Q}), r)
    BY AdviceIs DEF CodeReviewRisk, AllKept, When, Result, Annotation, Question
  <1>17. AllKept(DecisionDrift(r), O({R, A, Q}), r)
    BY AdviceIs DEF DecisionDrift, AllKept, When, Result, Annotation, Question
  <1>18. AllKept(TestAdequacy(r), O({R, A, Q}), r)
    BY AdviceIs DEF TestAdequacy, AllKept, When, Result, Annotation, Question
  <1> QED
    BY <1>1, <1>2, <1>3, <1>4, <1>5, <1>6, <1>7, <1>8, <1>9, <1>10, <1>11, <1>12, <1>13, <1>14, <1>15,
       <1>16, <1>17, <1>18, SMTT(60) DEF Bundled, Outputs, DeclaredBy

\* No manifest of a bundled mod is refused.
LEMMA OutputsKnown ==
  \A id \in DOMAIN Outputs : ~ManifestRefused(DeclaredBy(id), DeclaredBy(id))
  BY DEF Outputs, DeclaredBy, ManifestRefused, KnownOutputs

\* What validate_emissions lets pass has nothing sensitive in what a mod may echo.
LEMMA EchoesClean ==
  ASSUME NEW r, Violation(r.emission) = "", \A ev \in EvidenceOf(r) : "ref" \in DOMAIN ev.identity
  PROVE  \A t \in Echoed(r) : DetectSensitive(t) = {}
  <1> DEFINE e == r.emission
  <1>1. \A t \in ScreenedTexts(e) : DetectSensitive(t) = {}
    BY DEF Violation
  <1>2. e.source_id \in ScreenedTexts(e)
    BY DEF ScreenedTexts
  <1>3. ASSUME NEW ev \in EvidenceOf(r)
         PROVE  ev.identity["ref"] \in ScreenedTexts(e)
    <2> DEFINE Of(v) == {v.excerpt, v.author} \cup {v.identity[f] : f \in DOMAIN v.identity}
               all == UNION {Of(v) : v \in Range(e.evidence)}
    <2>1. ev.identity["ref"] \in Of(ev)
      OBVIOUS
    <2>2. ev \in Range(e.evidence)
      BY DEF EvidenceOf
    <2>3. \A v \in Range(e.evidence) : Of(v) \subseteq all
      <3> HIDE DEF Of
      <3> QED
        OBVIOUS
    <2>4. all \subseteq ScreenedTexts(e)
      BY DEF ScreenedTexts
    <2> HIDE DEF Of, all
    <2> QED
      BY <2>1, <2>2, <2>3, <2>4
  <1>4. \A l \in e.metadata : l.kind = "text" => l.text \in ScreenedTexts(e)
    BY DEF ScreenedTexts
  <1> HIDE DEF e
  <1> QED
    BY <1>1, <1>2, <1>3, <1>4 DEF Echoed, e

\* run_mod runs a bundled mod if and only if the emission is valid.
LEMMA ModsRun ==
  ASSUME NEW r, \A ev \in EvidenceOf(r) : "ref" \in DOMAIN ev.identity, NEW id \in DOMAIN Outputs
  PROVE  RunBundled(id, <<r>>) = (IF Violation(r.emission) = "" THEN "ok" ELSE "input_refused")
  <1> DEFINE mod == DeclaredBy(id)
             readings == <<r>>
             artifacts == UNION {Bundled(readings[i])[id] : i \in DOMAIN readings}
  <1>1. RunBundled(id, <<r>>) = RunMod(mod, mod, readings, artifacts)
    BY DEF RunBundled
  <1>2. DOMAIN readings = {1} /\ readings[1] = r
    OBVIOUS
  <1> HIDE DEF readings
  <1>3. \A a \in artifacts : a \in Bundled(r)[id]
    BY <1>2
  <1>4. ~ManifestRefused(mod, mod)
    BY OutputsKnown
  <1>5. AllKept(Bundled(r)[id], mod.outputs, r)
    BY ModsKept
  <1> HIDE DEF mod, artifacts
  <1>6. \A a \in artifacts : Keeps(a, mod.outputs, r)
    BY <1>3, <1>5 DEF AllKept
  <1>7. CASE Violation(r.emission) # ""
    BY <1>1, <1>2, <1>7 DEF RunMod
  <1>8. CASE Violation(r.emission) = ""
    <2>1. \A t \in Echoed(r) : DetectSensitive(t) = {}
      BY <1>8, EchoesClean
    <2>2. \A a \in artifacts : a.type \in mod.outputs
      BY <1>6 DEF Keeps
    <2>3. \A a \in artifacts : OpaqueScores(a) = {}
      BY <1>6 DEF Keeps, OpaqueScores
    <2>4. \A a \in artifacts : \A t \in a.echoes : DetectSensitive(t) = {}
      BY <1>6, <2>1 DEF Keeps
    <2>5. \A i \in DOMAIN readings : Violation(readings[i].emission) = ""
      BY <1>2, <1>8
    <2> QED
      BY <1>1, <1>4, <1>8, <2>2, <2>3, <2>4, <2>5 DEF RunMod
  <1> QED
    BY <1>7, <1>8

\* What is too weak a sign routes nobody.
LEMMA WeakRoutesNobody ==
  ASSUME NEW r, r.says \in Weak, r.kind # "vulnerability"
  PROVE  /\ Routed(DependencyRisk(r)) = {} /\ Routed(ConnectorFreshness(r)) = {}
         /\ Routed(WebhookRisk(r)) = {} /\ Routed(DecisionDrift(r)) = {} /\ Routed(TestAdequacy(r)) = {}
  <1>1. /\ "breaking change" \notin r.says /\ "webhook risk" \notin r.says /\ "conflict" \notin r.says
        /\ "behavior" \in r.says => "test" \in r.says
    BY DEF Weak
  <1>2. Annotation(r).type # "routing_hint" /\ Advice("dependency_signal", r).type # "routing_hint"
    BY DEF Annotation, Advice
  <1>3. Routed(DependencyRisk(r)) = {}
    BY <1>2 DEF DependencyRisk, When, Routed
  <1>4. Routed(ConnectorFreshness(r)) = {}
    BY <1>1, <1>2 DEF ConnectorFreshness, When, Routed
  <1>5. Routed(WebhookRisk(r)) = {}
    BY <1>1, <1>2 DEF WebhookRisk, When, Routed
  <1>6. Routed(DecisionDrift(r)) = {}
    BY <1>1 DEF DecisionDrift, When, Routed
  <1>7. Routed(TestAdequacy(r)) = {}
    BY <1>1 DEF TestAdequacy, When, Routed
  <1> QED
    BY <1>3, <1>4, <1>5, <1>6, <1>7

\* run_mods, on any emission with referenced evidence and whatever it says: every bundled
\* mod stays inside its manifest, runs only on what keeps the contract, asks for restricted
\* review where the redactor has been, and routes nobody on a weak sign (KeepsContract).
THEOREM AnyReading ==
  ASSUME NEW r, \A ev \in EvidenceOf(r) : "ref" \in DOMAIN ev.identity, NEW out,
         out.said = Bundled(r), out.ran = [id \in DOMAIN Outputs |-> RunBundled(id, <<r>>)]
  PROVE  KeepsContract(r, out)
  <1> DEFINE fit == Violation(r.emission) = ""
             cut == (Range(r.emission.title) \cup Range(r.emission.body))
                        \cap {"[secret]", "[email]", "[phone]", "[pan]", "[phi]"} # {}
  <1>1. \A id \in DOMAIN out.ran : out.ran[id] = (IF fit THEN "ok" ELSE "input_refused")
    BY ModsRun
  <1>2. cut => \E a \in Routed(out.said.data_classification) : a.role = "restricted-review"
    <2> SUFFICES ASSUME cut
                 PROVE  \E a \in Routed(DataClassification(r)) : a.role = "restricted-review"
      BY DEF Bundled
    <2>1. Route("restricted-review", "normal", r) \in DataClassification(r)
      BY DEF DataClassification, When, Placeholders
    <2>2. /\ Route("restricted-review", "normal", r).role = "restricted-review"
          /\ Route("restricted-review", "normal", r).type = "routing_hint"
      BY DEF Route, Advice
    <2> QED
      BY <2>1, <2>2 DEF Routed
  <1>3. r.says \in Weak /\ r.kind # "vulnerability" =>
            \A id \in { "dependency_risk", "connector_freshness", "webhook_risk", "decision_drift",
                        "test_adequacy" } : Routed(out.said[id]) = {}
    BY WeakRoutesNobody DEF Bundled
  <1> QED
    BY <1>1, <1>2, <1>3 DEF KeepsContract

\* run_mod accepts no artifact, however its numbers are nested, that is of a type the mod
\* does not declare, echoes what is sensitive or has a score, but for a score inside a list
\* inside a list, where the walk does not go (ScoresNothing).
THEOREM AnyArtifact ==
  ASSUME NEW a, \A path \in a.numbers : path \in Seq({"score", "key", "item"}),
         NEW mod, mod = DeclaredBy("noisy_source_gate")
  PROVE  ScoresNothing(a, RunMod(mod, mod, <<>>, {a}))
  <1> SUFFICES ASSUME RunMod(mod, mod, <<>>, {a}) = "ok"
               PROVE  /\ a.type \in mod.outputs /\ \A t \in a.echoes : DetectSensitive(t) = {}
                      /\ \A path \in a.numbers : "score" \in Range(path) =>
                            \E i \in 2..Len(path) : path[i - 1] = "item" /\ path[i] = "item"
    BY DEF ScoresNothing
  <1>1. a.type \in mod.outputs /\ OpaqueScores(a) = {} /\ \A t \in a.echoes : DetectSensitive(t) = {}
    BY DEF RunMod
  <1>2. ASSUME NEW path \in a.numbers, "score" \in Range(path)
         PROVE  \E i \in 2..Len(path) : path[i - 1] = "item" /\ path[i] = "item"
    <2>1. ~Walked(path)
      BY <1>1, <1>2 DEF OpaqueScores
    <2>2. PICK i \in 1..(Len(path) - 1) : path[i] = "item" /\ path[i + 1] = "item"
      BY <2>1 DEF Walked
    <2>3. Len(path) \in Nat
      OBVIOUS
    <2>4. i + 1 \in 2..Len(path) /\ (i + 1) - 1 = i
      BY <2>3
    <2> QED
      BY <2>2, <2>4
  <1> QED
    BY <1>1, <1>2

\* The observations the mods' emissions are made of.
LEMMA ModObservationsAre == ModObservations \subseteq AnyObservation(CaseCodes)
  <1> DEFINE Typed == AnyObservation(CaseCodes)
             id == [f \in IdentityFields |-> <<"word">>]
  <1>1. /\ <<>> \in Seq(Tokens) /\ <<"word">> \in Seq(Tokens) /\ <<"digits">> \in Seq(Tokens)
        /\ <<"secret">> \in Seq(Tokens) /\ <<"card">> \in Seq(Tokens)
        /\ <<"word", "email">> \in Seq(Tokens)
    BY SomeTextsAre, CaseTokens
  <1>2. id \in [IdentityFields -> Seq(Tokens)]
    BY <1>1
  <1>3. /\ "webhook" \in DOMAIN DeliveryMode /\ {"ref", "url"} \subseteq IdentityFields
        /\ {"excerpt", "title", "author"} \subseteq FreeTexts
    BY DEF DeliveryMode, IdentityFields, FreeTexts
  <1>4. ModObs = [ identity |-> id, excerpt |-> <<"word">>, title |-> <<"digits">>,
                   author |-> <<"word">>, metadata |-> {}, markers |-> {}, signals |-> NoSignals,
                   mode |-> "webhook", oversized |-> FALSE, untyped |-> {} ]
    BY DEF ModObs, NoSignals
  <1> HIDE DEF id
  <1>5. ModObs \in Typed
    BY <1>1, <1>2, <1>3, <1>4, NoSignalsAre DEF AnyObservation
  <1>6. /\ [ModObs EXCEPT !.excerpt = <<"word", "email">>] \in Typed
        /\ [ModObs EXCEPT !.title = <<"secret">>] \in Typed /\ [ModObs EXCEPT !.author = <<>>] \in Typed
    BY <1>1, <1>3, <1>5, TextChanged
  <1>7. [ModObs EXCEPT !.identity["ref"] = <<>>, !.identity["url"] = <<>>] \in Typed
    <2>1. [ModObs EXCEPT !.identity["ref"] = <<>>] \in Typed
      BY <1>1, <1>3, <1>5, IdentityChanged
    <2>2. [[ModObs EXCEPT !.identity["ref"] = <<>>] EXCEPT !.identity["url"] = <<>>] \in Typed
      BY <1>1, <1>3, <2>1, IdentityChanged
    <2> QED
      BY <2>2
  <1>8. [ModObs EXCEPT !.metadata = {[key |-> <<"word">>, kind |-> "text", text |-> <<"card">>]}] \in Typed
    <2>1. Leaf(<<"word">>, "text", <<"card">>) \in AnyLeaf
      BY <1>1, LeavesAre
    <2>2. {[key |-> <<"word">>, kind |-> "text", text |-> <<"card">>]} \subseteq AnyLeaf
      BY <2>1 DEF Leaf
    <2> QED
      BY <1>5, <2>2, MetadataChanged
  <1> HIDE DEF Typed
  <1>9. ModObservations \subseteq Typed
    BY <1>5, <1>6, <1>7, <1>8 DEF ModObservations
  <1> QED
    BY <1>9 DEF Typed

\* Evidence one can look for a reference in.
Referenced(e) == \A ev \in Range(e.evidence) : "ref" \in DOMAIN ev.identity

\* The emissions the mods read have evidence with a reference.
LEMMA ModEmissionsAre ==
  ASSUME NEW e \in ModEmissions
  PROVE  Referenced(e)
  <1>1. ASSUME NEW obs \in AnyObservation(CaseCodes)
         PROVE  LET b == Built(obs) IN
                /\ DOMAIN b = EmissionKeys /\ DOMAIN b.evidence = {1}
                /\ DOMAIN b.evidence[1] = {"identity", "excerpt", "author"}
                /\ "ref" \in DOMAIN b.evidence[1].identity
    <2>1. Parts(CaseCodes, obs, Built(obs))
      BY CaseCodesAre, BuiltIs
    <2>2. "ref" \in EvidenceFields
      BY DEF EvidenceFields, IdentityFields
    <2>3. "ref" \in DOMAIN Restrict(obs.identity, EvidenceFields)
      BY <2>2 DEF Restrict
    <2>4. Built(obs).evidence = <<[identity |-> Restrict(obs.identity, EvidenceFields),
                       excerpt |-> Redact(obs.excerpt), author |-> Redact(obs.author)]>>
      BY <2>1 DEF Parts
    <2> QED
      BY <2>1, <2>3, <2>4 DEF Parts
  <1>2. CASE \E obs \in ModObservations : e = Built(obs)
    BY <1>1, <1>2, ModObservationsAre DEF Referenced, Range
  <1>3. CASE e \in Broken(ModEmission)
    <2> DEFINE b == ModEmission
               v == b.evidence[1]
               id == v.identity
    <2>1. /\ DOMAIN b = EmissionKeys /\ DOMAIN b.evidence = {1} /\ "evidence" \in EmissionKeys
          /\ DOMAIN v = {"identity", "excerpt", "author"} /\ "ref" \in DOMAIN id
      BY <1>1, ModObservationsAre DEF ModEmission, ModObservations, EmissionKeys
    <2> HIDE DEF b, v, id
    <2>2. CASE e = [ModEmission EXCEPT !.evidence[1].excerpt = <<>>]
      <3>1. /\ DOMAIN e.evidence = {1} /\ e.evidence[1] = [v EXCEPT !.excerpt = <<>>]
        BY <2>1, <2>2 DEF b, v
      <3>2. e.evidence[1].identity = id
        BY <2>1, <3>1 DEF id
      <3> QED
        BY <2>1, <3>1, <3>2 DEF Referenced, Range
    <2>3. CASE e = [ModEmission EXCEPT !.evidence[1].identity["ref"] = <<"secret">>]
      <3>1. /\ DOMAIN e.evidence = {1}
            /\ e.evidence[1] = [v EXCEPT !.identity = [id EXCEPT !["ref"] = <<"secret">>]]
        BY <2>1, <2>3 DEF b, v, id
      <3>2. DOMAIN e.evidence[1].identity = DOMAIN id
        BY <2>1, <3>1
      <3> QED
        BY <2>1, <3>1, <3>2 DEF Referenced, Range
    <2> QED
      BY <1>3, <2>2, <2>3 DEF Broken
  <1> QED
    BY <1>2, <1>3 DEF ModEmissions

\* The readings of the cases have evidence with a reference.
LEMMA ReadingsAre ==
  ASSUME NEW r \in Readings
  PROVE  \A ev \in EvidenceOf(r) : "ref" \in DOMAIN ev.identity
  <1>1. \A emission, source, kind, says, systems, owners :
            Reading(emission, source, kind, says, systems, owners).emission = emission
    BY DEF Reading
  <1>2. r.emission \in ModEmissions \/ r.emission = ModEmission
    BY <1>1 DEF Readings
  <1>3. ModEmission \in ModEmissions
    BY DEF ModEmission, ModEmissions, ModObservations
  <1> QED
    BY <1>2, <1>3, ModEmissionsAre DEF EvidenceOf, Referenced

\* The paths to the numbers of an artifact.
LEMMA ModArtifactsAre ==
  ASSUME NEW a \in ModArtifacts
  PROVE  \A path \in a.numbers : path \in Seq({"score", "key", "item"})
  <1>1. ASSUME NEW path \in Paths
         PROVE  path \in Seq({"score", "key", "item"})
    <2> DEFINE S == {"score", "key", "item"}
    <2>1. Paths = UNION {[1..n -> S] : n \in 1..4}
      BY DEF Paths
    <2> HIDE DEF S
    <2>2. PICK n \in 1..4 : path \in [1..n -> S]
      BY <2>1
    <2>3. path \in Seq(S)
      BY <2>2
    <2> QED
      BY <2>3 DEF S
  <1>2. DOMAIN Scored = {"type", "numbers", "echoes"} /\ Scored.numbers = {}
    BY DEF Scored
  <1>3. a.numbers = {} \/ \E path \in Paths : a.numbers = {path}
    BY <1>2 DEF ModArtifacts
  <1> QED
    BY <1>1, <1>3

\* run_mods holds every bundled mod to its manifest, whatever it is given to read, and
\* run_mod any artifact to the manifest of its mod.
THEOREM ModsStayAdvisory == OperationSpec => []ModsKeepTheirContract
  <1>1. OperationInit => ModsKeepTheirContract
    BY DEF OperationInit, ModsKeepTheirContract
  <1>2. ModsKeepTheirContract /\ [OperationNext]_done => ModsKeepTheirContract'
    <2> SUFFICES ASSUME ModsKeepTheirContract, [OperationNext]_done
                 PROVE  /\ done'.kind = "mods" => KeepsContract(done'.in, done'.out)
                        /\ done'.kind = "artifact" => ScoresNothing(done'.in, done'.out)
      BY DEF ModsKeepTheirContract
    <2>1. CASE OperationNext
      <3>1. ASSUME done'.kind = "mods" PROVE KeepsContract(done'.in, done'.out)
        <4> DEFINE Out(r) == [ said |-> Bundled(r),
                               ran  |-> [id \in DOMAIN Outputs |-> RunBundled(id, <<r>>)] ]
        <4>1. PICK r \in Readings : Does("mods", r, Out(r))
          BY <2>1, <3>1, Called DEF RunMods
        <4>2. KeepsContract(r, Out(r))
          BY ReadingsAre, AnyReading
        <4> QED
          BY <4>1, <4>2 DEF Does
      <3>2. ASSUME done'.kind = "artifact" PROVE ScoresNothing(done'.in, done'.out)
        <4> DEFINE mod == DeclaredBy("noisy_source_gate")
        <4>1. PICK a \in ModArtifacts : Does("artifact", a, RunMod(mod, mod, <<>>, {a}))
          BY <2>1, <3>2, Called DEF RunOneMod
        <4>2. ScoresNothing(a, RunMod(mod, mod, <<>>, {a}))
          BY ModArtifactsAre, AnyArtifact
        <4> QED
          BY <4>1, <4>2 DEF Does
      <3> QED
        BY <3>1, <3>2
    <2>2. CASE UNCHANGED done
      BY <2>2 DEF ModsKeepTheirContract
    <2> QED
      BY <2>1, <2>2
  <1> QED
    BY <1>1, <1>2, PTL DEF OperationSpec

------------------------------------------------------------------------------
(* Manifests *)

\* Any file: lines of any keys and values, in any order.
AnyFile(lines) ==
    /\ Len(lines) \in Nat /\ DOMAIN lines = 1..Len(lines)
    /\ \A i \in DOMAIN lines : lines[i].kind \in {"blank", "bad", "item", "key"}

\* The list that line i is in, if any.
Open(lines, i) ==
    LET u == Under(lines, i) IN
    IF u # 0 /\ lines[u].key \in ListKeys THEN lines[u].key ELSE "none"

IsKey(line, key) == line.kind = "key" /\ line.key = key

\* A key that was there before.
Repeated(lines, i) == \E j \in 1..(i - 1) : IsKey(lines[j], lines[i].key)

\* A line no manifest has where it is.
Wrong(lines, i) ==
    \/ lines[i].kind = "bad"
    \/ lines[i].kind = "item" /\ Open(lines, i) = "none"
    \/ /\ lines[i].kind = "key"
       /\ \/ lines[i].key \notin ScalarKeys \cup ListKeys
          \/ lines[i].key \in ListKeys /\ lines[i].value # "nothing"
          \/ Repeated(lines, i)

KeysRead(lines, n, keys) == {k \in keys : \E i \in 1..n : IsKey(lines[i], k)}

Filled(lines, n) ==
    {k \in ScalarKeys : \E i \in 1..n : IsKey(lines[i], k) /\ lines[i].value # "nothing"}

Forbids(lines, i) == lines[i].kind = "item" /\ Open(lines, i) = "forbidden_actions"

\* What the reader knows after n lines.
Knows(lines, n, state) ==
    /\ state.scalars = KeysRead(lines, n, ScalarKeys)
    /\ state.lists = KeysRead(lines, n, ListKeys)
    /\ state.filled = Filled(lines, n)
    /\ state.current = Open(lines, n + 1)
    /\ state.forbidden \in Nat
    /\ state.forbidden > 0 <=> \E i \in 1..n : Forbids(lines, i)

ReaderState == {"failed", "scalars", "filled", "lists", "current", "forbidden"}

\* The inductive invariant of the reader.
ReadSoFar(lines, n, state) ==
    /\ AnyFile(lines) /\ n \in 0..Len(lines) /\ DOMAIN state = ReaderState
    /\ state.failed = (\E i \in 1..n : Wrong(lines, i))
    /\ ~state.failed => Knows(lines, n, state)

\* The line after a key is under it, the line after any other where that one was.
LEMMA OpenStep ==
  ASSUME NEW lines, AnyFile(lines), NEW i \in 1..Len(lines)
  PROVE  Open(lines, i + 1) = IF lines[i].kind # "key" THEN Open(lines, i)
                              ELSE IF lines[i].key \in ListKeys THEN lines[i].key ELSE "none"
  <1> USE DEF AnyFile
  <1> DEFINE above(n) == {j \in 1..(n - 1) : lines[j].kind = "key"}
             top(n) == CHOOSE j \in above(n) : \A k \in above(n) : k <= j
  <1>1. \A n : Under(lines, n) = IF above(n) = {} THEN 0 ELSE top(n)
    BY DEF Under
  <1>2. CASE lines[i].kind # "key"
    <2>1. above(i + 1) = above(i)
      BY <1>2
    <2>2. Under(lines, i + 1) = Under(lines, i)
      BY <1>1, <2>1
    <2> QED
      BY <1>2, <2>2 DEF Open
  <1>3. CASE lines[i].kind = "key"
    <2>1. i \in above(i + 1) /\ \A k \in above(i + 1) : k \in Nat /\ k <= i
      BY <1>3
    <2>2. top(i + 1) = i
      <3> HIDE DEF above
      <3> QED
        BY <2>1
    <2>3. Under(lines, i + 1) = i /\ i # 0
      BY <1>1, <2>1, <2>2
    <2> QED
      BY <1>3, <2>3 DEF Open
  <1> QED
    BY <1>2, <1>3

\* The invariant of the reader before the first line.
LEMMA NothingRead ==
  ASSUME NEW lines, AnyFile(lines)
  PROVE  ReadSoFar(lines, 0, Unread)
  <1>1. Under(lines, 1) = 0
    BY DEF Under
  <1>2. Open(lines, 0 + 1) = "none"
    BY <1>1 DEF Open
  <1> QED
    BY <1>2 DEF ReadSoFar, Knows, Unread, ReaderState, KeysRead, Filled

\* The reader keeps its invariant over a line, whatever the line is.
LEMMA OneMoreRead ==
  ASSUME NEW lines, NEW n, NEW state, ReadSoFar(lines, n, state), n < Len(lines), ~state.failed
  PROVE  ReadSoFar(lines, n + 1, ReadLine(state, lines[n + 1]))
  <1> DEFINE i == n + 1
             line == lines[i]
             next == ReadLine(state, line)
  <1>1. /\ AnyFile(lines) /\ n \in Nat /\ i \in 1..Len(lines)
        /\ line.kind \in {"blank", "bad", "item", "key"}
        /\ DOMAIN state = ReaderState /\ Knows(lines, n, state)
        /\ \A j \in 1..n : ~Wrong(lines, j)
    BY DEF ReadSoFar, AnyFile
  <1>2. i \in 0..Len(lines) /\ 1..i = 1..n \cup {i}
    BY <1>1
  <1>3. Open(lines, i + 1) = IF line.kind # "key" THEN Open(lines, i)
                             ELSE IF line.key \in ListKeys THEN line.key ELSE "none"
    BY <1>1, OpenStep
  <1>4. Wrong(lines, i) <=>
            \/ line.kind = "bad" \/ (line.kind = "item" /\ state.current = "none")
            \/ /\ line.kind = "key"
               /\ \/ line.key \notin ScalarKeys \cup ListKeys
                  \/ line.key \in ListKeys /\ line.value # "nothing"
                  \/ line.key \in state.scalars \cup state.lists
    <2>1. 1..(i - 1) = 1..n
      BY <1>1
    <2>2. line.key \in ScalarKeys \cup ListKeys =>
            (line.key \in state.scalars \cup state.lists <=> \E j \in 1..n : IsKey(lines[j], line.key))
      BY <1>1 DEF Knows, KeysRead
    <2>3. state.current = Open(lines, i)
      BY <1>1 DEF Knows
    <2> HIDE DEF line, i
    <2>4. Wrong(lines, i) <=>
            \/ line.kind = "bad" \/ (line.kind = "item" /\ Open(lines, i) = "none")
            \/ /\ line.kind = "key"
               /\ \/ line.key \notin ScalarKeys \cup ListKeys
                  \/ line.key \in ListKeys /\ line.value # "nothing"
                  \/ Repeated(lines, i)
      BY DEF Wrong, line
    <2>5. Repeated(lines, i) <=> \E j \in 1..n : IsKey(lines[j], line.key)
      BY <2>1 DEF Repeated, line
    <2> QED
      BY <2>2, <2>3, <2>4, <2>5
  <1>5. ScalarKeys \cap ListKeys = {} /\ "none" \notin ListKeys
    BY DEF ScalarKeys, ListKeys
  <1>6. (\E j \in 1..i : Wrong(lines, j)) <=> Wrong(lines, i)
    BY <1>1, <1>2
  <1>7. \A keys : KeysRead(lines, i, keys) = KeysRead(lines, n, keys) \cup {k \in keys : IsKey(line, k)}
    BY <1>2 DEF KeysRead
  <1>8. Filled(lines, i) = Filled(lines, n) \cup {k \in ScalarKeys : IsKey(line, k) /\ line.value # "nothing"}
    BY <1>2 DEF Filled
  <1>9. (\E j \in 1..i : Forbids(lines, j)) <=> (Forbids(lines, i) \/ \E j \in 1..n : Forbids(lines, j))
    BY <1>2
  <1>10. state.current = Open(lines, i)
    BY <1>1 DEF Knows
  <1>11. lines[i] = line
    OBVIOUS
  <1>12. state.scalars \subseteq ScalarKeys /\ state.lists \subseteq ListKeys
    BY <1>1 DEF Knows, KeysRead
  <1> SUFFICES ReadSoFar(lines, i, next)
    OBVIOUS
  <1> DEFINE kind == line.kind
             key == line.key
  <1> HIDE DEF line, i
  <1>13. DOMAIN next = ReaderState
    BY <1>1 DEF ReadLine
  <1>14. Forbids(lines, i) <=> kind = "item" /\ state.current = "forbidden_actions"
    BY <1>10, <1>11 DEF Forbids
  <1>15. CASE kind = "blank"
    <2>1. next = state
      BY <1>15 DEF ReadLine
    <2>2. ~Wrong(lines, i) /\ ~Forbids(lines, i) /\ \A k : ~IsKey(line, k)
      BY <1>4, <1>14, <1>15 DEF IsKey
    <2>3. Knows(lines, i, next)
      BY <1>1, <1>3, <1>7, <1>8, <1>9, <1>10, <1>15, <2>1, <2>2 DEF Knows
    <2> QED
      BY <1>1, <1>2, <1>6, <2>1, <2>2, <2>3 DEF ReadSoFar
  <1>16. CASE Wrong(lines, i)
    <2>1. next = [state EXCEPT !.failed = TRUE]
      BY <1>4, <1>5, <1>1, <1>12, <1>16 DEF ReadLine
    <2>2. next.failed = TRUE
      BY <1>1, <2>1 DEF ReaderState
    <2> QED
      BY <1>1, <1>2, <1>6, <1>13, <1>16, <2>2 DEF ReadSoFar
  <1>17. CASE kind = "item" /\ ~Wrong(lines, i)
    <2> DEFINE more == IF state.current = "forbidden_actions" THEN state.forbidden + 1 ELSE state.forbidden
    <2>1. next = [state EXCEPT !.forbidden = more]
      BY <1>4, <1>17 DEF ReadLine
    <2>2. /\ next.scalars = state.scalars /\ next.lists = state.lists /\ next.filled = state.filled
          /\ next.current = state.current /\ next.failed = state.failed /\ next.forbidden = more
      BY <1>1, <2>1 DEF ReaderState
    <2>3. \A k : ~IsKey(line, k)
      BY <1>17 DEF IsKey
    <2>4. more \in Nat /\ (more > 0 <=> \E j \in 1..i : Forbids(lines, j))
      BY <1>1, <1>9, <1>14, <1>17 DEF Knows
    <2> HIDE DEF next, more
    <2>5. Knows(lines, i, next)
      BY <1>1, <1>3, <1>7, <1>8, <1>10, <1>17, <2>2, <2>3, <2>4 DEF Knows
    <2> QED
      BY <1>1, <1>2, <1>6, <1>13, <1>17, <2>2, <2>5 DEF ReadSoFar
  <1>18. CASE kind = "key" /\ key \in ScalarKeys /\ ~Wrong(lines, i)
    <2> DEFINE filled == IF line.value = "nothing" THEN state.filled ELSE state.filled \cup {key}
    <2>1. next = [state EXCEPT !.scalars = @ \cup {key}, !.filled = filled, !.current = "none"]
      BY <1>4, <1>5, <1>18 DEF ReadLine
    <2>2. /\ next.scalars = state.scalars \cup {key} /\ next.lists = state.lists /\ next.filled = filled
          /\ next.current = "none" /\ next.failed = state.failed /\ next.forbidden = state.forbidden
      BY <1>1, <2>1 DEF ReaderState
    <2> HIDE DEF next
    <2>3. \A k : IsKey(line, k) <=> k = key
      BY <1>18 DEF IsKey
    <2>4. /\ {k \in ScalarKeys : IsKey(line, k)} = {key} /\ {k \in ListKeys : IsKey(line, k)} = {}
          /\ {k \in ScalarKeys : IsKey(line, k) /\ line.value # "nothing"}
                = IF line.value = "nothing" THEN {} ELSE {key}
      BY <1>5, <1>18, <2>3
    <2>5. next.scalars = KeysRead(lines, i, ScalarKeys) /\ next.lists = KeysRead(lines, i, ListKeys)
      <3>1. state.scalars = KeysRead(lines, n, ScalarKeys) /\ state.lists = KeysRead(lines, n, ListKeys)
        BY <1>1 DEF Knows
      <3>2. /\ KeysRead(lines, i, ScalarKeys) = KeysRead(lines, n, ScalarKeys) \cup {k \in ScalarKeys : IsKey(line, k)}
            /\ KeysRead(lines, i, ListKeys) = KeysRead(lines, n, ListKeys) \cup {k \in ListKeys : IsKey(line, k)}
        BY <1>7
      <3> QED
        BY <2>2, <2>4, <3>1, <3>2
    <2>6. next.filled = Filled(lines, i)
      BY <1>1, <1>8, <2>2, <2>4 DEF Knows
    <2>7. next.current = Open(lines, i + 1)
      BY <1>3, <1>5, <1>18, <2>2
    <2>8. ~Forbids(lines, i)
      BY <1>14, <1>18
    <2>9. Knows(lines, i, next)
      BY <1>1, <1>9, <2>2, <2>5, <2>6, <2>7, <2>8 DEF Knows
    <2> QED
      BY <1>1, <1>2, <1>6, <1>13, <1>18, <2>2, <2>9 DEF ReadSoFar
  <1>19. CASE kind = "key" /\ key \in ListKeys /\ ~Wrong(lines, i)
    <2>1. next = [state EXCEPT !.lists = @ \cup {key}, !.current = key]
      BY <1>4, <1>5, <1>19 DEF ReadLine
    <2>2. /\ next.scalars = state.scalars /\ next.lists = state.lists \cup {key}
          /\ next.filled = state.filled
          /\ next.current = key /\ next.failed = state.failed /\ next.forbidden = state.forbidden
      BY <1>1, <2>1 DEF ReaderState
    <2> HIDE DEF next
    <2>3. \A k : IsKey(line, k) <=> k = key
      BY <1>19 DEF IsKey
    <2>4. /\ {k \in ScalarKeys : IsKey(line, k)} = {} /\ {k \in ListKeys : IsKey(line, k)} = {key}
          /\ {k \in ScalarKeys : IsKey(line, k) /\ line.value # "nothing"} = {}
      BY <1>5, <1>19, <2>3
    <2>5. next.scalars = KeysRead(lines, i, ScalarKeys) /\ next.lists = KeysRead(lines, i, ListKeys)
      <3>1. state.scalars = KeysRead(lines, n, ScalarKeys) /\ state.lists = KeysRead(lines, n, ListKeys)
        BY <1>1 DEF Knows
      <3>2. /\ KeysRead(lines, i, ScalarKeys) = KeysRead(lines, n, ScalarKeys) \cup {k \in ScalarKeys : IsKey(line, k)}
            /\ KeysRead(lines, i, ListKeys) = KeysRead(lines, n, ListKeys) \cup {k \in ListKeys : IsKey(line, k)}
        BY <1>7
      <3> QED
        BY <2>2, <2>4, <3>1, <3>2
    <2>6. next.filled = Filled(lines, i)
      BY <1>1, <1>8, <2>2, <2>4 DEF Knows
    <2>7. next.current = Open(lines, i + 1)
      BY <1>3, <1>19, <2>2
    <2>8. ~Forbids(lines, i)
      BY <1>14, <1>19
    <2>9. Knows(lines, i, next)
      BY <1>1, <1>9, <2>2, <2>5, <2>6, <2>7, <2>8 DEF Knows
    <2> QED
      BY <1>1, <1>2, <1>6, <1>13, <1>19, <2>2, <2>9 DEF ReadSoFar
  <1>20. \/ kind = "blank" \/ Wrong(lines, i) \/ (kind = "item" /\ ~Wrong(lines, i))
         \/ kind = "key" /\ key \in ScalarKeys /\ ~Wrong(lines, i)
         \/ kind = "key" /\ key \in ListKeys /\ ~Wrong(lines, i)
    <2> HIDE DEF next
    <2> QED
      BY <1>1, <1>4
  <1> HIDE DEF next, kind, key
  <1> QED
    BY <1>20, <1>15, <1>16, <1>17, <1>18, <1>19

\* _build, on what was read of any file of any length: a manifest comes out if and only if
\* the file declares a whole one.
THEOREM AnyManifest ==
  ASSUME NEW lines, NEW n, NEW state, ReadSoFar(lines, n, state), n = Len(lines) \/ state.failed
  PROVE  Builds(state) <=> Declares(lines)
  <1> DEFINE all == ScalarKeys \cup ListKeys
             len == Len(lines)
  <1>1. DOMAIN lines = 1..len /\ len \in Nat /\ n \in 0..len
    BY Zenon DEF ReadSoFar, AnyFile
  <1>2. n = len \/ state.failed
    OBVIOUS
  <1> HIDE DEF len
  <1>3. /\ DOMAIN lines = 1..len /\ len \in Nat
        /\ n \in Nat /\ 1..n \subseteq DOMAIN lines
    BY <1>1
  <1>4. ScalarKeys \cap ListKeys = {} /\ "none" \notin ListKeys /\ "forbidden_actions" \in ListKeys
    BY DEF ScalarKeys, ListKeys
  <1>5. \A i : Open(lines, i) # "none" <=> Under(lines, i) # 0 /\ lines[Under(lines, i)].key \in ListKeys
    BY <1>4 DEF Open
  <1>6. \A i : Open(lines, i) = "forbidden_actions" <=>
                    Under(lines, i) # 0 /\ lines[Under(lines, i)].key = "forbidden_actions"
    BY <1>4 DEF Open
  <1>7. \A key, i : i \in KeyLines(lines, key) <=> i \in DOMAIN lines /\ IsKey(lines[i], key)
    BY DEF KeyLines, IsKey
  <1>8. ASSUME NEW key
         PROVE  KeyLines(lines, key) \in SUBSET (1..len) /\ IsFiniteSet(KeyLines(lines, key))
    <2>1. KeyLines(lines, key) \in SUBSET (1..len)
      BY <1>3 DEF KeyLines
    <2>2. IsFiniteSet(1..len)
      <3>1. 1 \in Int /\ len \in Int
        BY <1>3
      <3> QED
        BY <3>1, FS_Interval
    <2> QED
      BY <2>1, <2>2, FS_Subset
  <1>9. ASSUME NEW key, NEW i \in KeyLines(lines, key) PROVE i \in Nat
    <2>1. i \in 1..len
      BY <1>8
    <2> QED
      BY <1>3, <2>1
  \* A file with a line that is wrong declares nothing.
  <1>10. ASSUME Declares(lines), NEW i \in DOMAIN lines, Wrong(lines, i) PROVE FALSE
    <2>1. /\ lines[i].kind # "bad" /\ (lines[i].kind = "key" => lines[i].key \in all)
          /\ (lines[i].kind = "item" => Open(lines, i) # "none")
      BY <1>5, <1>10 DEF Declares
    <2>2. \A key \in all : /\ Cardinality(KeyLines(lines, key)) = 1
                           /\ \A k \in KeyLines(lines, key) : lines[k].value = "nothing" <=> key \in ListKeys
      BY <1>10 DEF Declares
    <2> DEFINE key == lines[i].key
    <2>3. lines[i].kind = "key" /\ key \in all
      BY <1>10, <2>1 DEF Wrong
    <2>4. i \in KeyLines(lines, key)
      BY <1>7, <2>3 DEF IsKey
    <2>5. ~(lines[i].key \in ListKeys /\ lines[i].value # "nothing")
      BY <2>2, <2>3, <2>4
    <2>6. PICK j \in 1..(i - 1) : IsKey(lines[j], key)
      BY <1>10, <2>1, <2>3, <2>5 DEF Wrong, Repeated
    <2>7. j \in KeyLines(lines, key) /\ j # i
      <3>1. i \in Int /\ 1 <= i /\ i <= len /\ j \in Int /\ 1 <= j /\ j <= i - 1
        BY <1>3
      <3>2. j \in 1..len /\ j # i
        BY <1>3, <3>1
      <3> QED
        BY <1>3, <1>7, <2>6, <3>2
    <2>8. \E k : KeyLines(lines, key) = {k}
      BY <1>8, <2>2, <2>3, FS_Singleton
    <2> QED
      BY <2>4, <2>7, <2>8
  <1>11. CASE state.failed
    <2>1. ~Builds(state)
      BY <1>11 DEF Builds
    <2>2. \E i \in 1..n : Wrong(lines, i)
      BY <1>11 DEF ReadSoFar
    <2> QED
      BY <1>3, <1>10, <2>1, <2>2
  <1>12. CASE ~state.failed
    <2>1. n = len /\ DOMAIN lines = 1..n
      BY <1>3, <1>12, <1>2
    <2>2. Knows(lines, n, state) /\ \A i \in DOMAIN lines : ~Wrong(lines, i)
      BY <1>12, <2>1 DEF ReadSoFar
    <2>3. \A i \in DOMAIN lines :
            /\ lines[i].kind # "bad" /\ (lines[i].kind = "key" => lines[i].key \in all)
            /\ (lines[i].kind = "item" => Open(lines, i) # "none")
            /\ (lines[i].kind = "key" /\ lines[i].key \in ListKeys => lines[i].value = "nothing")
            /\ (lines[i].kind = "key" => ~Repeated(lines, i))
      BY <2>2 DEF Wrong
    \* A key that is there is there once.
    <2>4. ASSUME NEW key \in all
           PROVE  Cardinality(KeyLines(lines, key)) = 1 <=> KeyLines(lines, key) # {}
      <3>1. ASSUME Cardinality(KeyLines(lines, key)) = 1 PROVE KeyLines(lines, key) # {}
        BY <1>8, <3>1, FS_EmptySet
      <3>2. ASSUME NEW i \in KeyLines(lines, key), NEW j \in KeyLines(lines, key), j < i PROVE FALSE
        <4>1. i \in 1..n /\ j \in 1..(i - 1) /\ IsKey(lines[i], key) /\ IsKey(lines[j], key)
          BY <1>3, <1>7, <2>1, <3>2
        <4> QED
          BY <2>1, <2>3, <4>1 DEF Repeated, IsKey
      <3>3. ASSUME NEW i \in KeyLines(lines, key) PROVE Cardinality(KeyLines(lines, key)) = 1
        <4>1. KeyLines(lines, key) = {i}
          BY <1>9, <3>2, <3>3
        <4> QED
          BY <4>1, FS_Singleton
      <3> QED
        BY <3>1, <3>3
    <2>5. \A key \in ScalarKeys : key \in state.filled <=>
                \E i \in KeyLines(lines, key) : lines[i].value # "nothing"
      BY <1>7, <2>1, <2>2 DEF Knows, Filled
    <2>6. \A key \in ListKeys : key \in state.lists <=> KeyLines(lines, key) # {}
      BY <1>7, <2>1, <2>2 DEF Knows, KeysRead
    <2>7. \A key \in ListKeys : \A i \in KeyLines(lines, key) : lines[i].value = "nothing"
      BY <1>7, <2>3 DEF IsKey
    <2>8. state.forbidden > 0 <=> \E i \in DOMAIN lines : Forbids(lines, i)
      BY <2>1, <2>2 DEF Knows
    <2>9. state.filled \subseteq ScalarKeys /\ state.lists \subseteq ListKeys
      BY <2>2 DEF Knows, Filled, KeysRead
    <2> DEFINE Placed == \A i \in DOMAIN lines :
                            /\ lines[i].kind # "bad"
                            /\ lines[i].kind = "key" => lines[i].key \in all
                            /\ lines[i].kind = "item" =>
                                Under(lines, i) # 0 /\ lines[Under(lines, i)].key \in ListKeys
               Once(key) == /\ Cardinality(KeyLines(lines, key)) = 1
                            /\ \A i \in KeyLines(lines, key) : lines[i].value = "nothing" <=> key \in ListKeys
               Forbidding == \E i \in DOMAIN lines :
                                /\ lines[i].kind = "item" /\ Under(lines, i) # 0
                                /\ lines[Under(lines, i)].key = "forbidden_actions"
    <2>10. Declares(lines) <=> Placed /\ (\A key \in all : Once(key)) /\ Forbidding
      BY DEF Declares
    <2>11. Placed
      BY <1>5, <2>3
    <2>12. Forbidding <=> state.forbidden > 0
      BY <1>6, <2>8 DEF Forbids
    <2>13. \A key \in ListKeys : Once(key) <=> key \in state.lists
      BY <2>4, <2>6, <2>7
    <2>14. \A key \in ScalarKeys : Once(key) <=> key \in state.filled
      <3> SUFFICES ASSUME NEW key \in ScalarKeys
                   PROVE  Once(key) <=> key \in state.filled
        OBVIOUS
      <3>1. key \in all /\ key \notin ListKeys
        BY <1>4
      <3>2. \A i, j \in KeyLines(lines, key) : i = j
        <4>1. ASSUME NEW i \in KeyLines(lines, key), NEW j \in KeyLines(lines, key), j < i PROVE FALSE
          <5>1. i \in 1..n /\ j \in 1..(i - 1) /\ IsKey(lines[i], key) /\ IsKey(lines[j], key)
            BY <1>3, <1>7, <2>1, <4>1
          <5> QED
            BY <2>1, <2>3, <5>1 DEF Repeated, IsKey
        <4> QED
          BY <1>9, <4>1
      <3> QED
        BY <2>4, <2>5, <3>1, <3>2
    <2> HIDE DEF Placed, Once, Forbidding
    <2>15. (\A key \in all : Once(key)) <=> state.filled = ScalarKeys /\ state.lists = ListKeys
      BY <2>9, <2>13, <2>14
    <2> QED
      BY <1>12, <2>10, <2>11, <2>12, <2>15 DEF Builds
  <1> QED
    BY <1>11, <1>12


\* The manifests of the cases.
Inserted(i, l) == SplitAt(i).before \o <<l>> \o SplitAt(i).after
OneMore(good, lines) == {Inserted(i, l) : i \in 1..(Len(good) + 1), l \in lines}
OneOther(good, lines) == {[good EXCEPT ![i] = l] : i \in DOMAIN good, l \in lines}
TwoSwapped(good) == {[good EXCEPT ![i] = good[j], ![j] = good[i]] : i, j \in DOMAIN good}

\* The manifests of the cases are files.
LEMMA ManifestsAre ==
  ASSUME NEW lines \in Manifests
  PROVE  AnyFile(lines)
  <1> DEFINE K == ScalarKeys \cup ListKeys \cup {"other", "none"}
             Entry == [kind : {"blank", "bad", "item", "key"}, key : K, value : {"nothing", "text"}]
             good == GoodManifest
  <1>1. Lines \subseteq Entry
    BY DEF Lines, Line, Key
  <1>2. /\ Key("id", "text") \in Entry /\ Key("outputs", "nothing") \in Entry /\ Line("item") \in Entry
        /\ Key("version", "text") \in Entry /\ Key("name", "text") \in Entry
        /\ Key("forbidden_actions", "nothing") \in Entry
    BY DEF Line, Key, ScalarKeys, ListKeys
  <1>3. \A l \in Entry : l.kind \in {"blank", "bad", "item", "key"}
    OBVIOUS
  <1> HIDE DEF Entry
  <1>4. ASSUME NEW f \in Seq(Entry) PROVE AnyFile(f)
    BY <1>4, <1>3 DEF AnyFile
  <1>5. good \in Seq(Entry)
    BY <1>2 DEF GoodManifest
  <1>6. Manifests = {good} \cup OneMore(good, Lines) \cup OneOther(good, Lines)
                        \cup {SplitAt(i).before \o SplitAt(i + 1).after : i \in DOMAIN good} \cup TwoSwapped(good)
    BY DEF Manifests, Inserted, OneMore, OneOther, TwoSwapped
  <1>7. \A i : SplitAt(i).before = SubSeq(good, 1, i - 1) /\ SplitAt(i).after = SubSeq(good, i, Len(good))
    BY DEF SplitAt
  <1> HIDE DEF good
  <1>8. Len(good) \in Nat /\ DOMAIN good = 1..Len(good) /\ \A i \in DOMAIN good : good[i] \in Entry
    BY <1>5
  <1>9. \A i \in 1..(Len(good) + 1) : SplitAt(i).before \in Seq(Entry) /\ SplitAt(i).after \in Seq(Entry)
    <2>1. ASSUME NEW a \in Int, NEW b \in Int, 1 <= a, b <= Len(good)
           PROVE  SubSeq(good, a, b) \in Seq(Entry)
      <3>1. \A i \in a..b : good[i] \in Entry
        BY <1>8, <2>1
      <3> QED
        BY <1>5, <2>1, <3>1, SubSeqProperties
    <2> SUFFICES ASSUME NEW i \in 1..(Len(good) + 1)
                 PROVE  SplitAt(i).before \in Seq(Entry) /\ SplitAt(i).after \in Seq(Entry)
      OBVIOUS
    <2>2. /\ 1 \in Int /\ i \in Int /\ i - 1 \in Int /\ Len(good) \in Int
          /\ 1 <= 1 /\ 1 <= i /\ i - 1 <= Len(good) /\ Len(good) <= Len(good)
      BY <1>8
    <2>3. SubSeq(good, 1, i - 1) \in Seq(Entry)
      BY <2>1, <2>2
    <2>4. SubSeq(good, i, Len(good)) \in Seq(Entry)
      BY <2>1, <2>2
    <2> QED
      BY <1>7, <2>3, <2>4
  <1>10. \A s \in Seq(Entry), t \in Seq(Entry) : s \o t \in Seq(Entry)
    BY ConcatProperties
  <1>11. ASSUME lines \in OneMore(good, Lines) PROVE lines \in Seq(Entry)
    <2>1. PICK i \in 1..(Len(good) + 1), l \in Lines : lines = Inserted(i, l)
      BY <1>11 DEF OneMore
    <2>2. <<l>> \in Seq(Entry)
      BY <1>1
    <2> QED
      BY <1>9, <1>10, <2>1, <2>2 DEF Inserted
  <1>12. ASSUME lines \in OneOther(good, Lines) PROVE lines \in Seq(Entry)
    <2>1. PICK i \in DOMAIN good, l \in Lines : lines = [good EXCEPT ![i] = l]
      BY <1>12 DEF OneOther
    <2> QED
      BY <1>1, <1>5, <2>1
  <1>13. ASSUME NEW i \in DOMAIN good, lines = SplitAt(i).before \o SplitAt(i + 1).after PROVE lines \in Seq(Entry)
    <2>1. i \in 1..(Len(good) + 1) /\ i + 1 \in 1..(Len(good) + 1)
      BY <1>8
    <2> QED
      BY <1>9, <1>10, <1>13, <2>1
  <1>14. ASSUME lines \in TwoSwapped(good) PROVE lines \in Seq(Entry)
    <2>1. PICK i, j \in DOMAIN good : lines = [good EXCEPT ![i] = good[j], ![j] = good[i]]
      BY <1>14 DEF TwoSwapped
    <2>2. [good EXCEPT ![i] = good[j]] \in Seq(Entry)
      BY <1>5, <1>8
    <2>3. [[good EXCEPT ![i] = good[j]] EXCEPT ![j] = good[i]] \in Seq(Entry)
      BY <1>5, <1>8, <2>2
    <2> QED
      BY <2>1, <2>3
  <1> QED
    BY <1>4, <1>5, <1>6, <1>11, <1>12, <1>13, <1>14

\* What the reader holds, in the middle of a file, and what it says of it in the end.
ManifestInv ==
    /\ done.kind = "reading" => ReadSoFar(done.in, done.at, done.state)
    /\ ManifestFailsClosed

\* load_manifest accepts a file if and only if the file declares a whole manifest, of
\* however many lines and whatever keys.
THEOREM ManifestsAreWhole == OperationSpec => []ManifestFailsClosed
  <1>1. OperationInit => ManifestInv
    BY DEF OperationInit, ManifestInv, ManifestFailsClosed
  <1>2. ManifestInv /\ [OperationNext]_done => ManifestInv'
    <2> SUFFICES ASSUME ManifestInv, [OperationNext]_done
                 PROVE  /\ done'.kind = "reading" => ReadSoFar(done'.in, done'.at, done'.state)
                        /\ done'.kind = "manifest" => (done'.out <=> Declares(done'.in))
      BY DEF ManifestInv, ManifestFailsClosed
    <2>1. CASE OperationNext
      <3>1. ASSUME done'.kind = "reading" PROVE ReadSoFar(done'.in, done'.at, done'.state)
        <4>1. CASE LoadManifest
          <5>1. PICK lines \in Manifests : done' = Halfway(lines, 0, Unread)
            BY <4>1 DEF LoadManifest
          <5>2. ReadSoFar(lines, 0, Unread)
            BY ManifestsAre, NothingRead
          <5> QED
            BY <5>1, <5>2, HalfwayIs
        <4>2. CASE ReadManifestLine
          <5> DEFINE next == ReadLine(done.state, done.in[done.at + 1])
          <5>1. done' = Halfway(done.in, done.at + 1, next)
            BY <4>2 DEF ReadManifestLine
          <5>2. ReadSoFar(done.in, done.at + 1, next)
            BY <4>2, OneMoreRead DEF ManifestInv, ReadManifestLine
          <5> HIDE DEF next
          <5> QED
            BY <5>1, <5>2, HalfwayIs
        <4> QED
          BY <2>1, <3>1, <4>1, <4>2, Called
      <3>2. ASSUME done'.kind = "manifest" PROVE done'.out <=> Declares(done'.in)
        <4>1. BuildManifest
          BY <2>1, <3>2, Called
        <4>2. Builds(done.state) <=> Declares(done.in)
          BY <4>1, AnyManifest DEF ManifestInv, BuildManifest
        <4> QED
          BY <4>1, <4>2, DoneIs DEF BuildManifest
      <3> QED
        BY <3>1, <3>2
    <2>2. CASE UNCHANGED done
      BY <2>2 DEF ManifestInv, ManifestFailsClosed
    <2> QED
      BY <2>1, <2>2
  <1>3. ManifestInv => ManifestFailsClosed
    BY DEF ManifestInv
  <1> QED
    BY <1>1, <1>2, <1>3, PTL DEF OperationSpec

------------------------------------------------------------------------------
(* Discovery *)

Answering == {"github", "linear", "drive"} \X {"list", "get", "fetch"}

\* Any credential, id, status, set of signals and objects.
AnyCall(O, call) ==
    /\ <<call.provider, call.operation>> \in Answering
    /\ \A i \in 1..2 : call.answers[i].nodes \in Seq(O)

\* What an error of this class tells of the call.
Fits(call, kind) ==
    LET a == Deciding(call) IN
    /\ kind = "permission_denied" =>
        /\ "rate" \notin a.signals
        /\ IF call.provider = "linear" THEN "forbidden" \in a.signals ELSE a.status = 403
    /\ kind = "not_found" =>
        \/ a.status = 404 \/ "not found" \in a.signals
        \/ call.provider = "linear" /\ ~a.node.object
    /\ kind = "action_needed" =>
        call.credential # "clean" \/ a.status = 401 \/ a.signals \cap {"auth", "scope"} # {}

\* An error that fits the answers is a classified one.
LEMMA ErrorFits ==
  ASSUME NEW call, NEW kind, Fits(call, kind)
  PROVE  Classified(call, Error(kind))
  <1> DEFINE a == Deciding(call)
             e == Error(kind)
             denied == /\ "rate" \notin a.signals
                       /\ IF call.provider = "linear" THEN "forbidden" \in a.signals ELSE a.status = 403
             missing == \/ a.status = 404 \/ "not found" \in a.signals
                        \/ call.provider = "linear" /\ ~a.node.object
             needed == \/ call.credential # "clean" \/ a.status = 401
                       \/ a.signals \cap {"auth", "scope"} # {}
  <1>1. ~e.ok /\ kind = e.error
    BY DEF Error
  <1> HIDE DEF e
  <1>2. Fits(call, e.error)
    BY <1>1
  <1>3. /\ e.error = "permission_denied" => denied
        /\ e.error = "not_found" => missing
        /\ e.error = "action_needed" => needed
    BY <1>2, Zenon DEF Fits
  <1>4. Classified(call, e)
    BY <1>1, <1>3, Zenon DEF Classified
  <1> QED
    BY <1>4 DEF e

\* One object that was answered, screened.
LEMMA ValueFits ==
  ASSUME NEW call, NEW v, Answered(call), call.operation # "list"
  PROVE  Classified(call, ScreenedObject(v))
  <1>1. CASE \E t \in v.texts : DetectSensitive(t) # {}
    <2>1. ScreenedObject(v) = Error("provider_error")
      BY <1>1 DEF ScreenedObject
    <2>2. Fits(call, "provider_error")
      BY DEF Fits
    <2> QED
      BY <2>1, <2>2, ErrorFits
  <1>2. CASE \A t \in v.texts : DetectSensitive(t) = {}
    <2> DEFINE r == ScreenedObject(v)
    <2>1. r.ok = TRUE /\ r.value = v /\ r.error \notin {"permission_denied", "not_found", "action_needed"}
      BY <1>2 DEF ScreenedObject, Value
    <2> HIDE DEF r
    <2>2. Classified(call, r)
      BY <1>2, <2>1 DEF Classified
    <2> QED
      BY <2>2 DEF r
  <1> QED
    BY <1>1, <1>2

\* The objects of a list that are objects at all.
LEMMA DictsAre ==
  ASSUME NEW O, NEW nodes \in Seq(O)
  PROVE  Dicts(nodes) \in Seq(O)
  <1>1. {i \in DOMAIN nodes : IsDict(nodes[i])} \subseteq 1..Len(nodes)
    OBVIOUS
  <1> QED
    BY <1>1, PartIs DEF Dicts, Filtered

\* A list that was answered, screened.
LEMMA ListFits ==
  ASSUME NEW O, NEW call, AnyCall(O, call), Answered(call), call.operation = "list",
         NEW type, NEW parent
  PROVE  Classified(call, Listed(Deciding(call).nodes, type, parent))
  <1> DEFINE dicts == Dicts(Deciding(call).nodes)
             vs == [i \in DOMAIN dicts |-> Descriptor(type, dicts[i], parent)]
             r == Listed(Deciding(call).nodes, type, parent)
  <1>1. dicts \in Seq(O)
    BY DictsAre DEF AnyCall, Deciding
  <1>2. r = Collect(vs)
    BY DEF Listed, Map
  <1> HIDE DEF dicts, r
  <1>3. /\ DOMAIN vs = 1..Len(dicts) /\ vs \in Seq({vs[i] : i \in DOMAIN dicts}) /\ Len(vs) = Len(dicts)
    BY <1>1
  <1>4. \A i \in DOMAIN dicts : vs[i].type = type /\ vs[i].resource_id = Prefix[type] \o dicts[i].id
    BY DEF Descriptor
  <1> HIDE DEF vs
  <1>5. CASE \E i \in DOMAIN vs : ~ScreenedObject(vs[i]).ok
    <2>1. r = Error("provider_error")
      BY <1>2, <1>5 DEF Collect
    <2>2. Fits(call, "provider_error")
      BY DEF Fits
    <2>3. Classified(call, r)
      BY <2>1, <2>2, ErrorFits
    <2> QED
      BY <2>3 DEF r
  <1>6. CASE \A i \in DOMAIN vs : ScreenedObject(vs[i]).ok
    <2>1. r.ok = TRUE /\ r.value = vs /\ r.error \notin {"permission_denied", "not_found", "action_needed"}
      BY <1>2, <1>6 DEF Collect, Value
    <2>2. \A i \in DOMAIN vs : \A t \in vs[i].texts : DetectSensitive(t) = {}
      <3>1. \A v : ScreenedObject(v).ok => \A t \in v.texts : DetectSensitive(t) = {}
        BY DEF ScreenedObject, Error
      <3> QED
        BY <1>6, <3>1
    <2>3. \A v \in Range(vs) : \A t \in v.texts : DetectSensitive(t) = {}
      BY <2>2 DEF Range
    <2>4. DOMAIN dicts = DOMAIN vs
      BY <1>1, <1>3
    <2>5. Classified(call, r)
      BY <1>3, <1>4, <2>1, <2>3, <2>4 DEF Classified, dicts
    <2> QED
      BY <2>5 DEF r
  <1> QED
    BY <1>5, <1>6

\* The error each provider's connector makes of an answer fits the answer.
LEMMA ErrorsFit ==
  ASSUME NEW call, NEW a, a = Deciding(call)
  PROVE  /\ call.provider = "github" => Fits(call, GitHubError(a))
         /\ call.provider = "drive" => Fits(call, DriveError(a))
         /\ call.provider = "linear" => Fits(call, LinearError(a))
         /\ Fits(call, "unsupported") /\ Fits(call, "provider_error")
         /\ call.credential # "clean" => Fits(call, "action_needed")
         /\ call.provider = "linear" /\ ~a.node.object => Fits(call, "not_found")
  <1> DEFINE github == GitHubError(a)
             drive == DriveError(a)
             linear == LinearError(a)
  <1>1. call.provider = "github" => Fits(call, github)
    <2> SUFFICES ASSUME call.provider = "github" PROVE Fits(call, github)
      OBVIOUS
    <2>1. /\ github = "permission_denied" => "rate" \notin a.signals /\ a.status = 403
          /\ github = "not_found" => a.status = 404
          /\ github = "action_needed" => a.status = 401
      BY DEF GitHubError
    <2> HIDE DEF github
    <2> QED
      BY <2>1 DEF Fits
  <1>2. call.provider = "drive" => Fits(call, drive)
    <2> SUFFICES ASSUME call.provider = "drive" PROVE Fits(call, drive)
      OBVIOUS
    <2>1. /\ drive = "permission_denied" => "rate" \notin a.signals /\ a.status = 403
          /\ drive = "not_found" => a.status = 404
          /\ drive = "action_needed" => a.status = 401 \/ "scope" \in a.signals
      BY DEF DriveError
    <2> HIDE DEF drive
    <2>2. "scope" \in a.signals => a.signals \cap {"auth", "scope"} # {}
      OBVIOUS
    <2> QED
      BY <2>1, <2>2, Zenon DEF Fits
  <1>3. call.provider = "linear" => Fits(call, linear)
    BY DEF Fits, LinearError
  <1>4. Fits(call, "unsupported") /\ Fits(call, "provider_error")
    BY DEF Fits
  <1>5. call.credential # "clean" => Fits(call, "action_needed")
    BY DEF Fits
  <1>6. call.provider = "linear" /\ ~a.node.object => Fits(call, "not_found")
    BY DEF Fits
  <1> QED
    BY <1>1, <1>2, <1>3, <1>4, <1>5, <1>6

\* list, get and fetch of GitHub.
LEMMA GitHubAnswers ==
  ASSUME NEW O, NEW call, AnyCall(O, call), call.provider = "github"
  PROVE  Classified(call, Discover(call))
  <1> DEFINE a == call.answers[1]
  <1>1. Deciding(call) = a
    BY DEF Deciding
  <1>2. Fits(call, GitHubError(a)) /\ Fits(call, "unsupported")
        /\ (NoCredential(call) => Fits(call, "action_needed"))
    BY <1>1, ErrorsFit DEF NoCredential
  <1>3. ~NoCredential(call) /\ a.status = 200 => Answered(call)
    BY <1>1 DEF Answered, NoCredential
  <1>4. CASE call.operation = "list"
    <2>1. Discover(call) = GitHubList(call)
      BY <1>4 DEF Discover
    <2> QED
      BY <1>1, <1>2, <1>3, <1>4, <2>1, ErrorFits, ListFits DEF GitHubList
  <1>5. CASE call.operation = "get"
    <2>1. Discover(call) = GitHubGet(call)
      BY <1>5 DEF Discover
    <2> QED
      BY <1>1, <1>2, <1>3, <1>5, <2>1, ErrorFits, ValueFits DEF GitHubGet
  <1>6. CASE call.operation = "fetch"
    <2>1. Discover(call) = GitHubFetch(call)
      BY <1>6 DEF Discover
    <2> QED
      BY <1>1, <1>2, <1>3, <1>6, <2>1, ErrorFits, ValueFits DEF GitHubFetch
  <1> QED
    BY <1>4, <1>5, <1>6 DEF AnyCall, Answering

\* list, get and fetch of Linear.
LEMMA LinearAnswers ==
  ASSUME NEW O, NEW call, AnyCall(O, call), call.provider = "linear"
  PROVE  Classified(call, Discover(call))
  <1> DEFINE a == call.answers[1]
             failed == LinearFailure(call) # ""
  <1>1. Deciding(call) = a
    BY DEF Deciding
  <1>2. Fits(call, LinearError(a)) /\ Fits(call, "unsupported") /\ (~a.node.object => Fits(call, "not_found"))
        /\ (NoCredential(call) => Fits(call, "action_needed"))
    BY <1>1, ErrorsFit DEF NoCredential
  <1>3. failed => Classified(call, Error(LinearFailure(call)))
    BY <1>2, ErrorFits DEF LinearFailure
  <1>4. ~failed => Answered(call)
    <2>1. LinearError(a) # ""
      BY DEF LinearError
    <2> QED
      BY <1>1, <2>1 DEF Answered, LinearFailure, NoCredential
  <1> HIDE DEF failed
  <1>5. CASE call.operation = "list"
    <2>1. Discover(call) = LinearList(call)
      BY <1>5 DEF Discover
    <2>2. \A type : Classified(call, LinearWithin(call, type))
      <3> SUFFICES ASSUME NEW type PROVE Classified(call, LinearWithin(call, type))
        OBVIOUS
      <3>1. \A parent : ~failed => Classified(call, Listed(a.nodes, type, parent))
        BY <1>1, <1>4, <1>5, ListFits
      <3> QED
        BY <1>2, <1>3, <3>1, ErrorFits DEF LinearWithin, failed
    <2>3. ~failed => Classified(call, Listed(a.nodes, "team", Prefix["workspace"] \o a.node.id))
      BY <1>1, <1>4, <1>5, ListFits
    <2> QED
      BY <1>3, <2>1, <2>2, <2>3 DEF LinearList, failed
  <1>6. CASE call.operation = "get"
    <2>1. Discover(call) = LinearGet(call)
      BY <1>6 DEF Discover
    <2>2. \A v : ~failed => Classified(call, ScreenedObject(v))
      BY <1>4, <1>6, ValueFits
    <2> QED
      BY <1>2, <1>3, <2>1, <2>2, ErrorFits DEF LinearGet, failed
  <1>7. CASE call.operation = "fetch"
    <2>1. Discover(call) = LinearFetch(call)
      BY <1>7 DEF Discover
    <2>2. \A v : ~failed => Classified(call, ScreenedObject(v))
      BY <1>4, <1>7, ValueFits
    <2> QED
      BY <1>2, <1>3, <2>1, <2>2, ErrorFits DEF LinearFetch, failed
  <1> QED
    BY <1>5, <1>6, <1>7 DEF AnyCall, Answering

\* Of the two requests for the folders of a drive the first may leave nothing to ask.
LEMMA FoldersAnswer ==
  ASSUME NEW O, NEW call, AnyCall(O, call), call.provider = "drive", call.operation = "list",
         call.kind = "shared_drive", call.answers[1].status = 200, call.credential = "clean"
  PROVE  Classified(call, DriveFolders(call))
  <1> DEFINE a == call.answers[2]
  <1>1. Deciding(call) = a
    BY DEF Deciding
  <1>2. CASE Dicts(call.answers[1].nodes) = <<>>
    <2> DEFINE r == Value(<<>>)
    <2>1. DriveFolders(call) = r
      BY <1>2 DEF DriveFolders
    <2>2. r.ok = TRUE /\ r.value = <<>> /\ r.error \notin {"permission_denied", "not_found", "action_needed"}
      BY DEF Value
    <2>3. Range(<<>>) = {}
      BY DEF Range
    <2> HIDE DEF r
    <2>4. Classified(call, r)
      BY <1>2, <2>2, <2>3 DEF Classified
    <2> QED
      BY <2>1, <2>4
  <1>3. CASE Dicts(call.answers[1].nodes) # <<>> /\ a.status # 200
    <2>1. DriveFolders(call) = Error(DriveError(a))
      BY <1>3 DEF DriveFolders
    <2>2. Fits(call, DriveError(a))
      BY <1>1, ErrorsFit
    <2> QED
      BY <2>1, <2>2, ErrorFits
  <1>4. CASE Dicts(call.answers[1].nodes) # <<>> /\ a.status = 200
    <2>1. DriveFolders(call) = Listed(a.nodes, "folder", Prefix["shared_drive"] \o call.id)
      BY <1>4 DEF DriveFolders
    <2>2. Answered(call)
      BY <1>1, <1>4 DEF Answered
    <2> QED
      BY <1>1, <2>1, <2>2, ListFits
  <1> QED
    BY <1>2, <1>3, <1>4

\* list, get and fetch of Google Drive.
LEMMA DriveAnswers ==
  ASSUME NEW O, NEW call, AnyCall(O, call), call.provider = "drive"
  PROVE  Classified(call, Discover(call))
  <1> DEFINE a == call.answers[1]
  <1>1. NoCredential(call) => Classified(call, Error("action_needed"))
    BY ErrorsFit, ErrorFits DEF NoCredential
  <1>2. Classified(call, Error("unsupported"))
    BY ErrorsFit, ErrorFits
  <1>3. a.status # 200 => Classified(call, Error(DriveError(a)))
    <2>1. a.status # 200 => Deciding(call) = a
      BY DEF Deciding
    <2> QED
      BY <2>1, ErrorsFit, ErrorFits
  <1>4. call.operation # "list" /\ ~NoCredential(call) /\ a.status = 200 => Answered(call)
    BY DEF Answered, Deciding, NoCredential
  <1>5. CASE call.operation = "list"
    <2>1. Discover(call) = DriveList(call)
      BY <1>5 DEF Discover
    <2>2. ~NoCredential(call) /\ a.status = 200 /\ call.kind = "shared_drive"
                => Classified(call, DriveFolders(call))
      BY <1>5, FoldersAnswer DEF NoCredential
    <2>3. ASSUME ~NoCredential(call), a.status = 200, call.kind # "shared_drive"
          PROVE  Classified(call, Listed(a.nodes, "shared_drive", <<>>))
      <3>1. Deciding(call) = a /\ Answered(call)
        BY <2>3 DEF Deciding, Answered, NoCredential
      <3> QED
        BY <1>5, <3>1, ListFits
    <2> QED
      BY <1>1, <1>3, <2>1, <2>2, <2>3 DEF DriveList
  <1>6. CASE call.operation = "get"
    <2>1. Discover(call) = DriveGet(call)
      BY <1>6 DEF Discover
    <2>2. \A v : ~NoCredential(call) /\ a.status = 200 => Classified(call, ScreenedObject(v))
      BY <1>4, <1>6, ValueFits
    <2> QED
      BY <1>1, <1>2, <1>3, <2>1, <2>2 DEF DriveGet
  <1>7. CASE call.operation = "fetch"
    <2>1. Discover(call) = DriveFetch(call)
      BY <1>7 DEF Discover
    <2>2. \A v : ~NoCredential(call) /\ a.status = 200 => Classified(call, ScreenedObject(v))
      BY <1>4, <1>7, ValueFits
    <2> QED
      BY <1>1, <1>2, <1>3, <2>1, <2>2 DEF DriveFetch
  <1> QED
    BY <1>5, <1>6, <1>7 DEF AnyCall, Answering

\* list, get and fetch of any provider, for any call and any answers with any objects:
\* nothing is returned that was not answered, nothing sensitive is, a list is whole and in
\* order or an error, and each error is of the class the answer says (Classified).
THEOREM AnyAnswer ==
  ASSUME NEW O, NEW call, AnyCall(O, call)
  PROVE  Classified(call, Discover(call))
  <1>1. call.provider \in {"github", "linear", "drive"}
    BY DEF AnyCall, Answering
  <1> QED
    BY <1>1, GitHubAnswers, LinearAnswers, DriveAnswers

\* The first of those that are kept comes first.
LEMMA FirstKept ==
  ASSUME NEW S, NEW s \in Seq(S), NEW I, I \subseteq 1..Len(s), Part(s, I) # <<>>
  PROVE  Part(s, I)[1] \in {s[i] : i \in I} /\ I # {}
  <1>1. Part(s, I) \in Seq(S) /\ Cardinality(I) \in Nat /\ PartOf(s, I, Part(s, I)) /\ IsFiniteSet(I)
    BY PartIs
  <1>2. Len(Part(s, I)) = Cardinality(I) /\ Len(Part(s, I)) # 0
    BY <1>1 DEF PartOf
  <1>3. 1 \in 1..Cardinality(I)
    BY <1>1, <1>2
  <1>4. Nth(I, 1) \in I /\ Part(s, I)[1] = s[Nth(I, 1)]
    BY <1>1, <1>3 DEF PartOf
  <1> QED
    BY <1>4

\* A part that leaves nothing out is the whole.
LEMMA WholePart ==
  ASSUME NEW S, NEW s \in Seq(S)
  PROVE  Part(s, DOMAIN s) = s
  <1> DEFINE n == Len(s)
             I == DOMAIN s
             p == Part(s, I)
  <1>1. n \in Nat /\ I = 1..n /\ I \subseteq 1..Len(s)
    OBVIOUS
  <1>2. p \in Seq(S) /\ PartOf(s, I, p)
    BY <1>1, PartIs
  <1>3. Cardinality(I) = n
    BY <1>1, FS_Interval
  <1>4. \A i \in 1..n : Rank(I, i) = i
    <2> SUFFICES ASSUME NEW i \in 1..n PROVE Rank(I, i) = i
      OBVIOUS
    <2>1. Upto(I, i) = 1..i
      BY <1>1 DEF Upto
    <2> QED
      BY <2>1, FS_Interval DEF Rank
  <1>5. Len(p) = n /\ \A i \in 1..n : p[i] = s[i]
    BY <1>1, <1>2, <1>3, <1>4 DEF PartOf
  <1> HIDE DEF p
  <1>6. p = s
    BY <1>2, <1>5
  <1> QED
    BY <1>6 DEF p

\* FixtureDiscoveryStub, for any fixtures of the resource that is asked for: it gets the
\* first with the id, and fetches it if it may be read (Stubbed).
THEOREM AnyFixtures ==
  ASSUME NEW S, NEW fixtures \in Seq(S),
         \A f \in S : f.resource = "r" /\ f.permission \in {"granted", "denied", "action_needed"}
  PROVE  Stubbed(fixtures, StubGet(fixtures, "a"), StubFetch(fixtures, "r", "a"))
  <1> DEFINE all == StubList(fixtures, "").value
             I == {i \in DOMAIN fixtures : fixtures[i].id = "a"}
             found == Part(fixtures, I)
             got == StubGet(fixtures, "a")
             fetched == StubFetch(fixtures, "r", "a")
  <1>1. all = fixtures
    <2>1. all = Part(fixtures, {i \in DOMAIN fixtures : "" = "" \/ fixtures[i].provider = ""})
      BY DEF StubList, Filtered, Value
    <2>2. {i \in DOMAIN fixtures : "" = "" \/ fixtures[i].provider = ""} = DOMAIN fixtures
      OBVIOUS
    <2> QED
      BY <2>1, <2>2, WholePart
  <1>2. fetched = IF found = <<>> THEN Error("not_found") ELSE Value(found[1])
    <2>1. {i \in DOMAIN fixtures : fixtures[i].resource = "r" /\ fixtures[i].id = "a"} = I
      OBVIOUS
    <2> QED
      BY <2>1 DEF StubFetch, Filtered
  <1>3. got = IF found = <<>> THEN Error("not_found")
              ELSE IF found[1].permission = "denied" THEN Error("permission_denied")
              ELSE IF found[1].permission = "action_needed" THEN Error("action_needed")
              ELSE Value(found[1])
    BY DEF StubGet, Filtered
  <1>4. I \subseteq 1..Len(fixtures)
    OBVIOUS
  <1>5. found # <<>> => found[1] \in Range(fixtures) /\ found[1] \in S
    <2>1. found # <<>> => found[1] \in {fixtures[i] : i \in I}
      BY <1>4, FirstKept
    <2> HIDE DEF found
    <2> QED
      BY <1>4, <2>1 DEF Range
  <1> HIDE DEF found
  <1>6. /\ got.ok => found # <<>> /\ got.value = found[1] /\ found[1].permission = "granted" /\ fetched.ok
        /\ got.error = "not_found" <=> found = <<>>
    <2>1. \A v : Value(v).ok = TRUE /\ Value(v).value = v /\ Value(v).error # "not_found"
      BY DEF Value
    <2>2. \A k : Error(k).ok = FALSE /\ Error(k).error = k
      BY DEF Error
    <2> HIDE DEF got, fetched
    <2>3. CASE found = <<>>
      BY <1>2, <1>3, <2>2, <2>3
    <2>4. CASE found # <<>>
      <3>1. fetched.ok = TRUE
        BY <1>2, <2>1, <2>4
      <3>2. found[1].permission \in {"granted", "denied", "action_needed"}
        BY <1>5, <2>4
      <3> QED
        BY <1>3, <2>1, <2>2, <2>4, <3>1, <3>2
    <2> QED
      BY <2>3, <2>4
  <1> HIDE DEF all, got, fetched
  <1>7. Stubbed(fixtures, got, fetched)
    BY <1>1, <1>5, <1>6 DEF Stubbed, Filtered, all, found
  <1> QED
    BY <1>7 DEF got, fetched

CaseObjects == Objects \cup {Object(<<"word">>, <<"word">>, <<>>)}

\* The lists of the cases are lists of objects.
LEMMA ListsAre == Lists \subseteq Seq(CaseObjects) /\ <<GoodObject>> \in Seq(CaseObjects)
  <1>1. GoodObject \in CaseObjects /\ Object(<<"word">>, <<"word">>, <<>>) \in CaseObjects
        /\ Objects \subseteq CaseObjects
    BY DEF CaseObjects, Objects
  <1> HIDE DEF GoodObject
  <1> DEFINE last == Object(<<"word">>, <<"word">>, <<>>)
  <1>2. \A o \in Objects : <<GoodObject, o, last>> \in Seq(CaseObjects)
    <2> HIDE DEF last
    <2> QED
      BY <1>1 DEF last
  <1>3. <<GoodObject>> \in Seq(CaseObjects) /\ <<>> \in Seq(CaseObjects)
    BY <1>1
  <1>4. ASSUME NEW l \in Lists
        PROVE  l \in Seq(CaseObjects)
    <2>1. l \in {<<>>, <<GoodObject>>} \/ \E o \in Objects : l = <<GoodObject, o, last>>
      BY DEF Lists
    <2> HIDE DEF last
    <2> QED
      BY <1>2, <1>3, <2>1
  <1> QED
    BY <1>3, <1>4

\* What the cases ask for, each provider can be asked for.
LEMMA AskedAre == \A a \in Asked : <<a[1], a[2]>> \in Answering
  <1> USE DEF Asked
  <1> HIDE DEF NoId
  <1>1. \A a \in Asked : a[1] \in {"github", "linear", "drive"}
    OBVIOUS
  <1>2. \A a \in Asked : a[2] \in {"list", "get", "fetch"}
    OBVIOUS
  <1> HIDE DEF Asked
  <1> QED
    BY <1>1, <1>2 DEF Answering

\* A call of the cases, from what it asks, with what credential, and its answers.
LEMMA CallOfIs ==
  ASSUME NEW a \in Asked, NEW credential, NEW wellformed, NEW answers,
         answers[1].nodes \in Seq(CaseObjects), answers[2].nodes \in Seq(CaseObjects)
  PROVE  AnyCall(CaseObjects, CallOf(a, credential, wellformed, answers))
  <1> DEFINE call == CallOf(a, credential, wellformed, answers)
  <1>1. call.provider = a[1] /\ call.operation = a[2] /\ call.answers = answers
    BY DEF CallOf
  <1>2. 1..2 = {1, 2}
    OBVIOUS
  <1> HIDE DEF call
  <1>3. AnyCall(CaseObjects, call)
    BY <1>1, <1>2, AskedAre DEF AnyCall
  <1> QED
    BY <1>3 DEF call

\* The calls of the cases are calls.
LEMMA CallsAre == \A call \in Calls : AnyCall(CaseObjects, call)
  <1>1. \A s, g, n, l : Answer(s, g, n, l).nodes = l
    BY DEF Answer
  <1>2. <<>> \in Seq(CaseObjects)
    OBVIOUS
  <1>3. ASSUME NEW a \in Asked, NEW o \in Objects, NEW l \in Lists
        PROVE  AnyCall(CaseObjects, Replied(a, o, l))
    <2> DEFINE answers == <<Answer(200, {}, o, l), Answer(200, {}, o, l)>>
    <2>1. answers[1].nodes \in Seq(CaseObjects) /\ answers[2].nodes \in Seq(CaseObjects)
      <3>1. answers[1].nodes = l /\ answers[2].nodes = l
        BY <1>1
      <3>2. l \in Seq(CaseObjects)
        BY ListsAre
      <3> HIDE DEF answers
      <3> QED
        BY <3>1, <3>2
    <2> HIDE DEF answers
    <2>2. AnyCall(CaseObjects, CallOf(a, "clean", TRUE, answers))
      BY <2>1, CallOfIs
    <2> QED
      BY <2>2 DEF Replied, Ok, answers
  <1>4. ASSUME NEW a \in Asked, NEW status, NEW signals, NEW o
        PROVE  AnyCall(CaseObjects, Refused(a, status, signals, o))
    <2> DEFINE answers == <<Answer(status, signals, o, <<GoodObject>>), Answer(200, {}, o, <<>>)>>
    <2>1. answers[1].nodes \in Seq(CaseObjects) /\ answers[2].nodes \in Seq(CaseObjects)
      <3>1. answers[1].nodes = <<GoodObject>> /\ answers[2].nodes = <<>>
        BY <1>1
      <3> QED
        BY <1>2, <3>1, ListsAre
    <2> HIDE DEF answers
    <2>2. AnyCall(CaseObjects, CallOf(a, "clean", TRUE, answers))
      BY <2>1, CallOfIs
    <2> QED
      BY <2>2 DEF Refused, Ok, answers
  <1>5. ASSUME NEW a \in Asked, NEW credential, NEW wellformed, NEW status
        PROVE  AnyCall(CaseObjects, Unfit(a, credential, wellformed, status))
    <2> DEFINE answers == <<Answer(status, {}, GoodObject, <<GoodObject>>), Answer(200, {}, GoodObject, <<>>)>>
    <2>1. answers[1].nodes \in Seq(CaseObjects) /\ answers[2].nodes \in Seq(CaseObjects)
      <3>1. answers[1].nodes = <<GoodObject>> /\ answers[2].nodes = <<>>
        BY <1>1
      <3> QED
        BY <1>2, <3>1, ListsAre
    <2> HIDE DEF answers
    <2>2. AnyCall(CaseObjects, CallOf(a, credential, wellformed, answers))
      BY <2>1, CallOfIs
    <2> QED
      BY <2>2 DEF Unfit, Ok, answers
  <1>6. ASSUME NEW status, NEW signals, NEW l \in Lists
        PROVE  AnyCall(CaseObjects, Folders(status, signals, l))
    <2> DEFINE answers == <<Answer(200, {}, GoodObject, <<GoodObject>>), Answer(status, signals, GoodObject, l)>>
               asked == <<"drive", "list", "shared_drive">>
    <2>1. answers[1].nodes \in Seq(CaseObjects) /\ answers[2].nodes \in Seq(CaseObjects)
      <3>1. answers[1].nodes = <<GoodObject>> /\ answers[2].nodes = l
        BY <1>1
      <3>2. <<GoodObject>> \in Seq(CaseObjects) /\ l \in Seq(CaseObjects)
        BY ListsAre
      <3> HIDE DEF answers
      <3> QED
        BY <3>1, <3>2
    <2>2. asked \in Asked
      BY DEF Asked
    <2> HIDE DEF answers, asked
    <2>3. AnyCall(CaseObjects, CallOf(asked, "clean", TRUE, answers))
      BY <2>1, <2>2, CallOfIs
    <2> QED
      BY <2>3 DEF Folders, Ok, answers, asked
  <1> SUFFICES ASSUME NEW call \in Calls PROVE AnyCall(CaseObjects, call)
    OBVIOUS
  <1>7. \/ \E a \in Asked, o \in Objects, l \in Lists : call = Replied(a, o, l)
        \/ \E a \in Asked, status \in {200, 400, 401, 403, 404, 500}, signals \in SignalSets,
              o \in {GoodObject, NoObject} : call = Refused(a, status, signals, o)
        \/ \E a \in Asked, credential \in {"clean", "missing", "control"}, wellformed \in BOOLEAN,
              status \in {200, 401} : call = Unfit(a, credential, wellformed, status)
        \/ \E status \in {200, 401, 403, 404, 500}, signals \in SignalSets, l \in Lists :
              call = Folders(status, signals, l)
    BY DEF Calls
  <1> QED
    BY <1>3, <1>4, <1>5, <1>6, <1>7

\* The fixtures of the cases are fixtures.
LEMMA FixturesAre ==
  /\ FixtureLists \subseteq Seq(Fixture)
  /\ \A f \in Fixture : f.resource = "r" /\ f.permission \in {"granted", "denied", "action_needed"}
  <1>1. \A f \in Fixture : f.resource = "r" /\ f.permission \in {"granted", "denied", "action_needed"}
    BY DEF Fixture
  <1> HIDE DEF Fixture
  <1>2. FixtureLists \subseteq Seq(Fixture)
    <2>1. ASSUME NEW l \in FixtureLists
          PROVE  l \in Seq(Fixture)
      <3>1. l = <<>> \/ (\E f \in Fixture : l = <<f>>) \/ \E f \in Fixture \X Fixture : l = <<f[1], f[2]>>
        BY DEF FixtureLists
      <3> QED
        <4>1. CASE l = <<>>
          BY <4>1
        <4>2. CASE \E f \in Fixture : l = <<f>>
          BY <4>2
        <4>3. CASE \E f \in Fixture \X Fixture : l = <<f[1], f[2]>>
          <5>1. PICK f \in Fixture \X Fixture : l = <<f[1], f[2]>>
            BY <4>3
          <5>2. f[1] \in Fixture /\ f[2] \in Fixture
            OBVIOUS
          <5> QED
            BY <5>1, <5>2
        <4> QED
          BY <3>1, <4>1, <4>2, <4>3
    <2> QED
      BY <2>1
  <1> QED
    BY <1>1, <1>2

\* list, get and fetch (Discover) and the stub return what was asked, whole and screened,
\* or an error that says what the provider said.
THEOREM AnswersSayWhatWasSaid == OperationSpec => []AnswersClassified
  <1>1. OperationInit => AnswersClassified
    BY DEF OperationInit, AnswersClassified
  <1>2. AnswersClassified /\ [OperationNext]_done => AnswersClassified'
    <2> SUFFICES ASSUME AnswersClassified, [OperationNext]_done
                 PROVE  /\ done'.kind = "discover" => Classified(done'.in, done'.out)
                        /\ done'.kind = "stub" => Stubbed(done'.in, done'.out[1], done'.out[2])
      BY DEF AnswersClassified
    <2>1. CASE UNCHANGED done
      BY <2>1 DEF AnswersClassified
    <2>2. CASE OperationNext
      <3>1. ASSUME done'.kind = "discover"
            PROVE  Classified(done'.in, done'.out)
        <4>1. DiscoverOne
          BY <2>2, <3>1, Called
        <4>2. PICK call \in Calls : Does("discover", call, Discover(call))
          BY <4>1 DEF DiscoverOne
        <4>3. done'.in = call /\ done'.out = Discover(call)
          BY <4>2, DoneIs
        <4> QED
          BY <4>3, CallsAre, AnyAnswer
      <3>2. ASSUME done'.kind = "stub"
            PROVE  Stubbed(done'.in, done'.out[1], done'.out[2])
        <4>1. AskStub
          BY <2>2, <3>2, Called
        <4>2. PICK fixtures \in FixtureLists :
                Does("stub", fixtures, <<StubGet(fixtures, "a"), StubFetch(fixtures, "r", "a")>>)
          BY <4>1 DEF AskStub
        <4>3. /\ done'.in = fixtures /\ done'.out[1] = StubGet(fixtures, "a")
              /\ done'.out[2] = StubFetch(fixtures, "r", "a")
          BY <4>2, DoneIs
        <4>4. Stubbed(fixtures, StubGet(fixtures, "a"), StubFetch(fixtures, "r", "a"))
          BY FixturesAre, AnyFixtures
        <4> QED
          BY <4>3, <4>4
      <3> QED
        BY <3>1, <3>2
    <2> QED
      BY <2>1, <2>2
  <1> QED
    BY <1>1, <1>2, PTL DEF OperationSpec

------------------------------------------------------------------------------
(* The rows of a poll *)

AnyRow(c) == [Row!Fields[c] -> Row!Values]

\* What is read from a field for a string.
Strings == {"text", "hit", "spaces", "missing"}

\* What the three readers of a field make of a value.
LEMMA ReadAs ==
  ASSUME NEW v \in Row!Values
  PROVE  /\ Row!Str(v) \in Strings /\ Row!Text(v) \in Strings
         /\ Row!Stripped(v) \in {"text", "hit", "missing"}
         /\ "hit" \in {Row!Str(v), Row!Text(v), Row!Stripped(v)} => v = "hit"
         /\ "spaces" \in {Row!Str(v), Row!Text(v)} => v = "spaces"
  BY DEF Row!Values, Strings, Row!Str, Row!Text, Row!Stripped, Row!Strip, Row!Given, Row!Or

\* What the redactor makes of a field.
LEMMA RedactedIs ==
  ASSUME NEW v \in Strings
  PROVE  Row!Redacted(v) \in {"text", "spaces", "missing"} /\ (Row!Redacted(v) = "spaces" => v = "spaces")
  BY DEF Strings, Row!Redacted

\* What two fields make when joined.
LEMMA JoinedIs ==
  ASSUME NEW v \in Strings, NEW w \in Strings
  PROVE  /\ Row!Joined(v, w) \in Strings
         /\ Row!Joined(v, w) = "hit" => "hit" \in {v, w}
         /\ Row!Joined(v, w) = "spaces" => "spaces" \in {v, w}
  BY DEF Strings, Row!Joined

\* The first of two fields that is there.
LEMMA OrIs ==
  ASSUME NEW v \in Strings, NEW w
  PROVE  /\ v = "missing" => Row!Or(v, w) = w
         /\ v # "missing" => Row!Or(v, w) = v
  BY DEF Strings, Row!Or

\* A field within a fixed text.
LEMMA WithinIs ==
  ASSUME NEW v \in Strings
  PROVE  Row!Within(v) \in {"text", "hit"} /\ (Row!Within(v) = "hit" => v = "hit")
  BY DEF Strings, Row!Within


\* A field without the white space around it.
LEMMA StripIs ==
  ASSUME NEW v \in Strings
  PROVE  Row!Strip(v) \in {"text", "hit", "missing"} /\ (Row!Strip(v) = "hit" => v = "hit")
  BY DEF Strings, Row!Strip

\* A bearable row of osv neither raises nor is refused.
LEMMA OsvBorne ==
  ASSUME NEW row \in AnyRow("osv"), Bearable("osv", row)
  PROVE  ~Row!Raises(Row!osv(row)) /\ ~Row!Refused(Row!osv(row))
  <1>1. /\ row.summary \in Row!Values /\ row.details \in Row!Values /\ row.id \in Row!Values \ {"hit", "spaces"}
        /\ row.url \in Row!Values \ {"hit", "other"} /\ row.modified \in Row!Values \ {"hit"}
    BY DEF AnyRow, Row!Fields, Row!Values, Bearable, In, Identifying, Unstripped, HandedOn
  <1> DEFINE id == Row!Or(Row!Str(row.id), "text")
             summary == Row!Redacted(Row!Stripped(row.summary))
             details == Row!Redacted(Row!Stripped(row.details))
             url == Row!Given(row.url)
             modified == Row!Str(row.modified)
             excerpt == Row!Or(Row!Or(summary, details), id)
             title == Row!Or(summary, id)
  <1>2. id = "text" /\ modified \in {"text", "spaces", "missing"}
    BY <1>1, ReadAs, OrIs DEF Strings
  <1>3. summary \in {"text", "missing"} /\ details \in {"text", "missing"}
    BY <1>1, ReadAs, RedactedIs DEF Strings
  <1>4. url \in {"text", "spaces", "missing"}
    BY <1>1 DEF Row!Given, Row!Or, Row!Values
  <1>5. Row!osv(row) = Row!Observed(excerpt, {id, url, modified}, {title})
    BY DEF Row!osv
  <1> HIDE DEF id, summary, details, url, modified
  <1>6. excerpt = "text" /\ title = "text"
    BY <1>2, <1>3 DEF Row!Or
  <1> HIDE DEF excerpt, title
  <1> QED
    BY <1>2, <1>4, <1>5, <1>6 DEF Row!Refused, Row!Raises, Row!Observed

\* A bearable row of aider neither raises nor is refused.
LEMMA AiderBorne ==
  ASSUME NEW row \in AnyRow("aider"), Bearable("aider", row)
  PROVE  ~Row!Raises(Row!aider(row)) /\ ~Row!Refused(Row!aider(row))
  <1>1. /\ row.message \in Row!Values /\ row.author \in Row!Values
        /\ row.hash \in Row!Values \ {"hit"} /\ row.authored_at \in Row!Values \ {"hit"}
    BY DEF AnyRow, Row!Fields, Row!Values, Bearable, In, Identifying
  <1> DEFINE subject == Row!Redacted(Row!Stripped(row.message))
             hash == Row!Or(Row!Strip(Row!Str(row.hash)), "text")
             at == Row!Str(row.authored_at)
             title == Row!Or(subject, hash)
             author == Row!Redacted(Row!Str(row.author))
  <1>2. subject \in {"text", "missing"} /\ author \in {"text", "spaces", "missing"}
    BY <1>1, ReadAs, RedactedIs DEF Strings
  <1>3. Row!Strip(Row!Str(row.hash)) \in {"text", "missing"} /\ at \in {"text", "spaces", "missing"}
    BY <1>1, ReadAs, StripIs DEF Strings
  <1>4. hash = "text"
    BY <1>3 DEF Row!Or
  <1>5. Row!aider(row) = Row!Observed(title, {hash, at}, {title, author})
    BY DEF Row!aider
  <1> HIDE DEF subject, hash, at, author
  <1>6. title = "text"
    BY <1>2, <1>4 DEF Row!Or
  <1> HIDE DEF title
  <1> QED
    BY <1>2, <1>3, <1>4, <1>5, <1>6 DEF Row!Refused, Row!Raises, Row!Observed

\* A bearable row of openai_admin neither raises nor is refused.
LEMMA OpenaiAdminBorne ==
  ASSUME NEW row \in AnyRow("openai_admin"), Bearable("openai_admin", row)
  PROVE  ~Row!Raises(Row!openai_admin(row)) /\ ~Row!Refused(Row!openai_admin(row))
  <1>1. row.type \in Row!Values /\ row.project \in Row!Values /\ row.id \in Row!Values \ {"hit"}
    BY DEF AnyRow, Row!Fields, Row!Values, Bearable, In, Identifying
  <1> DEFINE type == Row!Stripped(row.type)
             both == Row!Within(Row!Joined(type, Row!Str(row.project)))
             id == Row!Or(Row!Str(row.id), "text")
  <1>2. type \in Strings /\ both \in {"text", "hit"} /\ Row!Within(type) \in {"text", "hit"}
    BY <1>1, ReadAs, JoinedIs, WithinIs DEF Strings
  <1>3. Row!Redacted(both) = "text" /\ Row!Redacted(Row!Within(type)) = "text"
    BY <1>2 DEF Row!Redacted
  <1>4. id \in {"text", "spaces"}
    BY <1>1, ReadAs, OrIs DEF Strings
  <1>5. Row!openai_admin(row) = Row!Observed("text", {id}, {"text"})
    BY <1>3 DEF Row!openai_admin
  <1> QED
    BY <1>4, <1>5 DEF Row!Refused, Row!Raises, Row!Observed

\* A bearable row of devin neither raises nor is refused.
LEMMA DevinBorne ==
  ASSUME NEW row \in AnyRow("devin"), Bearable("devin", row)
  PROVE  ~Row!Raises(Row!devin(row)) /\ ~Row!Refused(Row!devin(row))
  <1>1. /\ row.status \in Row!Values /\ row.title \in Row!Values /\ row.output \in Row!Values \ {"spaces"}
        /\ row.id \in Row!Values \ {"hit"} /\ row.url \in Row!Values \ {"hit"}
    BY DEF AnyRow, Row!Fields, Row!Values, Bearable, In, Identifying, Unstripped
  <1> DEFINE title == Row!Stripped(row.title)
             both == Row!Joined(Row!Stripped(row.status), title)
             all == Row!Joined(both, Row!Str(row.output))
             id == Row!Or(Row!Stripped(row.id), "text")
             excerpt == Row!Or(Row!Redacted(all), "text")
  <1>2. title \in Strings \ {"spaces"} /\ both \in Strings \ {"spaces"}
    BY <1>1, ReadAs, JoinedIs DEF Strings
  <1>3. all \in Strings \ {"spaces"}
    BY <1>1, <1>2, ReadAs, JoinedIs DEF Strings
  <1>4. excerpt = "text" /\ Row!Redacted(title) \in {"text", "missing"}
    BY <1>2, <1>3, RedactedIs DEF Row!Or
  <1>5. id = "text" /\ Row!Text(row.url) \in {"text", "spaces", "missing"}
    BY <1>1, ReadAs, OrIs DEF Strings
  <1>6. Row!devin(row) = Row!Observed(excerpt, {id, Row!Text(row.url)}, {Row!Redacted(title)})
    BY DEF Row!devin
  <1> HIDE DEF excerpt, id
  <1> QED
    BY <1>4, <1>5, <1>6 DEF Row!Refused, Row!Raises, Row!Observed

\* A bearable row of continue_dev neither raises nor is refused.
LEMMA ContinueDevBorne ==
  ASSUME NEW row \in AnyRow("continue_dev"), Bearable("continue_dev", row)
  PROVE  ~Row!Raises(Row!continue_dev(row)) /\ ~Row!Refused(Row!continue_dev(row))
  <1>1. /\ row.prompt \in Row!Values /\ row.user \in Row!Values /\ row.name \in Row!Values \ {"hit"}
        /\ row.id \in Row!Values \ {"hit"} /\ row.timestamp \in Row!Values \ {"hit"}
    BY DEF AnyRow, Row!Fields, Row!Values, Bearable, In, Identifying
  <1> DEFINE name == Row!Or(Row!Str(row.name), "text")
             at == Row!Str(row.timestamp)
             id == Row!Or(Row!Str(row.id), Row!Within(Row!Joined(name, at)))
             excerpt == Row!Or(Row!Redacted(Row!Stripped(row.prompt)), Row!Within(name))
             user == Row!Redacted(Row!Str(row.user))
  <1>2. name \in {"text", "spaces"} /\ at \in {"text", "spaces", "missing"}
    BY <1>1, ReadAs, OrIs DEF Strings
  <1>3. Row!Within(Row!Joined(name, at)) = "text" /\ Row!Within(name) = "text"
    BY <1>2, JoinedIs, WithinIs DEF Strings
  <1>4. id \in {"text", "spaces"}
    BY <1>1, <1>3, ReadAs, OrIs DEF Strings
  <1>5. Row!Redacted(Row!Stripped(row.prompt)) \in {"text", "missing"} /\ user \in {"text", "spaces", "missing"}
    BY <1>1, ReadAs, RedactedIs DEF Strings
  <1>6. excerpt = "text"
    BY <1>3, <1>5 DEF Row!Or
  <1>7. Row!continue_dev(row) = Row!Observed(excerpt, {name, id, at}, {name, user})
    BY DEF Row!continue_dev
  <1> HIDE DEF name, at, id, excerpt, user
  <1> QED
    BY <1>2, <1>4, <1>5, <1>6, <1>7 DEF Row!Refused, Row!Raises, Row!Observed

\* A bearable row of servicenow neither raises nor is refused.
LEMMA ServicenowBorne ==
  ASSUME NEW row \in AnyRow("servicenow"), Bearable("servicenow", row)
  PROVE  ~Row!Raises(Row!servicenow(row)) /\ ~Row!Refused(Row!servicenow(row))
  <1>1. /\ row.short \in Row!Values /\ row.description \in Row!Values /\ row.state \in Row!Values
        /\ row.number \in Row!Values \ {"hit"}
    BY DEF AnyRow, Row!Fields, Row!Values, Bearable, In, Identifying
  <1> DEFINE short == Row!Stripped(row.short)
             both == Row!Joined(short, Row!Stripped(row.description))
             body == Row!Redacted(both)
             excerpt == Row!Or(Row!Joined(body, Row!Stripped(row.state)), "text")
             number == Row!Stripped(row.number)
             title == Row!Or(Row!Redacted(short), number)
  <1>2. short \in Strings \ {"spaces"} /\ both \in Strings \ {"spaces"}
    BY <1>1, ReadAs, JoinedIs DEF Strings
  <1>3. body \in {"text", "missing"} /\ Row!Redacted(short) \in {"text", "missing"}
    BY <1>2, RedactedIs
  <1>4. Row!Joined(body, Row!Stripped(row.state)) \in Strings \ {"spaces"}
    BY <1>1, <1>3, ReadAs, JoinedIs DEF Strings
  <1>5. excerpt \in {"text", "hit"}
    BY <1>4, OrIs DEF Strings
  <1>6. number \in {"text", "missing"}
    BY <1>1, ReadAs DEF Strings
  <1>7. title \in {"text", "missing"} /\ Row!Or(number, "text") = "text"
    BY <1>3, <1>6 DEF Row!Or
  <1>8. Row!servicenow(row) = Row!Observed(excerpt, {Row!Or(number, "text")}, {title})
    BY DEF Row!servicenow
  <1> HIDE DEF excerpt, number, title
  <1> QED
    BY <1>5, <1>7, <1>8 DEF Row!Refused, Row!Raises, Row!Observed

\* An issue of linear, in a poll or in an event, neither raises nor is refused.
LEMMA LinearTakes ==
  ASSUME NEW row, row.identifier \in Row!Values \ {"hit", "spaces"}, row.id \in Row!Values \ {"hit", "spaces"},
         row.title \in Row!Values \ {"spaces"}, row.description \in Row!Values \ {"spaces"},
         row.url \in Row!Values \ {"hit"}, row.updated \in Row!Values \ {"hit"},
         \/ Row!Given(row.identifier) # "missing" \/ Row!Given(row.id) # "missing"
         \/ Row!Given(row.title) # "missing" \/ Row!Given(row.description) # "missing"
  PROVE  ~Row!Raises(Row!linear_node(row)) /\ ~Row!Refused(Row!linear_node(row))
  <1> DEFINE identifier == Row!Str(row.identifier)
             key == Row!Str(row.id)
             name == Row!Str(row.title)
             description == Row!Str(row.description)
             id == Row!Or(identifier, key)
             url == Row!Str(row.url)
             updated == Row!Str(row.updated)
             excerpt == Row!Or(Row!Or(description, name), id)
             title == Row!Joined(Row!Strip(id), Row!Strip(name))
  <1>1. /\ identifier \in {"text", "missing"} /\ key \in {"text", "missing"}
        /\ name \in {"text", "hit", "missing"} /\ description \in {"text", "hit", "missing"}
        /\ url \in {"text", "spaces", "missing"} /\ updated \in {"text", "spaces", "missing"}
    BY ReadAs DEF Strings
  <1>2. identifier # "missing" \/ key # "missing" \/ name # "missing" \/ description # "missing"
    BY DEF Row!Str
  <1>3. Row!linear_node(row) =
            Row!Observed(excerpt, {id, Row!Within(Row!Or(key, id)), url, updated}, {title})
    BY DEF Row!linear_node
  <1> HIDE DEF identifier, key, name, description, url, updated
  <1>4. id \in {"text", "missing"} /\ Row!Or(key, id) \in {"text", "missing"} /\ excerpt \in {"text", "hit"}
    BY <1>1, <1>2 DEF Row!Or
  <1>5. Row!Within(Row!Or(key, id)) = "text"
    BY <1>4 DEF Row!Within
  <1> HIDE DEF id, excerpt
  <1>6. title \in {"text", "hit", "missing"}
    BY <1>1, <1>4 DEF Row!Strip, Row!Joined
  <1> HIDE DEF title
  <1> QED
    BY <1>1, <1>3, <1>4, <1>5, <1>6 DEF Row!Refused, Row!Raises, Row!Observed

\* A bearable issue of a poll of linear neither raises nor is refused.
LEMMA LinearNodeBorne ==
  ASSUME NEW row \in AnyRow("linear_node"), Bearable("linear_node", row)
  PROVE  ~Row!Raises(Row!linear_node(row)) /\ ~Row!Refused(Row!linear_node(row))
  <1>1. /\ row.identifier \in Row!Values \ {"hit", "spaces"} /\ row.id \in Row!Values \ {"hit", "spaces"}
        /\ row.title \in Row!Values \ {"spaces"} /\ row.description \in Row!Values \ {"spaces"}
        /\ row.url \in Row!Values \ {"hit"} /\ row.updated \in Row!Values \ {"hit"}
        /\ \/ row.identifier \in {"text", "hit"} \/ row.id \in {"text", "hit"}
           \/ row.title \in {"text", "hit"} \/ row.description \in {"text", "hit"}
    BY DEF AnyRow, Row!Fields, Row!Values, Bearable, In, Identifying, Unstripped, NeedsOneOf
  <1>2. \/ Row!Given(row.identifier) # "missing" \/ Row!Given(row.id) # "missing"
        \/ Row!Given(row.title) # "missing" \/ Row!Given(row.description) # "missing"
    BY <1>1 DEF Row!Given, Row!Or
  <1> QED
    BY <1>1, <1>2, LinearTakes

\* A bearable event of linear neither raises nor is refused.
LEMMA LinearBorne ==
  ASSUME NEW row \in AnyRow("linear"), Bearable("linear", row), Row!linear(row) # Row!NoEvidence
  PROVE  ~Row!Raises(Row!linear(row)) /\ ~Row!Refused(Row!linear(row))
  <1>1. /\ row.identifier \in Row!Values \ {"hit", "spaces"} /\ row.id \in Row!Values \ {"hit", "spaces"}
        /\ row.title \in Row!Values \ {"spaces"} /\ row.description \in Row!Values \ {"spaces"}
        /\ row.url \in Row!Values \ {"hit"} /\ row.updated \in Row!Values \ {"hit"}
    BY DEF AnyRow, Row!Fields, Row!Values, Bearable, In, Identifying, Unstripped
  <1>2. Row!Given(row.identifier) # "missing" /\ Row!linear(row) = Row!linear_node(row)
    BY DEF Row!linear
  <1> QED
    BY <1>1, <1>2, LinearTakes

\* A bearable row of jira neither raises nor is refused.
LEMMA JiraBorne ==
  ASSUME NEW row \in AnyRow("jira"), Bearable("jira", row)
  PROVE  ~Row!Raises(Row!jira(row)) /\ ~Row!Refused(Row!jira(row))
  <1>1. /\ row.summary \in Row!Values /\ row.key \in Row!Values \ {"hit"} /\ row.url \in Row!Values \ {"hit"}
        /\ row.type \in Row!Values \ {"hit"} /\ row.updated \in Row!Values \ {"hit"}
        /\ row.timestamp \in Row!Values \ {"hit"}
    BY DEF AnyRow, Row!Fields, Row!Values, Bearable, In, Identifying
  <1> DEFINE key == Row!Or(Row!Stripped(row.key), "text")
             summary == Row!Redacted(Row!Stripped(row.summary))
             url == Row!Stripped(row.url)
             type == Row!Or(Row!Stripped(row.type), "text")
             at == Row!Or(Row!Stripped(row.updated), Row!Str(row.timestamp))
             title == Row!Or(summary, key)
  <1>2. key = "text" /\ type = "text" /\ url \in {"text", "missing"}
    BY <1>1, ReadAs, OrIs DEF Strings
  <1>3. at \in {"text", "spaces", "missing"}
    BY <1>1, ReadAs, OrIs DEF Strings
  <1>4. summary \in {"text", "missing"}
    BY <1>1, ReadAs, RedactedIs DEF Strings
  <1>5. Row!jira(row) = Row!Observed(title, {key, url, type, at}, {title})
    BY DEF Row!jira
  <1> HIDE DEF key, summary, url, type, at
  <1>6. title = "text"
    BY <1>2, <1>4 DEF Row!Or
  <1> HIDE DEF title
  <1> QED
    BY <1>2, <1>3, <1>5, <1>6 DEF Row!Refused, Row!Raises, Row!Observed

\* A bearable row of sentry neither raises nor is refused.
LEMMA SentryBorne ==
  ASSUME NEW row \in AnyRow("sentry"), Bearable("sentry", row)
  PROVE  ~Row!Raises(Row!sentry(row)) /\ ~Row!Refused(Row!sentry(row))
  <1>1. /\ row.title \in Row!Values /\ row.culprit \in Row!Values /\ row.short \in Row!Values \ {"spaces"}
        /\ row.id \in Row!Values \ {"hit", "spaces"} /\ row.first \in Row!Values \ {"hit"}
        /\ row.permalink \in Row!Values \ {"hit", "other"}
    BY DEF AnyRow, Row!Fields, Row!Values, Bearable, In, Identifying, Unstripped, HandedOn
  <1> DEFINE id == Row!Or(Row!Str(row.id), "text")
             title == Row!Redacted(Row!Stripped(row.title))
             culprit == Row!Redacted(Row!Stripped(row.culprit))
             short == Row!Str(row.short)
             excerpt == Row!Or(Row!Or(Row!Or(title, culprit), short), id)
             text == Row!Or(Row!Or(title, short), id)
             link == Row!Given(row.permalink)
  <1>2. id = "text"
    BY <1>1, ReadAs, OrIs DEF Strings
  <1>3. title \in {"text", "missing"} /\ culprit \in {"text", "missing"}
    BY <1>1, ReadAs, RedactedIs DEF Strings
  <1>4. short \in {"text", "hit", "missing"}
    BY <1>1, ReadAs DEF Strings
  <1>5. link \in {"text", "spaces", "missing"} /\ Row!Str(row.first) \in {"text", "spaces", "missing"}
    BY <1>1, ReadAs DEF Row!Given, Row!Or, Row!Values, Strings
  <1>6. Row!sentry(row) = Row!Observed(excerpt, {id, link, Row!Str(row.first)}, {text})
    BY DEF Row!sentry
  <1> HIDE DEF id, title, culprit, short, link
  <1>7. excerpt \in {"text", "hit"} /\ text \in {"text", "hit"}
    BY <1>2, <1>3, <1>4 DEF Row!Or
  <1> HIDE DEF excerpt, text
  <1> QED
    BY <1>2, <1>5, <1>6, <1>7 DEF Row!Refused, Row!Raises, Row!Observed

\* A bearable row of notion is not refused, if it does not raise.
LEMMA NotionBorne ==
  ASSUME NEW row \in AnyRow("notion"), Bearable("notion", row),
         ~Row!Raises(Row!notion(row))
  PROVE  ~Row!Refused(Row!notion(row))
  <1>1. /\ row.title \in Row!Values /\ row.id \in Row!Values \ {"hit", "spaces"}
        /\ row.url \in Row!Values \ {"hit", "other"} /\ row.edited \in Row!Values \ {"hit", "other"}
        /\ row.author \in Row!Values \ {"other"}
    BY DEF AnyRow, Row!Fields, Row!Values, Bearable, In, Identifying, Unstripped, HandedOn
  <1> DEFINE name == Row!Redacted(Row!Strip(Row!Given(row.title)))
             id == Row!Str(row.id)
             title == Row!Or(Row!Or(name, id), "text")
             url == Row!Given(row.url)
             edited == Row!Given(row.edited)
             author == Row!Given(row.author)
  <1>2. name \in {"text", "missing", "raises"}
    BY <1>1 DEF Row!Values, Row!Given, Row!Or, Row!Strip, Row!Redacted
  <1>3. id \in {"text", "missing"}
    BY <1>1, ReadAs DEF Strings
  <1>4. /\ url \in {"text", "spaces", "missing"} /\ edited \in {"text", "spaces", "missing"}
        /\ author \in {"text", "hit", "spaces", "missing"}
    BY <1>1 DEF Row!Given, Row!Or, Row!Values
  <1>5. Row!notion(row) = Row!Observed(title, {id, url, edited}, {title, author})
    BY DEF Row!notion
  <1> HIDE DEF name, id, url, edited, author
  <1>6. title \in {"text", "raises"}
    BY <1>2, <1>3 DEF Row!Or
  <1> HIDE DEF title
  <1> QED
    BY <1>3, <1>4, <1>5, <1>6 DEF Row!Refused, Row!Raises, Row!Observed

\* A bearable row of zendesk neither raises nor is refused.
LEMMA ZendeskBorne ==
  ASSUME NEW row \in AnyRow("zendesk"), Bearable("zendesk", row)
  PROVE  ~Row!Raises(Row!zendesk(row)) /\ ~Row!Refused(Row!zendesk(row))
  <1>1. /\ row.subject \in Row!Values /\ row.body \in Row!Values /\ row.requester \in Row!Values
        /\ row.id \in Row!Values \ {"hit"} /\ row.url \in Row!Values \ {"hit"}
        /\ row.updated \in Row!Values \ {"hit"}
    BY DEF AnyRow, Row!Fields, Row!Values, Bearable, In, Identifying
  <1> DEFINE id == Row!Or(Row!Stripped(row.id), "text")
             subject == Row!Redacted(Row!Stripped(row.subject))
             body == Row!Redacted(Row!Stripped(row.body))
             requester == Row!Redacted(Row!Stripped(row.requester))
             url == Row!Stripped(row.url)
             updated == Row!Stripped(row.updated)
             excerpt == Row!Or(Row!Joined(subject, body), id)
             text == Row!Or(subject, id)
  <1>2. id = "text" /\ url \in {"text", "missing"} /\ updated \in {"text", "missing"}
    BY <1>1, ReadAs, OrIs DEF Strings
  <1>3. /\ subject \in {"text", "missing"} /\ body \in {"text", "missing"}
        /\ requester \in {"text", "missing"}
    BY <1>1, ReadAs, RedactedIs DEF Strings
  <1>4. Row!zendesk(row) = Row!Observed(excerpt, {id, url, updated}, {text, requester})
    BY DEF Row!zendesk
  <1> HIDE DEF id, subject, body, requester, url, updated
  <1>5. Row!Joined(subject, body) \in {"text", "missing"}
    BY <1>3 DEF Row!Joined
  <1>6. excerpt = "text" /\ text = "text"
    BY <1>2, <1>3, <1>5 DEF Row!Or
  <1> HIDE DEF excerpt, text
  <1> QED
    BY <1>2, <1>3, <1>4, <1>6 DEF Row!Refused, Row!Raises, Row!Observed
\* A row that bears what its fields hold is kept out of the batch by an exception of its
\* parser or a line that is no evidence, or normalize takes it.
Borne(c, row, obs) ==
    Bearable(c, row) /\ ~Row!Raises(obs) /\ obs # Row!NoEvidence => ~Row!Refused(obs)

\* The parsers that read few fields bear what is bearable.
LEMMA ShortParsers ==
  ASSUME NEW row
  PROVE  /\ row \in AnyRow("claude_code") => Borne("claude_code", row, Row!claude_code(row))
         /\ row \in AnyRow("cursor") => Borne("cursor", row, Row!cursor(row))
         /\ row \in AnyRow("confluence") => Borne("confluence", row, Row!confluence(row))
         /\ row \in AnyRow("copilot") => Borne("copilot", row, Row!copilot(row))
         /\ row \in AnyRow("anthropic_admin") => Borne("anthropic_admin", row, Row!anthropic_admin(row))
         /\ row \in AnyRow("sarif") => Borne("sarif", row, Row!sarif(row))
         /\ row \in AnyRow("mcp_registry") => Borne("mcp_registry", row, Row!mcp_registry(row))
         /\ row \in AnyRow("granola") => Borne("granola", row, Row!granola(row))
         /\ row \in AnyRow("local_directory") => Borne("local_directory", row, Row!local_directory(row))
         /\ row \in AnyRow("google_drive") => Borne("google_drive", row, Row!google_drive(row))
         /\ row \in AnyRow("github") => Borne("github", row, Row!github(row))
         /\ row \in AnyRow("gitlab") => Borne("gitlab", row, Row!gitlab(row))
         /\ row \in AnyRow("slack") => Borne("slack", row, Row!slack(row))
         /\ row \in AnyRow("fathom") => Borne("fathom", row, Row!fathom(row))
         /\ row \in AnyRow("notion_event") => Borne("notion_event", row, Row!notion_event(row))
         /\ row \in AnyRow("pagerduty") => Borne("pagerduty", row, Row!pagerduty(row))
  <1> USE DEF Row!Values, Row!Observed, Row!Raises, Row!Refused, Row!NoEvidence, Row!Given, Row!Or, Row!Text,
          Row!Strip, Row!Stripped, Row!Str, Row!Redacted, Row!Within, Row!Joined
  <1>1. ASSUME row \in AnyRow("claude_code") PROVE Borne("claude_code", row, Row!claude_code(row))
    <2> SUFFICES ASSUME Bearable("claude_code", row), ~Row!Raises(Row!claude_code(row)),
                        Row!claude_code(row) # Row!NoEvidence
                 PROVE  ~Row!Refused(Row!claude_code(row))
      BY DEF Borne
    <2>1. /\ row.kind \in Row!Values
          /\ row.uuid \in Row!Values \ {"hit"}
          /\ row.content \in Row!Values
          /\ row.timestamp \in Row!Values \ {"hit"}
      BY <1>1 DEF AnyRow, Row!Fields, Row!Values, Bearable, In, HandedOn, Identifying, Unstripped, NeedsOneOf
    <2> DEFINE content == Row!Or(Row!Redacted(Row!Stripped(row.content)), "text")
               uuid == Row!Within(Row!Str(row.uuid))
               at == Row!Text(row.timestamp)
    <2>2. content = "text"
      BY <2>1
    <2>3. uuid = "text" /\ at \in {"text", "spaces", "missing"}
      BY <2>1
    <2>4. Row!claude_code(row) = Row!Observed(content, {uuid, at}, {"text"})
      BY DEF Row!claude_code
    <2> HIDE DEF content, uuid, at
    <2> QED
      BY <2>2, <2>3, <2>4
  <1>2. ASSUME row \in AnyRow("cursor") PROVE Borne("cursor", row, Row!cursor(row))
    <2> SUFFICES ASSUME Bearable("cursor", row), ~Row!Raises(Row!cursor(row)),
                        Row!cursor(row) # Row!NoEvidence
                 PROVE  ~Row!Refused(Row!cursor(row))
      BY DEF Borne
    <2>1. row.day \in Row!Values
      BY <1>2 DEF AnyRow, Row!Fields, Row!Values, Bearable, In, HandedOn, Identifying, Unstripped, NeedsOneOf
    <2> QED
      BY <2>1 DEF Row!cursor
  <1>3. ASSUME row \in AnyRow("confluence") PROVE Borne("confluence", row, Row!confluence(row))
    <2> SUFFICES ASSUME Bearable("confluence", row), ~Row!Raises(Row!confluence(row)),
                        Row!confluence(row) # Row!NoEvidence
                 PROVE  ~Row!Refused(Row!confluence(row))
      BY DEF Borne
    <2>1. /\ row.title \in Row!Values
          /\ row.body \in Row!Values
          /\ row.id \in Row!Values \ {"hit"}
          /\ row.url \in Row!Values
      BY <1>3 DEF AnyRow, Row!Fields, Row!Values, Bearable, In, HandedOn, Identifying, Unstripped, NeedsOneOf
    <2> DEFINE title == Row!Redacted(Row!Strip(Row!Given(row.title)))
               body == Row!Redacted(Row!Strip(Row!Given(row.body)))
               id == Row!Or(Row!Str(row.id), "text")
               url == Row!Redacted(Row!Given(row.url))
    <2>2. title \in {"text", "missing", "raises"}
      BY <2>1
    <2>3. body \in {"text", "missing", "raises"}
      BY <2>1
    <2>4. id \in {"text", "spaces"}
      BY <2>1
    <2>5. url \in {"text", "spaces", "missing", "raises"}
      BY <2>1
    <2>6. Row!confluence(row) = Row!Observed(Row!Or(body, Row!Or(title, "text")), {id, url}, {Row!Or(title, "text")})
      BY DEF Row!confluence
    <2> HIDE DEF title, body, id, url
    <2> QED
      BY <2>2, <2>3, <2>4, <2>5, <2>6
  <1>4. ASSUME row \in AnyRow("copilot") PROVE Borne("copilot", row, Row!copilot(row))
    <2> SUFFICES ASSUME Bearable("copilot", row), ~Row!Raises(Row!copilot(row)),
                        Row!copilot(row) # Row!NoEvidence
                 PROVE  ~Row!Refused(Row!copilot(row))
      BY DEF Borne
    <2>1. row.date \in Row!Values \ {"hit"}
      BY <1>4 DEF AnyRow, Row!Fields, Row!Values, Bearable, In, HandedOn, Identifying, Unstripped, NeedsOneOf
    <2> QED
      BY <2>1 DEF Row!copilot
  <1>5. ASSUME row \in AnyRow("anthropic_admin") PROVE Borne("anthropic_admin", row, Row!anthropic_admin(row))
    <2> SUFFICES ASSUME Bearable("anthropic_admin", row), ~Row!Raises(Row!anthropic_admin(row)),
                        Row!anthropic_admin(row) # Row!NoEvidence
                 PROVE  ~Row!Refused(Row!anthropic_admin(row))
      BY DEF Borne
    <2>1. row.starting_at \in Row!Values \ {"hit"}
      BY <1>5 DEF AnyRow, Row!Fields, Row!Values, Bearable, In, HandedOn, Identifying, Unstripped, NeedsOneOf
    <2> QED
      BY <2>1 DEF Row!anthropic_admin
  <1>6. ASSUME row \in AnyRow("sarif") PROVE Borne("sarif", row, Row!sarif(row))
    <2> SUFFICES ASSUME Bearable("sarif", row), ~Row!Raises(Row!sarif(row)),
                        Row!sarif(row) # Row!NoEvidence
                 PROVE  ~Row!Refused(Row!sarif(row))
      BY DEF Borne
    <2>1. /\ row.rule \in Row!Values \ {"hit", "other", "spaces"}
          /\ row.message \in Row!Values \ {"spaces"}
          /\ row.uri \in Row!Values \ {"hit"}
      BY <1>6 DEF AnyRow, Row!Fields, Row!Values, Bearable, In, HandedOn, Identifying, Unstripped, NeedsOneOf
    <2> DEFINE rule == Row!Given(row.rule)
               message == Row!Redacted(Row!Given(row.message))
               ref == IF Row!Given(row.uri) # "missing" THEN Row!Within(Row!Joined(Row!Str(row.rule), Row!Str(row.uri)))
                    ELSE Row!Or(rule, "text")
    <2>2. rule \in {"text", "missing"}
      BY <2>1
    <2>3. message \in {"text", "missing", "raises"}
      BY <2>1
    <2>4. ref \in {"text"}
      BY <2>1
    <2>5. Row!sarif(row) = Row!Observed(Row!Or(Row!Or(message, rule), ref), {ref}, {Row!Or(rule, "text")})
      BY DEF Row!sarif
    <2> HIDE DEF rule, message, ref
    <2> QED
      BY <2>2, <2>3, <2>4, <2>5
  <1>7. ASSUME row \in AnyRow("mcp_registry") PROVE Borne("mcp_registry", row, Row!mcp_registry(row))
    <2> SUFFICES ASSUME Bearable("mcp_registry", row), ~Row!Raises(Row!mcp_registry(row)),
                        Row!mcp_registry(row) # Row!NoEvidence
                 PROVE  ~Row!Refused(Row!mcp_registry(row))
      BY DEF Borne
    <2>1. /\ row.name \in Row!Values \ {"hit", "spaces"}
          /\ row.title \in Row!Values \ {"hit", "spaces"}
          /\ row.description \in Row!Values \ {"spaces"}
          /\ row.url \in Row!Values
      BY <1>7 DEF AnyRow, Row!Fields, Row!Values, Bearable, In, HandedOn, Identifying, Unstripped, NeedsOneOf
    <2> DEFINE name == Row!Text(row.name)
               title == Row!Text(row.title)
               about == Row!Redacted(Row!Text(row.description))
               url == Row!Redacted(Row!Text(row.url))
    <2>2. name \in {"text", "missing"}
      BY <2>1
    <2>3. title \in {"text", "missing"}
      BY <2>1
    <2>4. about \in {"text", "missing"}
      BY <2>1
    <2>5. url \in {"text", "spaces", "missing"}
      BY <2>1
    <2>6. Row!mcp_registry(row) = Row!Observed(Row!Or(about, Row!Or(Row!Redacted(Row!Or(title, name)), "text")),
                                         {Row!Or(Row!Or(name, title), "text"), url},
                                         {Row!Or(Row!Redacted(Row!Or(title, name)), "text")})
      BY DEF Row!mcp_registry
    <2> HIDE DEF name, title, about, url
    <2> QED
      BY <2>2, <2>3, <2>4, <2>5, <2>6
  <1>8. ASSUME row \in AnyRow("granola") PROVE Borne("granola", row, Row!granola(row))
    <2> SUFFICES ASSUME Bearable("granola", row), ~Row!Raises(Row!granola(row)),
                        Row!granola(row) # Row!NoEvidence
                 PROVE  ~Row!Refused(Row!granola(row))
      BY DEF Borne
    <2>1. /\ row.id \in Row!Values \ {"hit"}
          /\ row.title \in Row!Values \ {"spaces"}
          /\ row.transcript \in Row!Values
          /\ row.created \in Row!Values \ {"hit"}
      BY <1>8 DEF AnyRow, Row!Fields, Row!Values, Bearable, In, HandedOn, Identifying, Unstripped, NeedsOneOf
    <2> DEFINE title == Row!Redacted(Row!Str(row.title))
               id == Row!Or(Row!Str(row.id), "text")
               transcript == Row!Redacted(Row!Stripped(row.transcript))
               created == Row!Str(row.created)
    <2>2. title \in {"text", "missing"}
      BY <2>1
    <2>3. id \in {"text", "spaces"}
      BY <2>1
    <2>4. transcript \in {"text", "missing"}
      BY <2>1
    <2>5. created \in {"text", "spaces", "missing"}
      BY <2>1
    <2>6. Row!granola(row) = Row!Observed(Row!Or(Row!Or(transcript, title), "text"), {id, created}, {Row!Or(title, id)})
      BY DEF Row!granola
    <2> HIDE DEF title, id, transcript, created
    <2> QED
      BY <2>2, <2>3, <2>4, <2>5, <2>6
  <1>9. ASSUME row \in AnyRow("local_directory") PROVE Borne("local_directory", row, Row!local_directory(row))
    <2> SUFFICES ASSUME Bearable("local_directory", row), ~Row!Raises(Row!local_directory(row)),
                        Row!local_directory(row) # Row!NoEvidence
                 PROVE  ~Row!Refused(Row!local_directory(row))
      BY DEF Borne
    <2>1. /\ row.path \in Row!Values \ {"spaces"}
          /\ row.content \in Row!Values \ {"spaces"}
          /\ row.label \in Row!Values
          /\ row.modified \in Row!Values \ {"hit"}
      BY <1>9 DEF AnyRow, Row!Fields, Row!Values, Bearable, In, HandedOn, Identifying, Unstripped, NeedsOneOf
    <2> QED
      BY <2>1 DEF Row!local_directory
  <1>10. ASSUME row \in AnyRow("google_drive") PROVE Borne("google_drive", row, Row!google_drive(row))
    <2> SUFFICES ASSUME Bearable("google_drive", row), ~Row!Raises(Row!google_drive(row)),
                        Row!google_drive(row) # Row!NoEvidence
                 PROVE  ~Row!Refused(Row!google_drive(row))
      BY DEF Borne
    <2>1. /\ row.id \in Row!Values \ {"hit"}
          /\ row.title \in Row!Values \ {"hit", "spaces"}
          /\ row.body \in Row!Values
      BY <1>10 DEF AnyRow, Row!Fields, Row!Values, Bearable, In, HandedOn, Identifying, Unstripped, NeedsOneOf
    <2> DEFINE id == Row!Stripped(row.id)
               given == Row!Text(row.title)
               body == Row!Stripped(row.body)
               title == Row!Or(given, Row!Or(id, "text"))
    <2>2. id \in {"text", "missing"} /\ given \in {"text", "missing"}
      BY <2>1
    <2>3. body \in {"text", "hit", "missing"}
      BY <2>1
    <2>4. Row!google_drive(row) = Row!Observed(Row!Or(body, title), {Row!Or(id, title)}, {title})
      BY DEF Row!google_drive
    <2> HIDE DEF id, given, body
    <2>5. title = "text"
      BY <2>2
    <2> QED
      BY <2>2, <2>3, <2>4, <2>5
  <1>11. ASSUME row \in AnyRow("github") PROVE Borne("github", row, Row!github(row))
    <2> SUFFICES ASSUME Bearable("github", row), ~Row!Raises(Row!github(row)),
                        Row!github(row) # Row!NoEvidence
                 PROVE  ~Row!Refused(Row!github(row))
      BY DEF Borne
    <2>1. /\ row.title \in Row!Values \ {"spaces"}
          /\ row.body \in Row!Values \ {"spaces"}
          /\ row.html_url \in Row!Values \ {"hit", "other", "null"}
          /\ row.login \in Row!Values \ {"other", "null"}
          /\ row.merged_at \in Row!Values \ {"hit", "other", "null"}
          /\ row.repo \in Row!Values \ {"hit"}
      BY <1>11 DEF AnyRow, Row!Fields, Row!Values, Bearable, In, HandedOn, Identifying, Unstripped, NeedsOneOf
    <2> DEFINE title == Row!Redacted(Row!Text(row.title))
               body == Row!Redacted(Row!Text(row.body))
               floor == Row!Within(Row!Str(row.repo))
    <2>2. title \in {"text", "missing"} /\ body \in {"text", "missing"}
      BY <2>1
    <2>3. floor = "text"
      BY <2>1
    <2>4. Row!github(row) = Row!Observed(Row!Or(Row!Or(body, title), floor),
                                         {floor, row.html_url, row.merged_at}, {Row!Or(title, floor), row.login})
      BY DEF Row!github
    <2> HIDE DEF title, body, floor
    <2> QED
      BY <2>1, <2>2, <2>3, <2>4
  <1>12. ASSUME row \in AnyRow("gitlab") PROVE Borne("gitlab", row, Row!gitlab(row))
    <2> SUFFICES ASSUME Bearable("gitlab", row), ~Row!Raises(Row!gitlab(row)),
                        Row!gitlab(row) # Row!NoEvidence
                 PROVE  ~Row!Refused(Row!gitlab(row))
      BY DEF Borne
    <2>1. /\ row.title \in Row!Values
          /\ row.description \in Row!Values
          /\ row.url \in Row!Values \ {"hit", "other"}
          /\ row.username \in Row!Values \ {"other"}
          /\ row.project \in Row!Values \ {"hit"}
      BY <1>12 DEF AnyRow, Row!Fields, Row!Values, Bearable, In, HandedOn, Identifying, Unstripped, NeedsOneOf
    <2> DEFINE title == Row!Redacted(Row!Strip(Row!Given(row.title)))
               about == Row!Redacted(Row!Strip(Row!Given(row.description)))
               project == Row!Within(Row!Str(row.project))
               url == Row!Given(row.url)
               username == Row!Given(row.username)
    <2>2. title \in {"text", "missing", "raises"}
      BY <2>1
    <2>3. about \in {"text", "missing", "raises"}
      BY <2>1
    <2>4. project \in {"text"}
      BY <2>1
    <2>5. url \in {"text", "spaces", "missing"}
      BY <2>1
    <2>6. username \in Strings
      BY <2>1 DEF Strings
    <2>7. Row!gitlab(row) = Row!Observed(Row!Or(about, Row!Or(title, "text")), {project, url},
                                         {Row!Or(title, "text"), username})
      BY DEF Row!gitlab
    <2> HIDE DEF title, about, project, url, username
    <2> QED
      BY <2>2, <2>3, <2>4, <2>5, <2>6, <2>7 DEF Strings
  <1>13. ASSUME row \in AnyRow("slack") PROVE Borne("slack", row, Row!slack(row))
    <2> SUFFICES ASSUME Bearable("slack", row), ~Row!Raises(Row!slack(row)),
                        Row!slack(row) # Row!NoEvidence
                 PROVE  ~Row!Refused(Row!slack(row))
      BY DEF Borne
    <2>1. /\ row.text \in Row!Values
          /\ row.channel \in Row!Values \ {"hit"}
          /\ row.ts \in Row!Values \ {"hit"}
          /\ row.user \in Row!Values
      BY <1>13 DEF AnyRow, Row!Fields, Row!Values, Bearable, In, HandedOn, Identifying, Unstripped, NeedsOneOf
    <2> QED
      BY <2>1 DEF Row!slack
  <1>14. ASSUME row \in AnyRow("fathom") PROVE Borne("fathom", row, Row!fathom(row))
    <2> SUFFICES ASSUME Bearable("fathom", row), ~Row!Raises(Row!fathom(row)),
                        Row!fathom(row) # Row!NoEvidence
                 PROVE  ~Row!Refused(Row!fathom(row))
      BY DEF Borne
    <2>1. /\ row.recording \in Row!Values \ {"hit", "spaces"}
          /\ row.title \in Row!Values \ {"spaces"}
          /\ row.transcript \in Row!Values \ {"spaces"}
          /\ row.summary \in Row!Values \ {"spaces"}
          /\ row.url \in Row!Values \ {"hit"}
          /\ row.ended \in Row!Values \ {"hit"}
          /\ \/ row.recording \in {"text", "hit"} \/ row.title \in {"text", "hit"}
             \/ row.transcript \in {"text", "hit"} \/ row.summary \in {"text", "hit"}
      BY <1>14 DEF AnyRow, Row!Fields, Row!Values, Bearable, In, HandedOn, Identifying, Unstripped, NeedsOneOf
    <2> DEFINE id == IF row.recording \in {"null", "other"} THEN "text" ELSE row.recording
               title == Row!Redacted(Row!Or(Row!Text(row.title), id))
               said == Row!Redacted(Row!Or(Row!Text(row.transcript), Row!Text(row.summary)))
               url == Row!Text(row.url)
               ended == Row!Text(row.ended)
    <2>2. id \in {"text", "missing"} /\ (row.recording \in {"text", "hit"} => id = "text")
      BY <2>1
    <2>3. url \in {"text", "spaces", "missing"} /\ ended \in {"text", "spaces", "missing"}
      BY <2>1
    <2>4. Row!fathom(row) = Row!Observed(Row!Or(said, title), {id, url, ended}, {title})
      BY DEF Row!fathom
    <2> HIDE DEF id, url, ended
    <2>5. title \in {"text", "missing"} /\ (id = "text" \/ row.title \in {"text", "hit"} => title = "text")
      BY <2>1, <2>2
    <2>6. said \in {"text", "missing"}
          /\ (row.transcript \in {"text", "hit"} \/ row.summary \in {"text", "hit"} => said = "text")
      BY <2>1
    <2> HIDE DEF title, said
    <2> QED
      BY <2>1, <2>2, <2>3, <2>4, <2>5, <2>6
  <1>15. ASSUME row \in AnyRow("notion_event") PROVE Borne("notion_event", row, Row!notion_event(row))
    <2> SUFFICES ASSUME Bearable("notion_event", row), ~Row!Raises(Row!notion_event(row)),
                        Row!notion_event(row) # Row!NoEvidence
                 PROVE  ~Row!Refused(Row!notion_event(row))
      BY DEF Borne
    <2>1. /\ row.id \in Row!Values \ {"hit"}
          /\ row.type \in Row!Values
          /\ row.timestamp \in Row!Values \ {"hit"}
      BY <1>15 DEF AnyRow, Row!Fields, Row!Values, Bearable, In, HandedOn, Identifying, Unstripped, NeedsOneOf
    <2> QED
      BY <2>1 DEF Row!notion_event
  <1>16. ASSUME row \in AnyRow("pagerduty") PROVE Borne("pagerduty", row, Row!pagerduty(row))
    <2> SUFFICES ASSUME Bearable("pagerduty", row), ~Row!Raises(Row!pagerduty(row)),
                        Row!pagerduty(row) # Row!NoEvidence
                 PROVE  ~Row!Refused(Row!pagerduty(row))
      BY DEF Borne
    <2>1. /\ row.id \in Row!Values \ {"hit", "spaces"}
          /\ row.title \in Row!Values
          /\ row.html_url \in Row!Values \ {"hit", "other"}
          /\ row.created \in Row!Values \ {"hit"}
      BY <1>16 DEF AnyRow, Row!Fields, Row!Values, Bearable, In, HandedOn, Identifying, Unstripped, NeedsOneOf
    <2> DEFINE id == Row!Or(Row!Str(row.id), "text")
               title == Row!Redacted(Row!Stripped(row.title))
               url == Row!Given(row.html_url)
               created == Row!Str(row.created)
    <2>2. id \in {"text"}
      BY <2>1
    <2>3. title \in {"text", "missing"}
      BY <2>1
    <2>4. url \in {"text", "spaces", "missing"}
      BY <2>1
    <2>5. created \in {"text", "spaces", "missing"}
      BY <2>1
    <2>6. Row!pagerduty(row) = Row!Observed(Row!Or(title, id), {id, url, created}, {Row!Or(title, id)})
      BY DEF Row!pagerduty
    <2> HIDE DEF id, title, url, created
    <2> QED
      BY <2>2, <2>3, <2>4, <2>5, <2>6
  <1> QED
    BY <1>1, <1>2, <1>3, <1>4, <1>5, <1>6, <1>7, <1>8, <1>9, <1>10, <1>11, <1>12, <1>13, <1>14, <1>15, <1>16

\* Every parser bears what is bearable of its rows.
LEMMA ParsersBear ==
  ASSUME NEW c \in DOMAIN Row!Fields, NEW row \in AnyRow(c)
  PROVE  Borne(c, row, Row!Parse(c, row))
  <1>1. CASE c = "claude_code"
    BY <1>1, ShortParsers DEF Row!Parse
  <1>2. CASE c = "cursor"
    BY <1>2, ShortParsers DEF Row!Parse
  <1>3. CASE c = "confluence"
    BY <1>3, ShortParsers DEF Row!Parse
  <1>4. CASE c = "copilot"
    BY <1>4, ShortParsers DEF Row!Parse
  <1>5. CASE c = "osv"
    BY <1>5, OsvBorne DEF Row!Parse, Borne
  <1>6. CASE c = "anthropic_admin"
    BY <1>6, ShortParsers DEF Row!Parse
  <1>7. CASE c = "sarif"
    BY <1>7, ShortParsers DEF Row!Parse
  <1>8. CASE c = "aider"
    BY <1>8, AiderBorne DEF Row!Parse, Borne
  <1>9. CASE c = "openai_admin"
    BY <1>9, OpenaiAdminBorne DEF Row!Parse, Borne
  <1>10. CASE c = "devin"
    BY <1>10, DevinBorne DEF Row!Parse, Borne
  <1>11. CASE c = "continue_dev"
    BY <1>11, ContinueDevBorne DEF Row!Parse, Borne
  <1>12. CASE c = "mcp_registry"
    BY <1>12, ShortParsers DEF Row!Parse
  <1>13. CASE c = "granola"
    BY <1>13, ShortParsers DEF Row!Parse
  <1>14. CASE c = "local_directory"
    BY <1>14, ShortParsers DEF Row!Parse
  <1>15. CASE c = "servicenow"
    BY <1>15, ServicenowBorne DEF Row!Parse, Borne
  <1>16. CASE c = "google_drive"
    BY <1>16, ShortParsers DEF Row!Parse
  <1>17. CASE c = "github"
    BY <1>17, ShortParsers DEF Row!Parse
  <1>18. CASE c = "linear_node"
    BY <1>18, LinearNodeBorne DEF Row!Parse, Borne
  <1>19. CASE c = "linear"
    BY <1>19, LinearBorne DEF Row!Parse, Borne
  <1>20. CASE c = "jira"
    BY <1>20, JiraBorne DEF Row!Parse, Borne
  <1>21. CASE c = "gitlab"
    BY <1>21, ShortParsers DEF Row!Parse
  <1>22. CASE c = "slack"
    BY <1>22, ShortParsers DEF Row!Parse
  <1>23. CASE c = "sentry"
    BY <1>23, SentryBorne DEF Row!Parse, Borne
  <1>24. CASE c = "fathom"
    BY <1>24, ShortParsers DEF Row!Parse
  <1>25. CASE c = "notion_event"
    BY <1>25, ShortParsers DEF Row!Parse
  <1>26. CASE c = "notion"
    BY <1>26, NotionBorne DEF Row!Parse, Borne
  <1>27. CASE c = "pagerduty"
    BY <1>27, ShortParsers DEF Row!Parse
  <1>28. CASE c = "zendesk"
    BY <1>28, ZendeskBorne DEF Row!Parse, Borne
  <1> QED
    BY <1>1, <1>2, <1>3, <1>4, <1>5, <1>6, <1>7, <1>8, <1>9, <1>10, <1>11, <1>12, <1>13, <1>14,
       <1>15, <1>16, <1>17, <1>18, <1>19, <1>20, <1>21, <1>22, <1>23, <1>24, <1>25, <1>26, <1>27, <1>28 DEF Row!Fields

\* The row with a text in every field reads as texts only.
AllText == Row!Observed("text", {"text"}, {"text"})

\* A plain text stays itself, whatever reads it.
LEMMA PlainText ==
  /\ Row!Given("text") = "text" /\ Row!Text("text") = "text" /\ Row!Strip("text") = "text"
  /\ Row!Stripped("text") = "text" /\ Row!Str("text") = "text" /\ Row!Redacted("text") = "text"
  /\ Row!Within("text") = "text" /\ Row!Joined("text", "text") = "text"
  /\ \A v : Row!Or("text", v) = "text"
  BY DEF Row!Given, Row!Or, Row!Text, Row!Strip, Row!Stripped, Row!Str, Row!Redacted, Row!Within, Row!Joined

\* A row whose fields are all plain text is an observation all of plain text.
LEMMA WholeIsText ==
  ASSUME NEW c \in DOMAIN Row!Fields
  PROVE  Row!Parse(c, Whole(c)) = AllText
  <1>1. c = "claude_code" => Row!Parse(c, Whole(c)) = AllText
    <2>1. Row!claude_code(Whole("claude_code")) = AllText
      BY PlainText DEF Row!claude_code, AllText, Whole, Row!Fields
    <2> QED
      BY <2>1 DEF Row!Parse
  <1>2. c = "cursor" => Row!Parse(c, Whole(c)) = AllText
    <2>1. Row!cursor(Whole("cursor")) = AllText
      BY PlainText DEF Row!cursor, AllText, Whole, Row!Fields
    <2> QED
      BY <2>1 DEF Row!Parse
  <1>3. c = "confluence" => Row!Parse(c, Whole(c)) = AllText
    <2>1. Row!confluence(Whole("confluence")) = AllText
      BY PlainText DEF Row!confluence, AllText, Whole, Row!Fields
    <2> QED
      BY <2>1 DEF Row!Parse
  <1>4. c = "copilot" => Row!Parse(c, Whole(c)) = AllText
    <2>1. Row!copilot(Whole("copilot")) = AllText
      BY PlainText DEF Row!copilot, AllText, Whole, Row!Fields
    <2> QED
      BY <2>1 DEF Row!Parse
  <1>5. c = "osv" => Row!Parse(c, Whole(c)) = AllText
    <2>1. Row!osv(Whole("osv")) = AllText
      BY PlainText DEF Row!osv, AllText, Whole, Row!Fields
    <2> QED
      BY <2>1 DEF Row!Parse
  <1>6. c = "anthropic_admin" => Row!Parse(c, Whole(c)) = AllText
    <2>1. Row!anthropic_admin(Whole("anthropic_admin")) = AllText
      BY PlainText DEF Row!anthropic_admin, AllText, Whole, Row!Fields
    <2> QED
      BY <2>1 DEF Row!Parse
  <1>7. c = "sarif" => Row!Parse(c, Whole(c)) = AllText
    <2>1. Row!sarif(Whole("sarif")) = AllText
      BY PlainText DEF Row!sarif, AllText, Whole, Row!Fields
    <2> QED
      BY <2>1 DEF Row!Parse
  <1>8. c = "aider" => Row!Parse(c, Whole(c)) = AllText
    <2>1. Row!aider(Whole("aider")) = AllText
      BY PlainText DEF Row!aider, AllText, Whole, Row!Fields
    <2> QED
      BY <2>1 DEF Row!Parse
  <1>9. c = "openai_admin" => Row!Parse(c, Whole(c)) = AllText
    <2>1. Row!openai_admin(Whole("openai_admin")) = AllText
      BY PlainText DEF Row!openai_admin, AllText, Whole, Row!Fields
    <2> QED
      BY <2>1 DEF Row!Parse
  <1>10. c = "devin" => Row!Parse(c, Whole(c)) = AllText
    <2>1. Row!devin(Whole("devin")) = AllText
      BY PlainText DEF Row!devin, AllText, Whole, Row!Fields
    <2> QED
      BY <2>1 DEF Row!Parse
  <1>11. c = "continue_dev" => Row!Parse(c, Whole(c)) = AllText
    <2>1. Row!continue_dev(Whole("continue_dev")) = AllText
      BY PlainText DEF Row!continue_dev, AllText, Whole, Row!Fields
    <2> QED
      BY <2>1 DEF Row!Parse
  <1>12. c = "mcp_registry" => Row!Parse(c, Whole(c)) = AllText
    <2>1. Row!mcp_registry(Whole("mcp_registry")) = AllText
      BY PlainText DEF Row!mcp_registry, AllText, Whole, Row!Fields
    <2> QED
      BY <2>1 DEF Row!Parse
  <1>13. c = "granola" => Row!Parse(c, Whole(c)) = AllText
    <2>1. Row!granola(Whole("granola")) = AllText
      BY PlainText DEF Row!granola, AllText, Whole, Row!Fields
    <2> QED
      BY <2>1 DEF Row!Parse
  <1>14. c = "local_directory" => Row!Parse(c, Whole(c)) = AllText
    <2>1. Row!local_directory(Whole("local_directory")) = AllText
      BY PlainText DEF Row!local_directory, AllText, Whole, Row!Fields
    <2> QED
      BY <2>1 DEF Row!Parse
  <1>15. c = "servicenow" => Row!Parse(c, Whole(c)) = AllText
    <2>1. Row!servicenow(Whole("servicenow")) = AllText
      BY PlainText DEF Row!servicenow, AllText, Whole, Row!Fields
    <2> QED
      BY <2>1 DEF Row!Parse
  <1>16. c = "google_drive" => Row!Parse(c, Whole(c)) = AllText
    <2>1. Row!google_drive(Whole("google_drive")) = AllText
      BY PlainText DEF Row!google_drive, AllText, Whole, Row!Fields
    <2> QED
      BY <2>1 DEF Row!Parse
  <1>17. c = "github" => Row!Parse(c, Whole(c)) = AllText
    <2>1. Row!github(Whole("github")) = AllText
      BY PlainText DEF Row!github, AllText, Whole, Row!Fields
    <2> QED
      BY <2>1 DEF Row!Parse
  <1>18. c = "linear_node" => Row!Parse(c, Whole(c)) = AllText
    <2>1. Row!linear_node(Whole("linear_node")) = AllText
      BY PlainText DEF Row!linear_node, AllText, Whole, Row!Fields
    <2> QED
      BY <2>1 DEF Row!Parse
  <1>19. c = "linear" => Row!Parse(c, Whole(c)) = AllText
    <2>1. Row!linear(Whole("linear")) = AllText
      BY PlainText DEF Row!linear, Row!linear_node, AllText, Whole, Row!Fields
    <2> QED
      BY <2>1 DEF Row!Parse
  <1>20. c = "jira" => Row!Parse(c, Whole(c)) = AllText
    <2>1. Row!jira(Whole("jira")) = AllText
      BY PlainText DEF Row!jira, AllText, Whole, Row!Fields
    <2> QED
      BY <2>1 DEF Row!Parse
  <1>21. c = "gitlab" => Row!Parse(c, Whole(c)) = AllText
    <2>1. Row!gitlab(Whole("gitlab")) = AllText
      BY PlainText DEF Row!gitlab, AllText, Whole, Row!Fields
    <2> QED
      BY <2>1 DEF Row!Parse
  <1>22. c = "slack" => Row!Parse(c, Whole(c)) = AllText
    <2>1. Row!slack(Whole("slack")) = AllText
      BY PlainText DEF Row!slack, AllText, Whole, Row!Fields
    <2> QED
      BY <2>1 DEF Row!Parse
  <1>23. c = "sentry" => Row!Parse(c, Whole(c)) = AllText
    <2>1. Row!sentry(Whole("sentry")) = AllText
      BY PlainText DEF Row!sentry, AllText, Whole, Row!Fields
    <2> QED
      BY <2>1 DEF Row!Parse
  <1>24. c = "fathom" => Row!Parse(c, Whole(c)) = AllText
    <2>1. Row!fathom(Whole("fathom")) = AllText
      BY PlainText DEF Row!fathom, AllText, Whole, Row!Fields
    <2> QED
      BY <2>1 DEF Row!Parse
  <1>25. c = "notion_event" => Row!Parse(c, Whole(c)) = AllText
    <2>1. Row!notion_event(Whole("notion_event")) = AllText
      BY PlainText DEF Row!notion_event, AllText, Whole, Row!Fields
    <2> QED
      BY <2>1 DEF Row!Parse
  <1>26. c = "notion" => Row!Parse(c, Whole(c)) = AllText
    <2>1. Row!notion(Whole("notion")) = AllText
      BY PlainText DEF Row!notion, AllText, Whole, Row!Fields
    <2> QED
      BY <2>1 DEF Row!Parse
  <1>27. c = "pagerduty" => Row!Parse(c, Whole(c)) = AllText
    <2>1. Row!pagerduty(Whole("pagerduty")) = AllText
      BY PlainText DEF Row!pagerduty, AllText, Whole, Row!Fields
    <2> QED
      BY <2>1 DEF Row!Parse
  <1>28. c = "zendesk" => Row!Parse(c, Whole(c)) = AllText
    <2>1. Row!zendesk(Whole("zendesk")) = AllText
      BY PlainText DEF Row!zendesk, AllText, Whole, Row!Fields
    <2> QED
      BY <2>1 DEF Row!Parse
  <1> QED
    BY <1>1, <1>2, <1>3, <1>4, <1>5, <1>6, <1>7, <1>8, <1>9, <1>10, <1>11, <1>12, <1>13, <1>14,
       <1>15, <1>16, <1>17, <1>18, <1>19, <1>20, <1>21, <1>22, <1>23, <1>24, <1>25, <1>26, <1>27, <1>28 DEF Row!Fields

\* The lines of a transcript never raise.
LEMMA TranscriptsNeverRaise ==
  ASSUME NEW row \in AnyRow("claude_code")
  PROVE  ~Row!Raises(Row!Parse("claude_code", row))
  <1>1. row.uuid \in Row!Values /\ row.content \in Row!Values /\ row.timestamp \in Row!Values
    BY DEF AnyRow, Row!Fields
  <1> DEFINE content == Row!Redacted(Row!Stripped(row.content))
             excerpt == Row!Or(content, "text")
             id == Row!Within(Row!Str(row.uuid))
             at == Row!Text(row.timestamp)
  <1>2. content # "raises" /\ id # "raises" /\ at # "raises"
    BY <1>1, ReadAs, RedactedIs, WithinIs DEF Strings
  <1>3. excerpt # "raises"
    BY <1>2 DEF Row!Or
  <1>4. Row!claude_code(row) \in {Row!NoEvidence, Row!Observed(excerpt, {id, at}, {"text"})}
    BY DEF Row!claude_code
  <1> HIDE DEF excerpt, id, at
  <1>5. ~Row!Raises(Row!claude_code(row))
    BY <1>2, <1>3, <1>4 DEF Row!Raises, Row!NoEvidence, Row!Observed
  <1> QED
    BY <1>5 DEF Row!Parse

\* What two rows yield: the parts of a batch that are kept, and the whole of it refused if
\* one of them is.
Delivered(parsed, kept, outcome) ==
    LET observations == Part(parsed, kept) IN
    IF \E i \in DOMAIN observations : Row!Refused(observations[i])
    THEN outcome = [refused |-> TRUE, emitted |-> <<>>]
    ELSE outcome = [refused |-> FALSE, emitted |-> observations]

\* What is delivered of two rows, from the ones that are kept.
LEMMA DeliveredIs ==
  ASSUME NEW parsed, parsed \in Seq({parsed[1], parsed[2]}), Len(parsed) = 2, NEW kept \in SUBSET {1, 2},
         NEW outcome, Delivered(parsed, kept, outcome)
  PROVE  /\ outcome.refused => \E i \in kept : Row!Refused(parsed[i])
         /\ ~outcome.refused /\ 1 \in kept => outcome.emitted # <<>> /\ Head(outcome.emitted) = parsed[1]
         /\ ~outcome.refused /\ kept = {1} => Len(outcome.emitted) = 1
  <1> DEFINE p == Part(parsed, kept)
             n == Cardinality(kept)
  <1>1. /\ IsFiniteSet(kept) /\ n \in Nat /\ p \in Seq({parsed[1], parsed[2]}) /\ PartOf(parsed, kept, p)
    <2>1. kept \subseteq 1..Len(parsed)
      OBVIOUS
    <2> QED
      BY <2>1, PartIs
  <1>2. Len(p) = n /\ \A j \in 1..n : Nth(kept, j) \in kept /\ p[j] = parsed[Nth(kept, j)]
    BY <1>1 DEF PartOf
  <1>3. DOMAIN p = 1..n
    BY <1>1, <1>2
  <1>4. ASSUME 1 \in kept
        PROVE  n >= 1 /\ p[1] = parsed[1]
    <2>1. Upto(kept, 1) = {1}
      <3>1. \A j \in kept : j <= 1 <=> j = 1
        OBVIOUS
      <3> QED
        BY <1>4, <3>1 DEF Upto
    <2>2. Rank(kept, 1) = 1
      BY <2>1, FS_Singleton DEF Rank
    <2> QED
      BY <1>1, <1>4, <2>2 DEF PartOf
  <1>5. kept = {1} => n = 1
    BY FS_Singleton
  <1> HIDE DEF p, n
  <1>6. CASE \E i \in DOMAIN p : Row!Refused(p[i])
    <2>1. outcome = [refused |-> TRUE, emitted |-> <<>>]
      BY <1>6 DEF Delivered, p
    <2> QED
      BY <1>2, <1>3, <1>6, <2>1
  <1>7. CASE ~\E i \in DOMAIN p : Row!Refused(p[i])
    <2>1. outcome = [refused |-> FALSE, emitted |-> p]
      BY <1>7 DEF Delivered, p
    <2>2. 1 \in kept => p # <<>> /\ Head(p) = parsed[1]
      BY <1>1, <1>2, <1>4
    <2> QED
      BY <1>2, <1>5, <2>1, <2>2
  <1> QED
    BY <1>6, <1>7

AnyPoll(poll) ==
    /\ poll.c \in DOMAIN Row!Fields /\ poll.row \in AnyRow(poll.c)
    /\ poll.piece \in BOOLEAN /\ (poll.piece => poll.c \in {"sarif", "claude_code"})

\* deliver_poll of any row of any connector behind a good one, in one payload with it or in
\* another: the row costs itself, or its payload, never the batch.
THEOREM AnyRows ==
  ASSUME NEW poll, AnyPoll(poll)
  PROVE  FailsAlone(poll, Row!DeliverPoll(poll.c, Batch(poll)))
  <1> DEFINE c == poll.c
             good == Row!Parse(c, Whole(c))
             bad == Row!Parse(c, poll.row)
             raises == Row!Raises(bad)
             parsed == <<good, bad>>
             second == IF poll.piece THEN 1 ELSE 2
             batch == Batch(poll)
             skipped == {batch[i].payload : i \in {j \in DOMAIN batch : Row!Raises(parsed[j])}}
             kept == {i \in DOMAIN batch : batch[i].payload \notin skipped /\ parsed[i] # Row!NoEvidence}
             outcome == Row!DeliverPoll(c, batch)
  <1>1. /\ DOMAIN batch = {1, 2} /\ batch[1].payload = 1 /\ batch[2].payload = second
        /\ batch[1].row = Whole(c) /\ batch[2].row = poll.row
    BY DEF Batch
  <1>2. ~Row!Raises(good) /\ good # Row!NoEvidence /\ ~Row!Refused(good)
    BY WholeIsText DEF AnyPoll, AllText, Row!Raises, Row!NoEvidence, Row!Refused, Row!Observed
  <1>3. ~Row!Raises(Row!NoEvidence)
    BY DEF Row!Raises, Row!NoEvidence, Row!Observed
  <1>4. Delivered(parsed, kept, outcome)
    <2>1. [i \in DOMAIN batch |-> Row!Parse(c, batch[i].row)] = parsed
      BY <1>1
    <2>2. \A s, I : Row!Part(s, I) = Part(s, I)
      BY DEF Row!Part, Part, Row!Nth, Nth, Row!Cardinality, Cardinality
    <2>3. Row!Observations(c, batch) = Part(parsed, kept)
      BY <2>1, <2>2 DEF Row!Observations
    <2> HIDE DEF parsed, kept, batch
    <2> QED
      BY <2>3 DEF Row!DeliverPoll, Delivered
  <1>5. parsed \in Seq({parsed[1], parsed[2]}) /\ Len(parsed) = 2 /\ parsed[1] = good /\ parsed[2] = bad
    OBVIOUS
  <1>6. second \in {1, 2} /\ (second = 1 <=> poll.piece)
    BY DEF AnyPoll
  <1> HIDE DEF batch, second, parsed, good, bad, outcome
  <1>7. raises => skipped = {second}
    BY <1>1, <1>2, <1>5
  <1>8. ~raises => skipped = {}
    BY <1>1, <1>2, <1>5
  <1> HIDE DEF skipped
  <1>9. /\ kept \in SUBSET {1, 2} /\ (1 \in kept <=> ~(poll.piece /\ raises))
        /\ 2 \in kept => ~raises /\ bad # Row!NoEvidence
        /\ raises /\ ~poll.piece => kept = {1}
    BY <1>1, <1>2, <1>5, <1>6, <1>7, <1>8
  <1> HIDE DEF kept
  <1>10. /\ outcome.refused => \E i \in kept : Row!Refused(parsed[i])
         /\ ~outcome.refused /\ 1 \in kept => outcome.emitted # <<>> /\ Head(outcome.emitted) = parsed[1]
         /\ ~outcome.refused /\ kept = {1} => Len(outcome.emitted) = 1
    BY <1>4, <1>5, <1>9, DeliveredIs
  <1>11. outcome.refused => ~Bearable(c, poll.row)
    <2> SUFFICES ASSUME outcome.refused PROVE ~Bearable(c, poll.row)
      OBVIOUS
    <2>1. 2 \in kept /\ Row!Refused(bad)
      BY <1>2, <1>5, <1>9, <1>10
    <2> QED
      BY <1>9, <2>1, ParsersBear DEF Borne, AnyPoll, bad
  <1>12. poll.piece /\ raises => c = "sarif"
    BY TranscriptsNeverRaise DEF AnyPoll, bad
  <1> QED
    BY <1>5, <1>9, <1>10, <1>11, <1>12 DEF FailsAlone, good, bad, outcome, batch

\* What deliver_poll makes of a batch of any number of rows.  It is refused for a row that the
\* connector may not bear, and for nothing else; otherwise what leaves is what the parser made
\* of each row that has evidence and no row that raises in its payload, once each and in order.
THEOREM AnyBatchOfRows ==
  ASSUME NEW c \in DOMAIN Row!Fields, NEW P, NEW batch \in Seq([payload : P, row : AnyRow(c)])
  PROVE  LET parsed == [i \in 1..Len(batch) |-> Row!Parse(c, batch[i].row)]
             kept == {i \in 1..Len(batch) :
                        /\ parsed[i] # Row!NoEvidence
                        /\ \A j \in 1..Len(batch) : batch[j].payload = batch[i].payload => ~Row!Raises(parsed[j])}
             out == Row!DeliverPoll(c, batch)
         IN  /\ out.refused => \E i \in kept : ~Bearable(c, batch[i].row)
             /\ ~out.refused => PartOf(parsed, kept, out.emitted)
  <1> DEFINE n == Len(batch)
             parsed == [i \in 1..n |-> Row!Parse(c, batch[i].row)]
             Unharmed(i) == \A j \in 1..n : batch[j].payload = batch[i].payload => ~Row!Raises(parsed[j])
             kept == {i \in 1..n : parsed[i] # Row!NoEvidence /\ Unharmed(i)}
             skipped == {batch[i].payload : i \in {j \in DOMAIN batch : Row!Raises(parsed[j])}}
             staying == {i \in DOMAIN batch : batch[i].payload \notin skipped /\ parsed[i] # Row!NoEvidence}
             out == Row!DeliverPoll(c, batch)
             All == {parsed[i] : i \in 1..n}
             p == Part(parsed, kept)
  <1>1. n \in Nat /\ DOMAIN batch = 1..n /\ \A i \in 1..n : batch[i].row \in AnyRow(c)
    <2> DEFINE pairs == [payload : P, row : AnyRow(c)]
    <2>1. \A b \in pairs : b.row \in AnyRow(c)
      OBVIOUS
    <2>2. batch \in Seq(pairs)
      OBVIOUS
    <2> HIDE DEF pairs
    <2>3. n \in Nat /\ DOMAIN batch = 1..n /\ \A i \in 1..n : batch[i] \in pairs
      BY <2>2
    <2> QED
      BY <2>1, <2>3
  <1>2. staying = kept
    BY <1>1
  <1>3. Row!Observations(c, batch) = p
    <2>1. [i \in DOMAIN batch |-> Row!Parse(c, batch[i].row)] = parsed
      BY <1>1
    <2>2. \A s, I : Row!Part(s, I) = Part(s, I)
      BY DEF Row!Part, Part, Row!Nth, Nth, Row!Cardinality, Cardinality
    <2>3. Row!Observations(c, batch) = Part(parsed, staying)
      BY <2>1, <2>2 DEF Row!Observations
    <2> QED
      BY <1>2, <2>3
  <1>4. parsed \in Seq(All) /\ Len(parsed) = n
    BY <1>1
  <1>5. kept \subseteq 1..Len(parsed)
    BY <1>4
  <1>6. \A i \in kept : i \in 1..n /\ parsed[i] = Row!Parse(c, batch[i].row) /\ parsed[i] # Row!NoEvidence
                        /\ ~Row!Raises(parsed[i])
    OBVIOUS
  <1>7. IF \E i \in DOMAIN p : Row!Refused(p[i]) THEN out = [refused |-> TRUE, emitted |-> <<>>]
        ELSE out = [refused |-> FALSE, emitted |-> p]
    BY <1>3 DEF Row!DeliverPoll
  <1> HIDE DEF parsed, kept, out, All, p, n
  <1>8. p \in Seq(All) /\ PartOf(parsed, kept, p) /\ Cardinality(kept) \in Nat
    BY <1>4, <1>5, PartIs DEF p
  <1>9. ASSUME out.refused
        PROVE  \E i \in kept : ~Bearable(c, batch[i].row)
    <2>1. PICK m \in DOMAIN p : Row!Refused(p[m])
      BY <1>7, <1>9
    <2>2. m \in 1..Cardinality(kept)
      BY <1>8 DEF PartOf
    <2>3. Nth(kept, m) \in kept /\ p[m] = parsed[Nth(kept, m)]
      BY <1>8, <2>2 DEF PartOf
    <2>4. \A i \in kept : Row!Refused(parsed[i]) => ~Bearable(c, batch[i].row)
      BY <1>1, <1>6, ParsersBear DEF Borne
    <2> QED
      BY <2>1, <2>3, <2>4
  <1>10. ~out.refused => PartOf(parsed, kept, out.emitted)
    BY <1>7, <1>8
  <1> QED
    BY <1>9, <1>10 DEF n, parsed, kept, out

\* The polls of the cases are polls.
LEMMA PollsAre == \A poll \in Polls : AnyPoll(poll)
  <1> SUFFICES ASSUME NEW poll \in Polls PROVE AnyPoll(poll)
    OBVIOUS
  <1>1. PICK c \in DOMAIN Row!Fields : poll \in PollsOf(c)
    BY DEF Polls
  <1>2. PICK row \in RowsOf(c), piece \in Pieces(c) : poll = Poll(c, row, piece)
    BY <1>1 DEF PollsOf
  <1>3. row \in AnyRow(c)
    BY DEF RowsOf, AnyRow, Row!Values
  <1> QED
    BY <1>2, <1>3 DEF AnyPoll, Poll, Pieces

\* RowsFailAlone of every behaviour: deliver_poll loses no batch to a row, but for the
\* fields no row may bear.
THEOREM BadRowsFailAlone == OperationSpec => []RowsFailAlone
  <1>1. OperationInit => RowsFailAlone
    BY DEF OperationInit, RowsFailAlone
  <1>2. RowsFailAlone /\ [OperationNext]_done => RowsFailAlone'
    <2> SUFFICES ASSUME RowsFailAlone, [OperationNext]_done, done'.kind = "rows"
                 PROVE  FailsAlone(done'.in, done'.out)
      BY DEF RowsFailAlone
    <2>1. CASE UNCHANGED done
      BY <2>1 DEF RowsFailAlone
    <2>2. CASE OperationNext
      <3>1. DeliverRows
        BY <2>2, Called
      <3>2. PICK poll \in Polls : Does("rows", poll, Row!DeliverPoll(poll.c, Batch(poll)))
        BY <3>1 DEF DeliverRows
      <3>3. done'.in = poll /\ done'.out = Row!DeliverPoll(poll.c, Batch(poll))
        BY <3>2, DoneIs
      <3> QED
        BY <3>3, PollsAre, AnyRows
    <2> QED
      BY <2>1, <2>2
  <1> QED
    BY <1>1, <1>2, PTL DEF OperationSpec
==============================================================================
