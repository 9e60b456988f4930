---------------------------- MODULE ConnectorRun ----------------------------
(***************************************************************************)
(* "run <connector>": the gate of LocalConfig, the resolver, the builders  *)
(* of poll_specs.py with their checks of the endpoint, the runners, and    *)
(* the fetch of one document (doc_fetch.py), up to the first request.      *)
(***************************************************************************)
EXTENDS LocalConfig, Redaction

\* A builder has the key of its credential, <<>> if it needs none, the runtime values
\* it must and may be given, and the one that says where the request goes.
Builder(key, needs, takes, target) ==
    [key |-> key, needs |-> needs, takes |-> takes, target |-> target]

Builders ==
    [ linear          |-> Builder(<<"linear">>, {}, {"endpoint", "page_size"}, "endpoint"),
      granola         |-> Builder(<<"granola">>, {}, {"base_url"}, "base_url"),
      anthropic_admin |-> Builder(<<"anthropic_admin">>, {},
                                  {"base_url", "version", "next_param"}, "base_url"),
      openai_admin    |-> Builder(<<"openai_admin">>, {}, {"base_url", "next_param"}, "base_url"),
      copilot         |-> Builder(<<"copilot">>, {}, {"base_url", "api_version", "per_page"}, "base_url"),
      cursor          |-> Builder(<<"cursor">>, {}, {"base_url", "body"}, "base_url"),
      devin           |-> Builder(<<"devin">>, {"base_url"}, {"base_url"}, "base_url"),
      servicenow      |-> Builder(<<"servicenow">>, {"instance", "username"},
                                  {"instance", "username", "limit", "fields"}, "instance"),
      mcp_registry    |-> Builder(<<>>, {}, {"base_url"}, "base_url") ]

Runners == DOMAIN Builders \cup {"google_drive"}

\* _require_https_endpoint with an allowlist; "" and what is no URL have no scheme.
EndpointRefusal(endpoint) ==
    CASE endpoint = "pinned" -> ""
      [] endpoint \in {"other host", "internal"} -> "endpoint_host_not_allowed"
      [] OTHER -> "bad_endpoint"

\* _require_bare_host: any host that is not an internal one.
HostRefusal(host) ==
    CASE host \in {"pinned", "other host"} -> ""
      [] host = "internal" -> "internal_host"
      [] OTHER -> "bad_host"

\* A target that is not given is the builder's own, which is pinned; one that is given
\* and empty is not.  Without a credential there is nothing to pin.
TargetRefusal(c, runtime) ==
    LET target == IF Builders[c].target \in DOMAIN runtime THEN runtime[Builders[c].target]
                  ELSE "pinned"
    IN CASE c = "servicenow" -> HostRefusal(target)
         [] c = "mcp_registry" -> ""
         [] OTHER -> EndpointRefusal(target)

\* build_resolver makes the resolver of every complete triple of the file, whichever
\* connector is run, and one part with a control character in it refuses the run.
Poisoned(blocks, env) ==
    \E c \in DOMAIN blocks \cap DOMAIN Descriptors : \E cred \in CredentialsOf(c) :
        /\ Durable(blocks, env, cred)
        /\ \E key \in AuxKeys(cred) : Resolve(blocks, env, key) = "malformed"

\* The resolver of a credential: a complete triple takes the place of a token that was pasted.
ResolvedSecret(blocks, env, key, answer) ==
    IF key = <<>> THEN [failure |-> "", secret |-> "public"]
    ELSE LET durable == \E c \in DOMAIN blocks \cap DOMAIN Descriptors :
                            \E cred \in CredentialsOf(c) :
                                cred.key = key /\ Durable(blocks, env, cred)
         IN IF ~durable THEN [failure |-> "", secret |-> Resolve(blocks, env, key)]
            ELSE [ failure |-> Mint(answer),
                   secret |-> IF Mint(answer) = "" THEN answer.token ELSE "" ]

\* The four kinds of headers all refuse a secret with a control character, Basic's
\* before it is encoded.
HeaderFailure(secret) ==
    IF secret = "malformed" THEN "auth_header_contains_control_char" ELSE ""

\* _require_secret, and what comes of the headers.
SecretFailure(resolved) ==
    IF resolved.failure # "" THEN resolved.failure
    ELSE IF resolved.secret = "" THEN "secret_unresolved"
    ELSE HeaderFailure(resolved.secret)

\* The builders check their arguments before the secret, the secret before the
\* endpoint, and the header last.
BuildFailure(c, resolved, runtime) ==
    LET given == DOMAIN runtime IN
    IF ~(Builders[c].needs \subseteq given /\ given \subseteq Builders[c].takes)
    THEN "bad_runtime_config"
    ELSE IF resolved.failure # "" \/ resolved.secret = "" THEN SecretFailure(resolved)
    ELSE IF TargetRefusal(c, runtime) # "" THEN TargetRefusal(c, runtime)
    ELSE SecretFailure(resolved)

\* A document id on the command line comes before the configured one.
DocumentFailure(asked, runtime, resolved) ==
    LET id == IF asked # "" THEN asked ELSE At(runtime, "document_id") IN
    CASE id = "" -> "document_id_required"
      [] id = "malformed" -> "bad_document_id"
      [] OTHER -> SecretFailure(resolved)

\* run_connector: a failure, or "" when the first request goes out.
RunFailure(c, blocks, env, asked, answer) ==
    IF c \notin Runners THEN "not_runnable"
    ELSE IF Gate(blocks, env, c, "active") # "" THEN Gate(blocks, env, c, "active")
    ELSE IF Poisoned(blocks, env) THEN "triple_contains_control_char"
    ELSE LET runtime == blocks[c].runtime
             key == IF c = "google_drive" THEN <<c>> ELSE Builders[c].key
             resolved == ResolvedSecret(blocks, env, key, answer)
         IN IF c = "google_drive" THEN DocumentFailure(asked, runtime, resolved)
            ELSE BuildFailure(c, resolved, runtime)

\* fetch_document: the one answer becomes at most one emission.
FetchDocument(answer, obs) ==
    CASE answer.status # 200 -> "http_error"
      [] answer.oversized -> "oversized_body"
      [] ~answer.json -> "unparseable_body"
      [] ~answer.object -> "non_object_body"
      [] OTHER -> Refusal(obs)

\* main: what the process exits with.  Errors that are nobody's to expect (a file
\* that is not JSON, an emission the contract refuses) end in a traceback.
ExpectedErrors == {"ConfigError", "PollError", "GatewayEmissionGated", "FileNotFoundError",
                   "ConsentError", "OAuthRefreshError"}

ExitCode(error) == CASE error = "" -> 0 [] error \in ExpectedErrors -> 2 [] OTHER -> 1
==============================================================================
