---------------------------- MODULE LocalConfig ----------------------------
(***************************************************************************)
(* The operator's configuration: what a connector's descriptor declares,   *)
(* what the local file and the environment supply (runtime/local_config.py *)
(* and config_write.py), and what the OAuth resolver and consent make of   *)
(* an answer of the provider (google_oauth.py, oauth_consent.py).          *)
(*                                                                         *)
(* A credential key is a sequence of its parts, "google_drive_client_id"   *)
(* being <<"google_drive", "client_id">>, and the value of one that is     *)
(* empty or missing is "".                                                 *)
(***************************************************************************)
EXTENDS Integers, Sequences, SequencesExt, FiniteSets

\* A credential without modes serves all of them; a refreshed one is an oauth2
\* credential the operator refreshes.
Credential(key, type, modes, refreshed) ==
    [key |-> key, type |-> type, required |-> TRUE, modes |-> modes, refreshed |-> refreshed]

Linear ==
    [ modes |-> {"webhook", "active"}, runtime |-> {"page_size"},
      credentials |-> << Credential(<<"linear">>, "api_key", {"active"}, FALSE),
                         Credential(<<"linear", "webhook">>, "webhook_secret", {"webhook"}, FALSE) >>,
      instructions |-> <<"open_url", "paste_secret", "register_webhook", "paste_secret", "verify">> ]

GoogleDrive ==
    [ modes |-> {"active"}, runtime |-> {"document_id"},
      credentials |-> <<Credential(<<"google_drive">>, "oauth2", {"active"}, TRUE)>>,
      instructions |-> <<"oauth_consent", "configure", "verify">> ]

Granola ==
    [ modes |-> {"passive"}, runtime |-> {"base_url"},
      credentials |-> <<Credential(<<"granola">>, "api_key", {}, FALSE)>>,
      instructions |-> <<"open_url", "paste_secret", "verify">> ]

AnthropicAdmin ==
    [ modes |-> {"active"}, runtime |-> {"base_url", "bucket_width"},
      credentials |-> <<Credential(<<"anthropic_admin">>, "api_key", {"active"}, FALSE)>>,
      instructions |-> <<"open_url", "paste_secret", "verify">> ]

Devin ==
    [ modes |-> {"active"}, runtime |-> {"base_url"},
      credentials |-> <<Credential(<<"devin">>, "api_key", {"active"}, FALSE)>>,
      instructions |-> <<"open_url", "paste_secret", "configure", "verify">> ]

ServiceNow ==
    [ modes |-> {"active"}, runtime |-> {"instance", "username", "limit", "fields"},
      credentials |-> <<Credential(<<"servicenow">>, "basic", {"active"}, FALSE)>>,
      instructions |-> <<"open_url", "paste_secret", "configure", "verify">> ]

OpenAIAdmin ==
    [ modes |-> {"active"}, runtime |-> {"base_url"},
      credentials |-> <<Credential(<<"openai_admin">>, "api_key", {"active"}, FALSE)>>,
      instructions |-> <<"open_url", "paste_secret", "verify">> ]

Copilot ==
    [ modes |-> {"active"}, runtime |-> {"base_url", "api_version", "per_page"},
      credentials |-> <<Credential(<<"copilot">>, "api_key", {"active"}, FALSE)>>,
      instructions |-> <<"open_url", "paste_secret", "configure", "verify">> ]

Cursor ==
    [ modes |-> {"active"}, runtime |-> {"base_url", "body"},
      credentials |-> <<Credential(<<"cursor">>, "basic", {"active"}, FALSE)>>,
      instructions |-> <<"open_url", "paste_secret", "configure", "verify">> ]

\* The registry is public.
McpRegistry ==
    [ modes |-> {"active"}, runtime |-> {"base_url"}, credentials |-> <<>>,
      instructions |-> <<"open_url", "verify">> ]

\* The connectors that may be run.
Descriptors ==
    [ linear |-> Linear, google_drive |-> GoogleDrive, granola |-> Granola,
      anthropic_admin |-> AnthropicAdmin, openai_admin |-> OpenAIAdmin, copilot |-> Copilot,
      cursor |-> Cursor, devin |-> Devin, servicenow |-> ServiceNow,
      mcp_registry |-> McpRegistry ]

CredentialsOf(c) == Range(Descriptors[c].credentials)

Serves(cred, mode) == cred.modes = {} \/ mode \in cred.modes

\* oauth_aux_keys: the durable form of a refreshed credential.
AuxKeys(cred) ==
    IF cred.refreshed
    THEN {Append(cred.key, part) : part \in {"refresh_token", "client_id", "client_secret"}}
    ELSE {}

KeysOf(c) == UNION {{cred.key} \cup AuxKeys(cred) : cred \in CredentialsOf(c)}

------------------------------------------------------------------------------
(* The file: blocks by connector, each with its secrets and runtime values.    *)

At(f, key) == IF key \in DOMAIN f THEN f[key] ELSE ""

\* A dictionary with one key, and one updated by another: :> and @@ of TLC.tla, whose
\* definitions the prover does not see.
Only(key, v) == [k \in {key} |-> v]
Over(new, old) ==
    [k \in DOMAIN new \cup DOMAIN old |-> IF k \in DOMAIN new THEN new[k] ELSE old[k]]

\* load_config: why a document is refused, or "".
LoadFailure(doc) ==
    CASE ~doc.exists -> "config_not_found"
      [] ~doc.object -> "root_not_object"
      [] doc.top # {} -> "unknown_top_level_keys"
      [] \E c \in DOMAIN doc.blocks : ~doc.blocks[c].object -> "connector_not_object"
      [] \E c \in DOMAIN doc.blocks : doc.blocks[c].unknown # {} -> "unknown_connector_keys"
      [] \E c, d \in DOMAIN doc.blocks : c # d /\
            DOMAIN doc.blocks[c].secrets \cap DOMAIN doc.blocks[d].secrets # {}
         -> "duplicate_credential_key"
      [] OTHER -> ""

FileSecret(blocks, key) ==
    LET holders == {c \in DOMAIN blocks : key \in DOMAIN blocks[c].secrets}
    IN IF holders = {} THEN "" ELSE blocks[CHOOSE c \in holders : TRUE].secrets[key]

\* FileSecretResolver: the environment wins if it is set and not empty.
Resolve(blocks, env, key) ==
    IF At(env, key) # "" THEN env[key] ELSE FileSecret(blocks, key)

Durable(blocks, env, cred) ==
    cred.refreshed /\ \A key \in AuxKeys(cred) : Resolve(blocks, env, key) # ""

\* (Mutant) A part of the triple is enough.
MissingPartial(blocks, env, c, mode) ==
    {cred \in CredentialsOf(c) :
        /\ cred.required /\ Serves(cred, mode)
        /\ Resolve(blocks, env, cred.key) = ""
        /\ \A key \in AuxKeys(cred) : Resolve(blocks, env, key) = ""}

\* A credential may come directly or, if it is refreshed, as its whole triple.
Missing(blocks, env, c, mode) ==
    {cred \in CredentialsOf(c) :
        /\ cred.required /\ Serves(cred, mode)
        /\ Resolve(blocks, env, cred.key) = ""
        /\ ~Durable(blocks, env, cred)}

\* assert_runnable: why a connector may not run, or "".
Gate(blocks, env, c, mode) ==
    CASE c \notin DOMAIN blocks -> "not_in_config"
      [] c \notin DOMAIN Descriptors -> "no_descriptor"
      [] DOMAIN blocks[c].secrets \ KeysOf(c) # {} -> "unknown_credential_key"
      [] DOMAIN blocks[c].runtime \ Descriptors[c].runtime # {} -> "unknown_runtime_key"
      [] Missing(blocks, env, c, mode) # {} -> "missing_credential"
      [] OTHER -> ""

\* validate_against_descriptors: what "list" warns of; runtime keys are not looked at.
Warnings(blocks) ==
    {<<c, "no_descriptor">> : c \in DOMAIN blocks \ DOMAIN Descriptors}
        \cup UNION {{<<c, "unknown_credential_key", key>> : key \in DOMAIN blocks[c].secrets \ KeysOf(c)}
                        : c \in DOMAIN blocks \cap DOMAIN Descriptors}

\* _check_runtime_allowlist: one undeclared runtime key of any connector, the one
\* being configured or not, and nothing is written.
WriteRefused(blocks) ==
    \E c \in DOMAIN blocks \cap DOMAIN Descriptors :
        DOMAIN blocks[c].runtime \ Descriptors[c].runtime # {}

\* (Mutant) The example is copied as it is, placeholders and all.
SeededRaw(example) == example

\* seeded_document: no placeholder of the example may pass for a secret.
Seeded(example) ==
    [c \in DOMAIN example |->
        [example[c] EXCEPT !.secrets = [key \in DOMAIN @ |-> ""]]]

------------------------------------------------------------------------------
(* Configure: modes and the queue of credentials *)

\* _selected_modes: a descriptor's modes and those of its credentials.
DeclaredModes(c) == Descriptors[c].modes \cup UNION {cred.modes : cred \in CredentialsOf(c)}

SelectedModes(c, asked) == IF asked = {} THEN DeclaredModes(c) ELSE asked

\* _in_scope: a credential without modes has those of its descriptor.
InScope(c, cred, modes) ==
    (IF cred.modes = {} THEN Descriptors[c].modes ELSE cred.modes) \cap modes # {}

\* run_configure's queue: the positions, in the descriptor, of what is to be collected.
Queue(c, modes) ==
    LET credentials == Descriptors[c].credentials
    IN {i \in DOMAIN credentials : InScope(c, credentials[i], modes)}

\* _pop_credential: the first of the type, or of any type.
Candidates(c, queue, type) ==
    {i \in queue : type = "any" \/ Descriptors[c].credentials[i].type = type}
FirstCandidate(c, queue, type) ==
    CHOOSE i \in Candidates(c, queue, type) : \A j \in Candidates(c, queue, type) : i <= j

\* (Mutant) The block is replaced, not merged.
PersistReplaced(blocks, c, secrets, runtime, enabled) ==
    Over(Only(c, [secrets |-> secrets, runtime |-> runtime, enabled |-> enabled]), blocks)

\* _persist: the block's secrets and runtime are merged, with the new ones on top.
Persisted(blocks, c, secrets, runtime, enabled) ==
    LET old == IF c \in DOMAIN blocks THEN blocks[c]
               ELSE [secrets |-> <<>>, runtime |-> <<>>, enabled |-> FALSE]
    IN Over(Only(c, [ secrets |-> Over(secrets, old.secrets),
                      runtime |-> Over(runtime, old.runtime), enabled |-> enabled ]), blocks)

------------------------------------------------------------------------------
(* OAuth *)

Skew == 60

\* _mint and exchange_code agree on what makes an answer of the token endpoint
\* unusable; the token they want is the access or the refresh token.
TokenFailure(answer, refused) ==
    CASE answer.raises -> "transport_error"
      [] answer.status # 200 -> refused
      [] answer.oversized -> "oversized_body"
      [] ~answer.json -> "unparseable_body"
      [] answer.token = "" -> "missing_token"
      [] OTHER -> ""

Mint(answer) == TokenFailure(answer, "refresh_failed")

ExchangeCode(answer) == TokenFailure(answer, "exchange_failed")

\* (Mutant) A token whose life is not stated is taken to live an hour.
ResolveTokenHour(cache, now, answer) ==
    IF cache.token # "" /\ now < cache.expiry THEN [ok |-> TRUE, minted |-> FALSE, cache |-> cache]
    ELSE IF Mint(answer) # "" THEN [ok |-> FALSE, minted |-> FALSE, cache |-> cache]
    ELSE [ ok |-> TRUE, minted |-> TRUE, cache |-> [ token |-> answer.token,
           expiry |-> now + (IF answer.ttl = 0 THEN 3600 ELSE answer.ttl) - Skew ] ]

\* RefreshTokenSecretResolver.resolve: a cache is a token, "" if there is none, with
\* the time to replace it.  A mint that fails leaves the cache as it was.
ResolveToken(cache, now, answer) ==
    IF cache.token # "" /\ now < cache.expiry THEN [ok |-> TRUE, minted |-> FALSE, cache |-> cache]
    ELSE IF Mint(answer) # "" THEN [ok |-> FALSE, minted |-> FALSE, cache |-> cache]
    ELSE [ ok |-> TRUE, minted |-> TRUE,
           cache |-> [token |-> answer.token, expiry |-> now + answer.ttl - Skew] ]

\* wait_for_code: one request is served, whoever makes it.
CodeFailure(redirect) ==
    CASE ~redirect.arrives -> "redirect_timeout"
      [] redirect.state # "ours" -> "state_mismatch"
      [] redirect.code = "" -> "no_code"
      [] OTHER -> ""

\* run_consent
ConsentFailure(redirect, answer) ==
    IF CodeFailure(redirect) # "" THEN CodeFailure(redirect) ELSE ExchangeCode(answer)
==============================================================================
