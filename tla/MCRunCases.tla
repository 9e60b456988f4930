---------------------------- MODULE MCRunCases ----------------------------
(***************************************************************************)
(* Configurations, token answers, readings and manifests to run the        *)
(* operator's commands and the mods on, and what must come of them.        *)
(***************************************************************************)
EXTENDS Mods

Local == INSTANCE ConnectorRun

------------------------------------------------------------------------------
(* The gate of a run *)

GoodAnswer == [raises |-> FALSE, status |-> 200, oversized |-> FALSE, json |-> TRUE,
               token |-> "token", ttl |-> 90]
BadAnswer == [GoodAnswer EXCEPT !.status = 400]

\* What the keys of the connector's block and of the environment may hold; a key that
\* is not there is not in the function.
Assigning(keys, values) ==
    UNION {[held -> values] : held \in SUBSET keys}

Secrets(c) == Assigning(IF c = "mcp_registry" THEN {} ELSE {<<c>>}, {"", "value", "malformed"})

\* The parts of google_drive's triple, and every environment that has some of them.
Triple == Local!AuxKeys(Local!GoogleDrive.credentials[1])
TripleEnvironments == [Triple -> {"", "value", "malformed"}]

Environments(c) ==
    IF c = "google_drive" THEN TripleEnvironments
    ELSE Assigning(IF c = "mcp_registry" THEN {} ELSE {<<c>>}, {"", "value"})

\* Any of the values a connector declares, takes, or neither, all of the same sort.
Runtimes(c) ==
    LET keys == Local!Descriptors[c].runtime \cup {"undeclared"} \cup
                (IF c = "google_drive" THEN {} ELSE Local!Builders[c].takes)
    IN UNION {{[k \in given |-> sort] : sort \in {"", "pinned", "other host", "not https",
                                                  "internal", "malformed"}} : given \in SUBSET keys}

Block(secrets, runtime) == [secrets |-> secrets, runtime |-> runtime, enabled |-> TRUE]

RunsOf(c) ==
    { [c |-> c, blocks |-> (c :> Block(secrets, runtime)), env |-> env, answer |-> answer] :
        secrets \in Secrets(c), runtime \in Runtimes(c), env \in Environments(c),
        answer \in IF c = "google_drive" THEN {GoodAnswer, BadAnswer} ELSE {GoodAnswer} }

\* A connector with all it needs, beside a google_drive that may have its triple.
BesideDrive(c) ==
    { [ c |-> c, env |-> env, answer |-> GoodAnswer,
        blocks |-> (c :> Block(<<c>> :> "value", <<>>)) @@ ("google_drive" :> Block(<<>>, <<>>)) ] :
        env \in TripleEnvironments }

Runs ==
    (UNION {RunsOf(c) : c \in Local!Runners}) \cup BesideDrive("linear")
        \cup {[c |-> "linear", blocks |-> <<>>, env |-> (<<"linear">> :> "value"), answer |-> GoodAnswer]}

\* A document, or the runtime values a builder must have and an endpoint it knows (the
\* one of anthropic_admin does not take the bucket_width its descriptor declares).
Startable(c, runtime) ==
    LET pinned == "base_url" \in DOMAIN runtime => runtime["base_url"] = "pinned" IN
    CASE c = "google_drive" -> Local!At(runtime, "document_id") \notin {"", "malformed"}
      [] c = "servicenow" -> /\ {"instance", "username"} \subseteq DOMAIN runtime
                             /\ runtime["instance"] \in {"pinned", "other host"}
      [] c = "devin" -> "base_url" \in DOMAIN runtime /\ pinned
      [] c \in {"linear", "mcp_registry"} -> TRUE
      [] OTHER -> "bucket_width" \notin DOMAIN runtime /\ pinned

\* What a run needs besides what the gate looks at: its own credential without a control
\* character, or minted, and no triple in the file with one, whatever it is the triple of.
Sendable(run) ==
    LET parts == {Local!Resolve(run.blocks, run.env, key) : key \in Triple}
        renewed == "google_drive" \in DOMAIN run.blocks /\ "" \notin parts
    IN /\ renewed => "malformed" \notin parts
       /\ CASE run.c = "mcp_registry" -> TRUE
            [] run.c = "google_drive" /\ renewed ->
                    Local!Mint(run.answer) = "" /\ run.answer.token # "malformed"
            [] OTHER -> Local!Resolve(run.blocks, run.env, <<run.c>>) # "malformed"
       /\ Startable(run.c, run.blocks[run.c].runtime)

\* What the gate rejects makes no request and fails as the gate says; what it lets pass
\* has a credential; and whether that makes its request depends on nothing else than
\* the above.
GateAgrees(run, failure) ==
    LET gate == Local!Gate(run.blocks, run.env, run.c, "active") IN
    /\ gate # "" => failure = gate
    /\ gate = "" => failure # "secret_unresolved"
    /\ failure = "" <=> gate = "" /\ Sendable(run)

------------------------------------------------------------------------------
(* The token cache: three calls at 0, at "second" and at "third". *)

Answers == {[GoodAnswer EXCEPT !.ttl = ttl] : ttl \in {0, 30, 60, 61, 90, 3600}}
               \cup {BadAnswer, [GoodAnswer EXCEPT !.token = ""], [GoodAnswer EXCEPT !.raises = TRUE]}

Moments == {0, 1, 29, 30, 31, 59, 60, 89, 90, 3539, 3540, 3600}

Resolves ==
    { [answers |-> a, moments |-> <<0, second, third>>] :
        a \in [1..3 -> Answers], second \in {0, 1, 30, 90}, third \in Moments \cap 90..3600 }
        \cup { [answers |-> <<a, b, GoodAnswer>>, moments |-> <<0, second, second>>] :
                a \in Answers, b \in Answers, second \in Moments }

NoToken == [ok |-> FALSE, minted |-> FALSE, cache |-> [token |-> "", expiry |-> 0]]

\* The results of the three calls, each from the cache the one before left.
Resolved(r) ==
    LET call(last, i) == Local!ResolveToken(last.cache, r.moments[i], r.answers[i])
        first == call(NoToken, 1)
        second == call(first, 2)
    IN <<first, second, call(second, 3)>>

\* A token that is handed out of the cache has not expired; what fails is only what
\* must be minted, and the next call that gets a good answer recovers from it.
Outlives(r, results) ==
    /\ \A i \in 2..3 : results[i].ok /\ ~results[i].minted =>
        \E j \in 1..(i - 1) : /\ results[j].minted
                              /\ \A k \in (j + 1)..i : ~results[k].minted
                              /\ r.moments[i] < r.moments[j] + r.answers[j].ttl
    /\ \A i \in 1..3 : Local!Mint(r.answers[i]) = "" => results[i].ok
    /\ \A i \in 2..3 : ~results[i].ok => results[i].cache = results[i - 1].cache

------------------------------------------------------------------------------
(* Readings *)

ModObs ==
    [ identity |-> [f \in IdentityFields |-> <<"word">>], excerpt |-> <<"word">>,
      title |-> <<"digits">>, author |-> <<"word">>, metadata |-> {}, markers |-> {},
      signals |-> [shape |-> "missing", items |-> <<>>], mode |-> "webhook",
      oversized |-> FALSE, untyped |-> {} ]

ModEmission == Built(ModObs)

\* What mods are given: what the pipeline builds of observations, and two emissions that
\* break the contract.
ModObservations ==
    { ModObs, [ModObs EXCEPT !.excerpt = <<"word", "email">>],
      [ModObs EXCEPT !.title = <<"secret">>], [ModObs EXCEPT !.author = <<>>],
      [ModObs EXCEPT !.identity["ref"] = <<>>, !.identity["url"] = <<>>],
      [ModObs EXCEPT !.metadata = {[key |-> <<"word">>, kind |-> "text", text |-> <<"card">>]}] }

Broken(e) == { [e EXCEPT !.evidence[1].excerpt = <<>>],
               [e EXCEPT !.evidence[1].identity["ref"] = <<"secret">>] }

ModEmissions == {Built(obs) : obs \in ModObservations} \cup Broken(ModEmission)

\* The vocabularies the bundled mods know.
Vocabulary ==
    { "security keyword", "broadcast", "authority", "unfinished", "catalogued", "dependency file",
      "breaking change", "api version", "confidential", "exemption", "webhook", "webhook risk",
      "framework", "risky area", "decision", "conflict", "behavior", "test" }

\* Nothing said, one thing said, and two that belong together.
Sayings ==
    {{}} \cup {{w} : w \in Vocabulary}
        \cup {{"webhook", "webhook risk"}, {"decision", "conflict"}, {"behavior", "test"},
              {"api version", "breaking change"}, {"dependency file", "catalogued"}}

Reading(emission, source, kind, says, systems, owners) ==
    [ emission |-> emission, source |-> source, kind |-> kind, says |-> says,
      systems |-> systems, owners |-> owners ]

Sources == {"github", "slack", "mcp_registry", "aider"}
Kinds == {"", "pull_request", "message", "vulnerability", "page_view"}

Readings ==
    { Reading(emission, source, kind, says, {}, {}) :
        emission \in ModEmissions, source \in Sources, kind \in Kinds, says \in Sayings }
    \cup
    { Reading(ModEmission, "github", kind, {}, systems, owners) :
        kind \in {"issue", "message"}, systems \in SUBSET {"github", "jira"},
        owners \in SUBSET {"security", "ci", "docs"} }

Routed(artifacts) == {a \in artifacts : a.type = "routing_hint"}

Weak == {{}, {"api version"}, {"dependency file"}, {"webhook"}, {"decision"}, {"behavior", "test"}}

\* On what the pipeline emits, every bundled mod stays inside its own manifest and
\* echoes nothing sensitive; on what breaks the contract none runs.  Where the
\* redactor has been, in the title or in the body, restricted review is asked for, and
\* what is too weak a sign routes nobody.
KeepsContract(r, out) ==
    LET fit == Violation(r.emission) = ""
        cut == (Range(r.emission.title) \cup Range(r.emission.body))
                    \cap {"[secret]", "[email]", "[phone]", "[pan]", "[phi]"} # {}
    IN /\ \A id \in DOMAIN out.ran : out.ran[id] = (IF fit THEN "ok" ELSE "input_refused")
       /\ cut => \E a \in Routed(out.said.data_classification) : a.role = "restricted-review"
       /\ r.says \in Weak /\ r.kind # "vulnerability" =>
            \A id \in { "dependency_risk", "connector_freshness", "webhook_risk", "decision_drift",
                        "test_adequacy" } : Routed(out.said[id]) = {}

\* Numbers by the keys and the list items one goes through to get to them.
Paths == UNION {[1..n -> {"score", "key", "item"}] : n \in 1..4}

Scored == [type |-> "routing_hint", numbers |-> {}, echoes |-> {<<"word">>}]

\* An artifact of the bundled mod "noisy_source_gate" with one thing wrong, or none.
ModArtifacts ==
    {[Scored EXCEPT !.numbers = {path}] : path \in Paths}
        \cup {[Scored EXCEPT !.type = type] : type \in KnownOutputs \cup {"merge"}}
        \cup {[Scored EXCEPT !.echoes = {text}] : text \in {<<"secret">>, <<"card">>, <<"id:", "card">>}}

\* What a mod may say by its manifest it may say without a score; the one score that
\* passes is inside a list inside a list, where the walk does not go.
ScoresNothing(a, outcome) ==
    outcome = "ok" =>
        /\ a.type \in DeclaredBy("noisy_source_gate").outputs
        /\ \A t \in a.echoes : DetectSensitive(t) = {}
        /\ \A path \in a.numbers : "score" \in Range(path) =>
                \E i \in 2..Len(path) : path[i - 1] = "item" /\ path[i] = "item"

------------------------------------------------------------------------------
(* Manifests: what one edit makes of a good one. *)

Key(key, value) == [kind |-> "key", key |-> key, value |-> value]
Line(kind) == [kind |-> kind, key |-> "none", value |-> "nothing"]

GoodManifest ==
    << Key("id", "text"), Key("outputs", "nothing"), Line("item"), Key("version", "text"),
       Key("name", "text"), Key("forbidden_actions", "nothing"), Line("item"), Line("item") >>

Lines == {Line("blank"), Line("bad"), Line("item")}
            \cup {Key(k, v) : k \in ScalarKeys \cup ListKeys \cup {"other"}, v \in {"nothing", "text"}}

SplitAt(i) == [before |-> SubSeq(GoodManifest, 1, i - 1), after |-> SubSeq(GoodManifest, i, Len(GoodManifest))]

Manifests ==
    {GoodManifest}
        \cup {SplitAt(i).before \o <<l>> \o SplitAt(i).after : i \in 1..(Len(GoodManifest) + 1), l \in Lines}
        \cup {[GoodManifest EXCEPT ![i] = l] : i \in DOMAIN GoodManifest, l \in Lines}
        \cup {SplitAt(i).before \o SplitAt(i + 1).after : i \in DOMAIN GoodManifest}
        \cup {[GoodManifest EXCEPT ![i] = GoodManifest[j], ![j] = GoodManifest[i]] :
                i, j \in DOMAIN GoodManifest}

KeyLines(lines, key) == {i \in DOMAIN lines : lines[i].kind = "key" /\ lines[i].key = key}

\* The key that line i is under, 0 if none.
Under(lines, i) ==
    LET above == {j \in 1..(i - 1) : lines[j].kind = "key"} IN
    IF above = {} THEN 0 ELSE CHOOSE j \in above : \A k \in above : k <= j

\* A manifest has each of its five keys once and no other, scalars with a value and
\* lists without one, items under lists only, and at least one forbidden action.
Declares(lines) ==
    /\ \A i \in DOMAIN lines :
        /\ lines[i].kind # "bad"
        /\ lines[i].kind = "key" => lines[i].key \in ScalarKeys \cup ListKeys
        /\ lines[i].kind = "item" =>
            Under(lines, i) # 0 /\ lines[Under(lines, i)].key \in ListKeys
    /\ \A key \in ScalarKeys \cup ListKeys :
        /\ Cardinality(KeyLines(lines, key)) = 1
        /\ \A i \in KeyLines(lines, key) : lines[i].value = "nothing" <=> key \in ListKeys
    /\ \E i \in DOMAIN lines :
        /\ lines[i].kind = "item" /\ Under(lines, i) # 0
        /\ lines[Under(lines, i)].key = "forbidden_actions"
==============================================================================
