---------------------------- MODULE MCProviderCases ----------------------------
(***************************************************************************)
(* Answers to run the cursor policy and the discovery connectors on, and   *)
(* what must come of them.                                                 *)
(***************************************************************************)
EXTENDS ProviderDiscovery, SequencesExt

Policy == INSTANCE CursorPolicy

------------------------------------------------------------------------------
(* Outcomes of a delivery *)

Statuses == {0, 200, 201, 202, 204, 301, 400, 401, 403, 404, 409, 413, 422, 428,
             429, 499, 500, 502, 503, 599}

ReasonInputs ==
    Policy!SensitiveReasons \cup Policy!SchemaDriftReasons \cup Policy!OpaqueReasons \cup
    {"transport_error", "unexpected_status_expected_201", "github_poll_failed"}

------------------------------------------------------------------------------
(* Discovery *)

Object(id, name, content) ==
    [ object |-> TRUE, id |-> id, name |-> name, content |-> content, extra |-> <<>>,
      parent |-> <<"word">>, pushes |-> FALSE ]

GoodObject == Object(<<"digits">>, <<"word">>, <<"word">>)

Objects ==
    { GoodObject, NoObject, Object(<<"word">>, <<>>, <<>>), [GoodObject EXCEPT !.pushes = TRUE],
      Object(<<"bot">>, <<"secret">>, <<"word">>), Object(<<"bot">>, <<"word">>, <<"mrn">>),
      [GoodObject EXCEPT !.extra = <<"card">>], [GoodObject EXCEPT !.parent = <<"secret">>] }

Lists == {<<>>, <<GoodObject>>} \cup {<<GoodObject, o, Object(<<"word">>, <<"word">>, <<>>)>> : o \in Objects}

SignalSets == {{}, {"rate"}, {"auth"}, {"forbidden"}, {"not found"}, {"scope"},
               {"rate", "forbidden"}, {"rate", "scope"}, {"auth", "not found"}}

Answer(status, signals, node, nodes) ==
    [status |-> status, signals |-> signals, node |-> node, nodes |-> nodes]

Ok(node, nodes) == Answer(200, {}, node, nodes)

\* What can be asked of each provider: the operation and the kind of the id.
NoId == ""

Asked ==
    { <<"github", "list", NoId>>, <<"github", "get", NoId>>, <<"github", "fetch", "issue-">>,
      <<"github", "fetch", "pr-">>, <<"github", "fetch", "file-">>, <<"github", "fetch", "other">>,
      <<"linear", "list", NoId>>, <<"linear", "list", "team">>, <<"linear", "list", "project">>,
      <<"linear", "get", "workspace">>, <<"linear", "get", "team">>, <<"linear", "get", "project">>,
      <<"linear", "get", "issue">>, <<"linear", "get", "other">>, <<"linear", "fetch", "issue">>,
      <<"linear", "fetch", "comment">>, <<"linear", "fetch", "other">>, <<"drive", "list", NoId>>,
      <<"drive", "list", "shared_drive">>, <<"drive", "get", "shared_drive">>,
      <<"drive", "get", "folder">>, <<"drive", "get", "document">>, <<"drive", "get", "other">>,
      <<"drive", "fetch", "document">>, <<"drive", "fetch", "other">> }

CallOf(asked, credential, wellformed, answers) ==
    [ provider |-> asked[1], operation |-> asked[2], kind |-> asked[3],
      credential |-> credential, id |-> <<"word">>, resource |-> <<"word">>,
      wellformed |-> wellformed, answers |-> answers ]

\* Calls that are answered, calls that fail, calls that should not be made, and the
\* two requests for the folders of a drive.
Replied(a, o, l) == CallOf(a, "clean", TRUE, <<Ok(o, l), Ok(o, l)>>)

Refused(a, status, signals, o) ==
    CallOf(a, "clean", TRUE, <<Answer(status, signals, o, <<GoodObject>>), Ok(o, <<>>)>>)

Unfit(a, credential, wellformed, status) ==
    CallOf(a, credential, wellformed, <<Answer(status, {}, GoodObject, <<GoodObject>>), Ok(GoodObject, <<>>)>>)

Folders(status, signals, l) ==
    CallOf(<<"drive", "list", "shared_drive">>, "clean", TRUE,
           <<Ok(GoodObject, <<GoodObject>>), Answer(status, signals, GoodObject, l)>>)

Calls ==
    {Replied(a, o, l) : a \in Asked, o \in Objects, l \in Lists}
        \cup {Refused(a, status, signals, o) : a \in Asked, status \in {200, 400, 401, 403, 404, 500},
                signals \in SignalSets, o \in {GoodObject, NoObject}}
        \cup {Unfit(a, credential, wellformed, status) : a \in Asked,
                credential \in {"clean", "missing", "control"}, wellformed \in BOOLEAN, status \in {200, 401}}
        \cup {Folders(status, signals, l) :
                status \in {200, 401, 403, 404, 500}, signals \in SignalSets, l \in Lists}

\* The answer a result is made of: the folders of a drive are in the second.
Deciding(call) ==
    IF /\ call.provider = "drive" /\ call.operation = "list" /\ call.kind = "shared_drive"
       /\ call.answers[1].status = 200
    THEN call.answers[2] ELSE call.answers[1]

\* The provider has answered the call with what was asked.
Answered(call) ==
    /\ call.credential = "clean" /\ Deciding(call).status = 200
    /\ call.provider = "linear" => Deciding(call).signals = {}

\* Nothing is returned of a call that was not answered, and nothing sensitive of one
\* that was; a list has all the provider's objects in their order, or it is an error.
\* Access is denied only by a provider that says so and does not ask to slow down,
\* and nothing is missing that the provider did not say is.
Classified(call, result) ==
    LET a == Deciding(call)
        objects == Dicts(a.nodes)
        values == IF call.operation = "list" THEN Range(result.value) ELSE {result.value}
        empty == call.provider = "drive" /\ Dicts(call.answers[1].nodes) = <<>>
    IN /\ result.ok => /\ Answered(call) \/ (result.value = <<>> /\ empty)
                       /\ \A v \in values : \A t \in v.texts : DetectSensitive(t) = {}
       /\ result.ok /\ call.operation = "list" /\ ~empty =>
            /\ Len(result.value) = Len(objects)
            /\ \A i \in DOMAIN objects : result.value[i].resource_id =
                    Prefix[result.value[i].type] \o objects[i].id
       /\ result.error = "permission_denied" =>
            /\ "rate" \notin a.signals
            /\ IF call.provider = "linear" THEN "forbidden" \in a.signals ELSE a.status = 403
       /\ result.error = "not_found" =>
            \/ a.status = 404 \/ "not found" \in a.signals
            \/ call.provider = "linear" /\ ~a.node.object
       /\ result.error = "action_needed" =>
            \/ call.credential # "clean" \/ a.status = 401
            \/ a.signals \cap {"auth", "scope"} # {}

\* Fixtures of the stub, one or two of the same id.
Fixture == [provider : {"github", "linear"}, id : {"a", "b"}, resource : {"r"},
            permission : {"granted", "denied", "action_needed"}]
FixtureLists == {<<>>} \cup {<<f>> : f \in Fixture} \cup {<<f[1], f[2]>> : f \in Fixture \X Fixture}

\* The stub gets nothing that it does not list, and nothing whose first fixture is
\* not granted.
Stubbed(fixtures, got, fetched) ==
    LET listed == StubList(fixtures, "").value
        ofA(f) == f.id = "a" IN
    /\ got.ok => got.value \in Range(listed) /\ got.value.permission = "granted"
    /\ got.ok => got.value = Filtered(listed, ofA)[1] /\ fetched.ok
    /\ got.error = "not_found" <=> Filtered(listed, ofA) = <<>>
==============================================================================
