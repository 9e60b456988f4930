------------------------- MODULE ProviderDiscovery -------------------------
(***************************************************************************)
(* Discovery (protocol/provider_acquisition): the list, get and fetch of   *)
(* the GitHub, Linear and Google Drive connectors and of the fixture stub, *)
(* each a function of one call to the answers of the provider.             *)
(*                                                                         *)
(* A call has a provider, an operation, the state of its credential, what  *)
(* it asks for (a kind of id with a text, and whether the text is one the  *)
(* id patterns allow), and the answers the transport will give.  An answer *)
(* has a status, the signals its error carries, an object and a list of    *)
(* objects; an object has the texts of its fields.                         *)
(***************************************************************************)
EXTENDS Redaction, Selection

\* What the mappings make of JSON that is not an object.
NoObject == [object |-> FALSE, id |-> <<>>, name |-> <<>>, content |-> <<>>,
            extra |-> <<>>, parent |-> <<>>, pushes |-> FALSE]

Value(v) == [ok |-> TRUE, error |-> "", value |-> v]
Error(kind) == [ok |-> FALSE, error |-> kind, value |-> <<>>]

\* screen_descriptor and screen_item: a value with a sensitive text is an error.
ScreenedObject(v) ==
    IF \E t \in v.texts : DetectSensitive(t) # {} THEN Error("provider_error") ELSE Value(v)

\* One sensitive object fails the whole list.
Collect(vs) ==
    IF \E i \in DOMAIN vs : ~ScreenedObject(vs[i]).ok THEN Error("provider_error") ELSE Value(vs)

IsDict(o) == o.object

Dicts(objects) == Filtered(objects, IsDict)

------------------------------------------------------------------------------
(* Descriptors and items *)

LinearCapabilities ==
    [ workspace |-> {"list", "search"}, team |-> {"list", "read", "search"},
      project |-> {"list", "read"}, issue |-> {"read"} ]

DriveCapabilities ==
    [ shared_drive |-> {"list", "read", "search"}, folder |-> {"list", "read"},
      document |-> {"read"} ]

\* Who may push to a repository may watch it.
CapabilitiesOf(type, o) ==
    IF type = "repository"
    THEN {"list", "read", "search"} \cup (IF o.pushes THEN {"watch"} ELSE {})
    ELSE IF type \in DOMAIN DriveCapabilities THEN DriveCapabilities[type]
    ELSE LinearCapabilities[type]

\* The prefixes of the ids of each type.
Prefix == [ repository |-> <<>>, workspace |-> <<"ws_">>, team |-> <<"team_">>,
            project |-> <<"proj_">>, issue |-> <<"issue_">>, comment |-> <<"comment_">>,
            shared_drive |-> <<"drive_">>, folder |-> <<"folder_">>, document |-> <<"doc_">> ]

Named(o) == IF o.name = <<>> THEN o.id ELSE o.name

\* Every mapping says "granted": that there was an answer is the proof of access.
Descriptor(type, o, parent) ==
    [ type |-> type, resource_id |-> Prefix[type] \o o.id, parent |-> parent,
      capabilities |-> CapabilitiesOf(type, o),
      permission |-> "granted",
      texts |-> {Prefix[type] \o o.id, Named(o), o.extra, parent} ]

Listed(objects, type, parent) ==
    LET described(o) == Descriptor(type, o, parent) IN Collect(Map(Dicts(objects), described))

Item(type, id, resource, o, content) ==
    [ type |-> type, item_id |-> id, resource_id |-> resource, content |-> content,
      texts |-> {id, resource, o.name, content, o.extra} ]

------------------------------------------------------------------------------
(* GitHub *)

\* Before any request: a credential that is missing or has a control character.
NoCredential(call) == call.credential # "clean"

\* (Mutant) Every 403 is a lack of permission.
GitHubErrorPlain(a) ==
    IF a.status = 401 THEN "action_needed"
    ELSE IF a.status = 403 THEN "permission_denied"
    ELSE IF a.status = 404 THEN "not_found"
    ELSE "provider_error"

GitHubError(a) ==
    IF a.status = 401 THEN "action_needed"
    ELSE IF a.status = 403 /\ "rate" \in a.signals THEN "provider_error"
    ELSE IF a.status = 403 THEN "permission_denied"
    ELSE IF a.status = 404 THEN "not_found"
    ELSE "provider_error"

GitHubList(call) ==
    IF NoCredential(call) THEN Error("action_needed")
    ELSE IF call.answers[1].status # 200 THEN Error(GitHubError(call.answers[1]))
    ELSE Listed(call.answers[1].nodes, "repository", <<>>)

\* get_resource and validate_resource_access: the repository that answers is the
\* value, whatever the one that was asked for.
GitHubGet(call) ==
    IF NoCredential(call) THEN Error("action_needed")
    ELSE IF call.answers[1].status # 200 THEN Error(GitHubError(call.answers[1]))
    ELSE ScreenedObject(Descriptor("repository", call.answers[1].node, <<>>))

GitHubItems ==
    [kind \in {"issue-", "pr-", "file-"} |->
        IF kind = "issue-" THEN "issue" ELSE IF kind = "pr-" THEN "pull_request" ELSE "file"]

\* The id is made of what answered.
GitHubItem(call, o) ==
    Item(GitHubItems[call.kind], <<call.kind>> \o o.id, call.resource, o, o.content)

\* Issues, pull requests and files.
GitHubFetch(call) ==
    IF NoCredential(call) THEN Error("action_needed")
    ELSE IF call.kind \notin DOMAIN GitHubItems THEN Error("unsupported")
    ELSE IF call.answers[1].status # 200 THEN Error(GitHubError(call.answers[1]))
    ELSE ScreenedObject(GitHubItem(call, call.answers[1].node))

------------------------------------------------------------------------------
(* Linear *)

\* The signature of the errors is searched for each class in turn.  A failure that
\* carries no error is nobody's in particular, a 401 too.
LinearError(a) ==
    IF "rate" \in a.signals \/ a.status = 400 \/ a.signals = {} THEN "provider_error"
    ELSE IF "auth" \in a.signals THEN "action_needed"
    ELSE IF "forbidden" \in a.signals THEN "permission_denied"
    ELSE IF "not found" \in a.signals THEN "not_found"
    ELSE "provider_error"

\* _execute: a 200 with errors is a failure, with or without data.
LinearFailure(call) ==
    IF NoCredential(call) THEN "action_needed"
    ELSE IF call.answers[1].status # 200 \/ call.answers[1].signals # {}
    THEN LinearError(call.answers[1]) ELSE ""

\* What is inside a project or a team comes with it; a null node is not found.
LinearWithin(call, type) ==
    LET a == call.answers[1]
        parent == IF type = "issue" THEN a.node.parent ELSE a.node.id IN
    IF ~call.wellformed THEN Error("unsupported")
    ELSE IF LinearFailure(call) # "" THEN Error(LinearFailure(call))
    ELSE IF ~a.node.object THEN Error("not_found")
    ELSE Listed(a.nodes, type, Prefix["team"] \o parent)

\* list_resources: a project id lists issues, a team id projects, and none teams,
\* the first page of each.
LinearList(call) ==
    IF call.kind = "project" THEN LinearWithin(call, "issue")
    ELSE IF call.kind = "team" THEN LinearWithin(call, "project")
    ELSE IF LinearFailure(call) # "" THEN Error(LinearFailure(call))
    ELSE Listed(call.answers[1].nodes, "team", Prefix["workspace"] \o call.answers[1].node.id)

\* A workspace is the organization of the key: its id is not looked at.
LinearGet(call) ==
    LET o == call.answers[1].node IN
    IF \/ call.kind \notin {"workspace", "team", "project", "issue"}
       \/ call.kind # "workspace" /\ ~call.wellformed
    THEN Error("unsupported")
    ELSE IF LinearFailure(call) # "" THEN Error(LinearFailure(call))
    ELSE IF call.kind = "workspace" THEN ScreenedObject(Descriptor("workspace", o, <<>>))
    ELSE IF ~o.object THEN Error("not_found")
    ELSE ScreenedObject(Descriptor(call.kind, o, o.parent))

\* An issue's content is the excerpt the connector makes of it; a comment belongs to
\* the issue it names, whatever resource was asked for.
LinearItem(call, o) ==
    IF call.kind = "issue"
    THEN Item("issue", Prefix["issue"] \o o.id, call.resource, o,
              IF o.content = <<>> THEN Named(o) ELSE o.content)
    ELSE Item("comment", Prefix["comment"] \o o.id, o.parent, o, o.content)

LinearFetch(call) ==
    LET o == call.answers[1].node IN
    IF call.kind \notin {"issue", "comment"} \/ ~call.wellformed THEN Error("unsupported")
    ELSE IF LinearFailure(call) # "" THEN Error(LinearFailure(call))
    ELSE IF ~o.object THEN Error("not_found")
    ELSE ScreenedObject(LinearItem(call, o))

------------------------------------------------------------------------------
(* Google Drive *)

DriveError(a) ==
    IF a.status = 401 \/ (a.status = 403 /\ "scope" \in a.signals) THEN "action_needed"
    ELSE IF a.status = 403 /\ "rate" \in a.signals THEN "provider_error"
    ELSE IF a.status = 403 THEN "permission_denied"
    ELSE IF a.status = 404 THEN "not_found"
    ELSE "provider_error"

\* The folders of a drive are those inside its first ".bicameral" folder; that there
\* is none is an empty list.
DriveFolders(call) ==
    IF Dicts(call.answers[1].nodes) = <<>> THEN Value(<<>>)
    ELSE IF call.answers[2].status # 200 THEN Error(DriveError(call.answers[2]))
    ELSE Listed(call.answers[2].nodes, "folder", Prefix["shared_drive"] \o call.id)

DriveList(call) ==
    IF NoCredential(call) THEN Error("action_needed")
    ELSE IF call.answers[1].status # 200 THEN Error(DriveError(call.answers[1]))
    ELSE IF call.kind = "shared_drive" THEN DriveFolders(call)
    ELSE Listed(call.answers[1].nodes, "shared_drive", <<>>)

\* A file is a folder or a document as the id that asked for it says.
DriveGet(call) ==
    LET o == call.answers[1].node IN
    IF NoCredential(call) THEN Error("action_needed")
    ELSE IF call.kind \notin {"shared_drive", "folder", "document"} THEN Error("unsupported")
    ELSE IF call.answers[1].status # 200 THEN Error(DriveError(call.answers[1]))
    ELSE ScreenedObject(Descriptor(call.kind, o, o.parent))

DriveItem(call, o) == Item("document", Prefix["document"] \o call.id, call.resource, o, o.content)

DriveFetch(call) ==
    IF NoCredential(call) THEN Error("action_needed")
    ELSE IF call.kind # "document" \/ ~call.wellformed THEN Error("unsupported")
    ELSE IF call.answers[1].status # 200 THEN Error(DriveError(call.answers[1]))
    ELSE ScreenedObject(DriveItem(call, call.answers[1].node))

------------------------------------------------------------------------------
(* The stub answers from fixtures: a sequence of descriptors with permissions. *)

StubList(fixtures, provider) ==
    LET of(d) == provider = "" \/ d.provider = provider IN Value(Filtered(fixtures, of))

\* The first fixture of the id decides.
StubGet(fixtures, id) ==
    LET of(d) == d.id = id
        found == Filtered(fixtures, of)
    IN IF found = <<>> THEN Error("not_found")
       ELSE IF found[1].permission = "denied" THEN Error("permission_denied")
       ELSE IF found[1].permission = "action_needed" THEN Error("action_needed")
       ELSE Value(found[1])

StubFetch(items, resource, id) ==
    LET of(d) == d.resource = resource /\ d.id = id
        found == Filtered(items, of)
    IN IF found = <<>> THEN Error("not_found") ELSE Value(found[1])

------------------------------------------------------------------------------

Discover(call) ==
    CASE call.provider = "github" /\ call.operation = "list"  -> GitHubList(call)
      [] call.provider = "github" /\ call.operation = "get"   -> GitHubGet(call)
      [] call.provider = "github" /\ call.operation = "fetch" -> GitHubFetch(call)
      [] call.provider = "linear" /\ call.operation = "list"  -> LinearList(call)
      [] call.provider = "linear" /\ call.operation = "get"   -> LinearGet(call)
      [] call.provider = "linear" /\ call.operation = "fetch" -> LinearFetch(call)
      [] call.provider = "drive"  /\ call.operation = "list"  -> DriveList(call)
      [] call.provider = "drive"  /\ call.operation = "get"   -> DriveGet(call)
      [] call.provider = "drive"  /\ call.operation = "fetch" -> DriveFetch(call)
==============================================================================
