---------------------------- MODULE ConnectorParse ----------------------------
(***************************************************************************)
(* What the connectors' parsers (connectors/*/connector.py) make of one row *)
(* of a provider, and what deliver_poll (runtime/delivery.py) makes of a   *)
(* batch of rows when one of them is not what the connector expects.       *)
(*                                                                         *)
(* A row gives each of its fields a value: "text", "hit" (a token of       *)
(* letters and digits the sensitive catalog knows), "spaces" (white space  *)
(* only), "missing" (absent or empty), "null", or "other" (anything that   *)
(* is not a string, and not false).  Fields that only reach the metadata,  *)
(* which takes any value, are left out.                                    *)
(***************************************************************************)
EXTENDS Selection

Values == {"text", "hit", "spaces", "missing", "null", "other"}

------------------------------------------------------------------------------
(* How a field is read.  "raises" stands for the exception of a reading that   *)
(* fails.                                                                      *)

\* Python's "or"
Or(v, other) == IF v \in {"missing", "null"} THEN other ELSE v

Given(v) == Or(v, "missing")

\* (Mutant) The type is not asked for.
TextUnguarded(v) == Given(v)

\* value if isinstance(value, str) else ""
Text(v) == IF v = "other" THEN "missing" ELSE Given(v)

Strip(v) == IF v = "spaces" THEN "missing" ELSE IF v = "other" THEN "raises" ELSE v

Stripped(v) == Strip(Text(v))

\* str(value or "")
Str(v) == IF v = "other" THEN "text" ELSE Given(v)

\* redact, and the patterns before it, take strings only.
Redacted(v) ==
    IF v = "hit" THEN "text" ELSE IF v \in {"other", "null"} THEN "raises" ELSE v

\* A literal with the value in it; a separator between two values that may be empty.
Within(v) == IF v \in {"hit", "raises"} THEN v ELSE "text"
Joined(v, w) ==
    IF "raises" \in {v, w} THEN "raises"
    ELSE IF v = "missing" THEN w
    ELSE IF w = "missing" THEN v
    ELSE IF "hit" \in {v, w} THEN "hit"
    ELSE IF v = "spaces" /\ w = "spaces" THEN "spaces"
    ELSE "text"

\* An observation: its excerpt, the fields that identify it (reference, address, kind,
\* time) and its other texts (title, author).
Observed(excerpt, identity, texts) ==
    [excerpt |-> excerpt, identity |-> identity, texts |-> texts]

NoEvidence == Observed("none", {}, {})

Raises(obs) == "raises" \in {obs.excerpt} \cup obs.identity \cup obs.texts

------------------------------------------------------------------------------
(* The parsers *)

\* "text" is one of the kinds of line that are evidence; _safe_ref lets tokens pass.
claude_code(r) ==
    IF r.kind # "text" THEN NoEvidence
    ELSE Observed(Or(Redacted(Stripped(r.content)), "text"),
                  {Within(Str(r.uuid)), Text(r.timestamp)}, {"text"})

cursor(r) ==
    Observed("text", {Within(Redacted(Stripped(r.day)))}, {Within(Redacted(Stripped(r.day)))})

confluence(r) ==
    LET title == Or(Redacted(Strip(Given(r.title))), "text") IN
    Observed(Or(Redacted(Strip(Given(r.body))), title),
             {Or(Str(r.id), "text"), Redacted(Given(r.url))}, {title})

copilot(r) == LET day == Within(Stripped(r.date)) IN Observed(day, {day}, {day})

osv(r) ==
    LET id == Or(Str(r.id), "text")
        summary == Redacted(Stripped(r.summary))
    IN Observed(Or(Or(summary, Redacted(Stripped(r.details))), id),
                {id, Given(r.url), Str(r.modified)}, {Or(summary, id)})

anthropic_admin(r) ==
    LET start == Within(Stripped(r.starting_at)) IN Observed(start, {start}, {start})

\* One result.
sarif(r) ==
    LET rule == Given(r.rule)
        ref == IF Given(r.uri) # "missing" THEN Within(Joined(Str(r.rule), Str(r.uri)))
               ELSE Or(rule, "text")
    IN Observed(Or(Or(Redacted(Given(r.message)), rule), ref), {ref}, {Or(rule, "text")})

aider(r) ==
    LET subject == Redacted(Stripped(r.message))
        hash == Or(Strip(Str(r.hash)), "text")
    IN Observed(Or(subject, hash), {hash, Str(r.authored_at)},
                {Or(subject, hash), Redacted(Str(r.author))})

openai_admin(r) ==
    Observed(Redacted(Within(Joined(Stripped(r.type), Str(r.project)))),
             {Or(Str(r.id), "text")}, {Redacted(Within(Stripped(r.type)))})

\* The structured output is taken as it prints.
devin(r) ==
    LET title == Stripped(r.title) IN
    Observed(Or(Redacted(Joined(Joined(Stripped(r.status), title), Str(r.output))), "text"),
             {Or(Stripped(r.id), "text"), Text(r.url)}, {Redacted(title)})

continue_dev(r) ==
    LET name == Or(Str(r.name), "text") IN
    Observed(Or(Redacted(Stripped(r.prompt)), Within(name)),
             {name, Or(Str(r.id), Within(Joined(name, Str(r.timestamp)))), Str(r.timestamp)},
             {name, Redacted(Str(r.user))})

mcp_registry(r) ==
    LET title == Or(Redacted(Or(Text(r.title), Text(r.name))), "text") IN
    Observed(Or(Redacted(Text(r.description)), title),
             {Or(Or(Text(r.name), Text(r.title)), "text"), Redacted(Text(r.url))}, {title})

granola(r) ==
    LET title == Redacted(Str(r.title))
        id == Or(Str(r.id), "text")
    IN Observed(Or(Or(Redacted(Stripped(r.transcript)), title), "text"),
                {id, Str(r.created)}, {Or(title, id)})

\* The reference is a digest of the path.
local_directory(r) ==
    LET stem == Or(Redacted(Str(r.path)), "text") IN
    Observed(Or(Redacted(Str(r.content)), stem),
             {"text", Or(Redacted(Str(r.label)), "text"), Str(r.modified)}, {stem})

\* State and priority stand behind what is redacted.
servicenow(r) ==
    LET short == Stripped(r.short)
        body == Redacted(Joined(short, Stripped(r.description)))
    IN Observed(Or(Joined(body, Stripped(r.state)), "text"),
                {Or(Stripped(r.number), "text")}, {Or(Redacted(short), Stripped(r.number))})

\* A token may have the shape of a document's id; white space has not.
google_drive(r) ==
    LET id == Stripped(r.id)
        title == Or(Text(r.title), Or(id, "text"))
    IN Observed(Or(Stripped(r.body), title), {Or(id, title)}, {title})

\* The fields "get" gives a default for keep a null.
github(r) ==
    LET title == Redacted(Text(r.title))
        floor == Within(Str(r.repo))
    IN Observed(Or(Or(Redacted(Text(r.body)), title), floor),
                {floor, r.html_url, r.merged_at}, {Or(title, floor), r.login})

\* parse_issue_node; there is no floor.
linear_node(r) ==
    LET id == Or(Str(r.identifier), Str(r.id))
        name == Str(r.title)
    IN Observed(Or(Or(Str(r.description), name), id),
                {id, Within(Or(Str(r.id), id)), Str(r.url), Str(r.updated)},
                {Joined(Strip(id), Strip(name))})

\* parse_event, behind _is_issue_event.
linear(r) ==
    IF Given(r.identifier) = "missing" THEN NoEvidence ELSE linear_node(r)

jira(r) ==
    LET key == Or(Stripped(r.key), "text")
        summary == Redacted(Stripped(r.summary))
    IN Observed(Or(summary, key),
                { key, Stripped(r.url), Or(Stripped(r.type), "text"),
                  Or(Stripped(r.updated), Str(r.timestamp)) }, {Or(summary, key)})

gitlab(r) ==
    LET title == Or(Redacted(Strip(Given(r.title))), "text") IN
    Observed(Or(Redacted(Strip(Given(r.description))), title),
             {Within(Str(r.project)), Given(r.url)}, {title, Given(r.username)})

slack(r) ==
    Observed(Or(Redacted(Stripped(r.text)), Within(Text(r.channel))),
             {Within(Text(r.channel)), Text(r.ts)}, {Text(r.user)})

sentry(r) ==
    LET id == Or(Str(r.id), "text")
        title == Redacted(Stripped(r.title))
        short == Str(r.short)
    IN Observed(Or(Or(Or(title, Redacted(Stripped(r.culprit))), short), id),
                {id, Given(r.permalink), Str(r.first)}, {Or(Or(title, short), id)})

\* The recording's id is printed whatever it is, a null too.
fathom(r) ==
    LET id == IF r.recording \in {"null", "other"} THEN "text" ELSE r.recording
        title == Redacted(Or(Text(r.title), id))
    IN Observed(Or(Redacted(Or(Text(r.transcript), Text(r.summary))), title),
                {id, Text(r.url), Text(r.ended)}, {title})

\* parse_event: a pointer, without the page's content.
notion_event(r) ==
    Observed(Within(Joined(Str(r.type), Str(r.id))), {Or(Str(r.id), "text"), Str(r.timestamp)},
             {Within(Str(r.type))})

\* parse_page
notion(r) ==
    LET title == Or(Or(Redacted(Strip(Given(r.title))), Str(r.id)), "text") IN
    Observed(title, {Str(r.id), Given(r.url), Given(r.edited)}, {title, Given(r.author)})

pagerduty(r) ==
    LET id == Or(Str(r.id), "text")
        title == Or(Redacted(Stripped(r.title)), id)
    IN Observed(title, {id, Given(r.html_url), Str(r.created)}, {title})

zendesk(r) ==
    LET id == Or(Stripped(r.id), "text")
        subject == Redacted(Stripped(r.subject))
    IN Observed(Or(Joined(subject, Redacted(Stripped(r.body))), id),
                {id, Stripped(r.url), Stripped(r.updated)},
                {Or(subject, id), Redacted(Stripped(r.requester))})

Fields ==
    [ claude_code |-> {"kind", "uuid", "content", "timestamp"}, cursor |-> {"day"},
      confluence |-> {"title", "body", "id", "url"}, copilot |-> {"date"},
      osv |-> {"id", "summary", "details", "url", "modified"},
      anthropic_admin |-> {"starting_at"}, sarif |-> {"rule", "message", "uri"},
      aider |-> {"message", "hash", "author", "authored_at"},
      openai_admin |-> {"id", "type", "project"}, devin |-> {"id", "status", "title", "output", "url"},
      continue_dev |-> {"name", "id", "prompt", "timestamp", "user"},
      mcp_registry |-> {"name", "title", "description", "url"},
      granola |-> {"id", "title", "transcript", "created"},
      local_directory |-> {"path", "content", "label", "modified"},
      servicenow |-> {"number", "short", "description", "state"},
      google_drive |-> {"id", "title", "body"},
      github |-> {"title", "body", "html_url", "login", "merged_at", "repo"},
      linear_node |-> {"identifier", "id", "title", "description", "url", "updated"},
      linear |-> {"identifier", "id", "title", "description", "url", "updated"},
      jira |-> {"key", "summary", "url", "type", "updated", "timestamp"},
      gitlab |-> {"title", "description", "url", "username", "project"},
      slack |-> {"text", "channel", "ts", "user"},
      sentry |-> {"id", "title", "culprit", "short", "permalink", "first"},
      fathom |-> {"recording", "title", "transcript", "summary", "url", "ended"},
      notion_event |-> {"id", "type", "timestamp"},
      notion |-> {"title", "id", "url", "author", "edited"},
      pagerduty |-> {"id", "title", "html_url", "created"},
      zendesk |-> {"id", "subject", "body", "url", "updated", "requester"} ]

Parse(c, r) ==
    CASE c = "claude_code" -> claude_code(r) [] c = "cursor" -> cursor(r)
      [] c = "confluence" -> confluence(r) [] c = "copilot" -> copilot(r)
      [] c = "osv" -> osv(r) [] c = "anthropic_admin" -> anthropic_admin(r)
      [] c = "sarif" -> sarif(r) [] c = "aider" -> aider(r)
      [] c = "openai_admin" -> openai_admin(r) [] c = "devin" -> devin(r)
      [] c = "continue_dev" -> continue_dev(r) [] c = "mcp_registry" -> mcp_registry(r)
      [] c = "granola" -> granola(r) [] c = "local_directory" -> local_directory(r)
      [] c = "servicenow" -> servicenow(r) [] c = "google_drive" -> google_drive(r)
      [] c = "github" -> github(r) [] c = "linear_node" -> linear_node(r)
      [] c = "linear" -> linear(r) [] c = "jira" -> jira(r) [] c = "gitlab" -> gitlab(r)
      [] c = "slack" -> slack(r) [] c = "sentry" -> sentry(r) [] c = "fathom" -> fathom(r)
      [] c = "notion_event" -> notion_event(r) [] c = "notion" -> notion(r)
      [] c = "pagerduty" -> pagerduty(r) [] c = "zendesk" -> zendesk(r)

------------------------------------------------------------------------------
(* deliver_poll *)

\* normalize refuses what is not a string, an identity the catalog knows, and an
\* excerpt nobody can see.
Refused(obs) ==
    \/ ({obs.excerpt} \cup obs.identity \cup obs.texts) \cap {"other", "null"} # {}
    \/ "hit" \in obs.identity
    \/ obs.excerpt \in {"missing", "spaces"}

\* The observations that a batch yields, in the order of its rows.  A row tells the payload
\* that it came in: the lines of a transcript and the results of a report share one.  A
\* payload with a row that raises is left out, whole.
Observations(c, batch) ==
    LET parsed == [i \in DOMAIN batch |-> Parse(c, batch[i].row)]
        skipped == {batch[i].payload : i \in {j \in DOMAIN batch : Raises(parsed[j])}}
    IN Part(parsed, {i \in DOMAIN batch : batch[i].payload \notin skipped /\ parsed[i] # NoEvidence})

\* The batch is normalized, and refused, as a whole.
DeliverPoll(c, batch) ==
    LET observations == Observations(c, batch) IN
    IF \E i \in DOMAIN observations : Refused(observations[i])
    THEN [refused |-> TRUE, emitted |-> <<>>]
    ELSE [refused |-> FALSE, emitted |-> observations]
==============================================================================
