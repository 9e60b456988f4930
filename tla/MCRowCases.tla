----------------------------- MODULE MCRowCases -----------------------------
(***************************************************************************)
(* Rows to hand to the connectors' parsers behind a good row, and what may *)
(* then come of the two.                                                   *)
(***************************************************************************)
EXTENDS Sequences, FiniteSets

Row == INSTANCE ConnectorParse

Whole(c) == [f \in Row!Fields[c] |-> "text"]

\* Any of a row's fields may be missing, and one may be anything at all.
RowsOf(c) ==
    UNION {{[f \in Row!Fields[c] |-> IF f = odd THEN v ELSE IF f \in gone THEN "missing" ELSE "text"]
              : v \in Row!Values} : odd \in Row!Fields[c], gone \in SUBSET Row!Fields[c]}

Poll(c, row, piece) == [c |-> c, row |-> row, piece |-> piece]

\* The rows come one by one, or, from two of the connectors, in one piece.
Pieces(c) == IF c \in {"sarif", "claude_code"} THEN BOOLEAN ELSE {FALSE}

PollsOf(c) == {Poll(c, row, piece) : row \in RowsOf(c), piece \in Pieces(c)}

Polls == UNION {PollsOf(c) : c \in DOMAIN Row!Fields}

Batch(poll) ==
    << [payload |-> 1, row |-> Whole(poll.c)],
       [payload |-> IF poll.piece THEN 1 ELSE 2, row |-> poll.row] >>

------------------------------------------------------------------------------
(* What each connector must be given, for its row not to fail the batch *)

\* Fields handed on as they come: nothing but a string will do.
HandedOn ==
    [ osv |-> {"url"}, sarif |-> {"rule"}, github |-> {"html_url", "login", "merged_at"},
      gitlab |-> {"url", "username"}, sentry |-> {"permalink"},
      notion |-> {"url", "author", "edited"}, pagerduty |-> {"html_url"} ]

\* Fields that identify the evidence, which is never rewritten: no token will do.
Identifying ==
    [ claude_code |-> {"uuid", "timestamp"}, confluence |-> {"id"}, copilot |-> {"date"},
      osv |-> {"id", "url", "modified"}, anthropic_admin |-> {"starting_at"},
      sarif |-> {"rule", "uri"}, aider |-> {"hash", "authored_at"}, openai_admin |-> {"id"},
      devin |-> {"id", "url"}, continue_dev |-> {"name", "id", "timestamp"},
      mcp_registry |-> {"name", "title"}, granola |-> {"id", "created"},
      local_directory |-> {"modified"}, servicenow |-> {"number"},
      google_drive |-> {"id", "title"}, github |-> {"html_url", "merged_at", "repo"},
      linear_node |-> {"identifier", "id", "url", "updated"},
      linear |-> {"identifier", "id", "url", "updated"},
      jira |-> {"key", "url", "type", "updated", "timestamp"}, gitlab |-> {"project", "url"},
      slack |-> {"channel", "ts"}, sentry |-> {"id", "permalink", "first"},
      fathom |-> {"recording", "url", "ended"}, notion_event |-> {"id", "timestamp"},
      notion |-> {"id", "url", "edited"}, pagerduty |-> {"id", "html_url", "created"},
      zendesk |-> {"id", "url", "updated"} ]

\* Fields whose white space is taken for text.
Unstripped ==
    [ osv |-> {"id"}, sarif |-> {"message", "rule"}, devin |-> {"output"},
      mcp_registry |-> {"name", "title", "description"}, granola |-> {"title"},
      local_directory |-> {"path", "content"}, google_drive |-> {"title"},
      github |-> {"title", "body"}, sentry |-> {"short", "id"}, notion |-> {"id"},
      linear_node |-> {"identifier", "id", "title", "description"},
      linear |-> {"identifier", "id", "title", "description"}, pagerduty |-> {"id"},
      fathom |-> {"recording", "title", "transcript", "summary"} ]

\* The connectors without a last resort need one of these.
NeedsOneOf ==
    [ linear_node |-> {"identifier", "id", "title", "description"},
      fathom |-> {"recording", "title", "transcript", "summary"} ]

In(table, c, f) == c \in DOMAIN table /\ f \in table[c]

Bearable(c, row) ==
    /\ \A f \in DOMAIN row :
        /\ row[f] = "other" => ~In(HandedOn, c, f)
        /\ row[f] = "null" => ~(c = "github" /\ In(HandedOn, c, f))
        /\ row[f] = "hit" => ~In(Identifying, c, f)
        /\ row[f] = "spaces" => ~In(Unstripped, c, f)
    /\ c \in DOMAIN NeedsOneOf => \E f \in NeedsOneOf[c] : row[f] \in {"text", "hit"}

\* The good row is emitted whatever comes with it, but for what no row may bear; and in
\* a SARIF report a result that raises takes the good one with it.
FailsAlone(poll, outcome) ==
    LET raises == Row!Raises(Row!Parse(poll.c, poll.row)) IN
    /\ outcome.refused => ~Bearable(poll.c, poll.row)
    /\ ~outcome.refused /\ ~(poll.c = "sarif" /\ poll.piece /\ raises) =>
        /\ outcome.emitted # <<>>
        /\ Head(outcome.emitted) = Row!Parse(poll.c, Whole(poll.c))
        /\ raises => Len(outcome.emitted) = 1
=============================================================================
