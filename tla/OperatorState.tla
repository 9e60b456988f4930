---------------------------- MODULE OperatorState ----------------------------
(***************************************************************************)
(* The two files the operator's processes share: the local configuration,  *)
(* which "configure" walks (runtime/configure.py over config_write.py)     *)
(* rewrite, and the cursor store of the GitHub ingest (JsonCursorStore).   *)
(* Each is read whole, changed in memory, written to a temporary file and  *)
(* put in place by a rename; nothing locks them.  Nobody reads a temporary *)
(* file, so there are none here.                                           *)
(***************************************************************************)
EXTENDS ConnectorRun

CONSTANTS
    Process,
    Connector,      \* the connectors that are configured, of DOMAIN Descriptors
    Repository,     \* the keys of the cursor store
    Secret,         \* the values each process may paste
    Environment,    \* what each process finds set, of the keys of credentials
    Good,           \* the values the provider accepts
    MaxJobs,        \* bound: walks and saves
    MaxKills        \* bound: processes killed, and losses of power

ASSUME OperatorAssumption ==
    /\ Connector \subseteq DOMAIN Descriptors
    /\ Repository \cap DOMAIN Descriptors = {}     \* latest tells them apart by name
    /\ \A p \in Process :
            DOMAIN Environment[p] \subseteq UNION {KeysOf(c) : c \in DOMAIN Descriptors}
    /\ MaxJobs \in Nat /\ MaxKills \in Nat

VARIABLES
    files,      \* what is in place under each name
    unsynced,   \* is the configuration in place still in the caches of the system?
    job,        \* what each process is doing
    jobs, kills,
    latest,     \* (history) what was last saved under each key
    overlapped, \* (history) was a file replaced while another process had it loaded?
    enabler,    \* (history) the process whose walk enabled each connector's active mode
    crowded     \* (history) connectors that two walks were configuring at once

vars == <<files, unsynced, job, jobs, kills, latest, overlapped, enabler, crowded>>

Names == {"config", "cursors"}

\* config/bicameral.example.json: placeholders where the secrets go.
Example ==
    [c \in {"linear", "google_drive", "anthropic_admin"} |->
        [ secrets |-> [key \in {cred.key : cred \in CredentialsOf(c)} |-> "<placeholder>"],
          runtime |-> <<>>, enabled |-> FALSE ]]

Idle == [pc |-> "idle"]

Walking(p, c) == job[p].pc # "idle" /\ job[p].file = "config" /\ job[p].connector = c

\* Between its load and its replacement a process holds the file as it was.
Holding(p, name) == job[p].pc = "replace" /\ job[p].file = name

Init ==
    /\ files = [name \in Names |-> [state |-> "absent", content |-> <<>>]]
    /\ unsynced = FALSE
    /\ job = [p \in Process |-> Idle]
    /\ jobs = 0 /\ kills = 0
    /\ latest = <<>>
    /\ overlapped = [name \in Names |-> FALSE]
    /\ enabler = [c \in Connector |-> {}]
    /\ crowded = {}

historyVars == <<latest, overlapped, enabler>>
fileVars == <<files, unsynced>>

Become(p, j) == job' = [job EXCEPT ![p] = j]

------------------------------------------------------------------------------
(* A walk *)

\* run_configure, with --modes or without, and with --paste-token or without.
StartWalk(p, c, asked, pasted) ==
    /\ job[p].pc = "idle" /\ jobs < MaxJobs
    /\ asked \subseteq DeclaredModes(c)
    /\ jobs' = jobs + 1
    /\ crowded' = crowded \cup {d \in {c} : \E q \in Process : Walking(q, d)}
    /\ LET modes == SelectedModes(c, asked) IN
       Become(p, [ pc |-> "walk", file |-> "config", connector |-> c, modes |-> modes,
                   pasted |-> pasted, at |-> 1, queue |-> Queue(c, modes),
                   secrets |-> <<>>, runtime |-> <<>>, enabled |-> FALSE, loaded |-> <<>> ])
    /\ UNCHANGED <<fileVars, kills, historyVars>>

Instructions(p) == Descriptors[job[p].connector].instructions

AtInstruction(p, action) ==
    /\ job[p].pc = "walk" /\ job[p].at <= Len(Instructions(p))
    /\ Instructions(p)[job[p].at] = action

walkUnchanged == <<fileVars, jobs, kills, historyVars, crowded>>

\* open_url, and register_webhook, which asks for a URL no descriptor has a key for.
Inform(p) ==
    /\ AtInstruction(p, "open_url") \/ AtInstruction(p, "register_webhook")
    /\ Become(p, [job[p] EXCEPT !.at = @ + 1])
    /\ UNCHANGED walkUnchanged

\* What is kept of a credential: its value, or the triple that renews it.
Kept(cred, v, renewed) ==
    IF ~renewed THEN Only(cred.key, v)
    ELSE [key \in AuxKeys(cred) |-> IF key[2] = "refresh_token" THEN v ELSE "client"]

\* A step collects the first credential of a type that is in the queue; there may be
\* none left.
Take(p, type, renewed) ==
    IF Candidates(job[p].connector, job[p].queue, type) = {}
    THEN Become(p, [job[p] EXCEPT !.at = @ + 1])
    ELSE LET i == FirstCandidate(job[p].connector, job[p].queue, type)
             cred == Descriptors[job[p].connector].credentials[i]
         IN \E v \in Secret[p] :
                Become(p, [job[p] EXCEPT !.at = @ + 1, !.queue = @ \ {i},
                                         !.secrets = Over(Kept(cred, v, renewed), @)])

\* After register_webhook it is the webhook's secret that is pasted, or none.
PasteSecret(p) ==
    /\ AtInstruction(p, "paste_secret")
    /\ LET afterWebhook == job[p].at > 1 /\ Instructions(p)[job[p].at - 1] = "register_webhook"
       IN Take(p, IF afterWebhook THEN "webhook_secret" ELSE "any", FALSE)
    /\ UNCHANGED walkUnchanged

\* A token is pasted, or consent ends in a refresh token, or it fails and the walk
\* with it, before anything was written.
OAuthConsent(p) ==
    /\ AtInstruction(p, "oauth_consent")
    /\ \/ Take(p, "oauth2", ~job[p].pasted)
       \/ /\ ~job[p].pasted /\ Candidates(job[p].connector, job[p].queue, "oauth2") # {}
          /\ Become(p, Idle)
    /\ UNCHANGED walkUnchanged

Configure(p) ==
    /\ AtInstruction(p, "configure")
    /\ Become(p, [job[p] EXCEPT !.at = @ + 1,
                    !.runtime = [key \in Descriptors[job[p].connector].runtime |-> "pinned"]])
    /\ UNCHANGED walkUnchanged

\* What "verify" would run is run only with an active mode and a runner.
Verifiable(p) == "active" \in job[p].modes /\ job[p].connector \in Runners

\* _do_verify saves first, disabled, and then reads the file like any other run.
Verify(p) ==
    /\ AtInstruction(p, "verify")
    /\ Become(p, IF Verifiable(p) THEN [job[p] EXCEPT !.pc = "load", !.enabled = FALSE]
                 ELSE [job[p] EXCEPT !.at = @ + 1])
    /\ UNCHANGED walkUnchanged

\* A run in an environment gets the provider to accept what a key resolves to, directly
\* or by a refresh.
Accepts(blocks, env, c) ==
    LET key == IF c = "google_drive" THEN <<c>> ELSE Builders[c].key
        refresh == Resolve(blocks, env, Append(key, "refresh_token"))
        answer == [ raises |-> FALSE, status |-> IF refresh \in Good THEN 200 ELSE 400,
                    oversized |-> FALSE, json |-> TRUE, token |-> "access", ttl |-> 0 ]
    IN /\ RunFailure(c, blocks, env, "", answer) = ""
       /\ ResolvedSecret(blocks, env, key, answer).secret \in Good \cup {"access", "public"}

\* (Mutant) A failure is told, and the walk goes on.
RunVerifyTold(p) ==
    /\ job[p].pc = "verify"
    /\ Become(p, [job[p] EXCEPT !.pc = "walk", !.at = @ + 1])
    /\ UNCHANGED walkUnchanged

\* The run reads the file, and before it the environment of this process.  A failure
\* ends the walk and leaves the connector disabled, with the new secrets.
RunVerify(p) ==
    /\ job[p].pc = "verify"
    /\ IF /\ files["config"].state = "whole"
          /\ Accepts(files["config"].content, Environment[p], job[p].connector)
       THEN Become(p, [job[p] EXCEPT !.pc = "walk", !.at = @ + 1])
       ELSE Become(p, Idle)
    /\ UNCHANGED walkUnchanged

Finish(p) ==
    /\ job[p].pc = "walk" /\ job[p].at > Len(Instructions(p))
    /\ Become(p, [job[p] EXCEPT !.pc = "load", !.enabled = TRUE])
    /\ UNCHANGED walkUnchanged

------------------------------------------------------------------------------
(* Saving *)

\* JsonCursorStore.save; the job's number stands for the cursor.
StartSave(p, r) ==
    /\ job[p].pc = "idle" /\ jobs < MaxJobs
    /\ jobs' = jobs + 1
    /\ Become(p, [ pc |-> "load", file |-> "cursors", connector |-> r, modes |-> {},
                   pasted |-> FALSE, at |-> jobs + 1, queue |-> {},
                   secrets |-> <<>>, runtime |-> <<>>, enabled |-> FALSE, loaded |-> <<>> ])
    /\ UNCHANGED <<fileVars, kills, historyVars, crowded>>

\* load_or_seed or _read, and what the job makes of it.
Loaded(p) ==
    LET file == files[job[p].file] IN
    IF job[p].file = "cursors" THEN Over(Only(job[p].connector, job[p].at), file.content)
    ELSE Persisted(IF file.state = "absent" THEN Seeded(Example) ELSE file.content,
                   job[p].connector, job[p].secrets, job[p].runtime, job[p].enabled)

\* A file that is not JSON ends the process, and so does a block with a runtime key
\* nobody declared.
Load(p) ==
    /\ job[p].pc = "load"
    /\ IF \/ files[job[p].file].state = "torn"
          \/ job[p].file = "config" /\ WriteRefused(Loaded(p))
       THEN Become(p, Idle)
       ELSE Become(p, [job[p] EXCEPT !.pc = "replace", !.loaded = Loaded(p)])
    /\ UNCHANGED <<fileVars, jobs, kills, historyVars, crowded>>

\* The temporary file cannot be made, written or renamed: the error ends the process,
\* and the file in place is as it was.
SaveFails(p) ==
    /\ job[p].pc = "replace"
    /\ Become(p, Idle)
    /\ UNCHANGED <<fileVars, jobs, kills, historyVars, crowded>>

\* What a job saves under which keys.
Saves(p) ==
    IF job[p].file = "config" THEN job[p].secrets ELSE Only(<<job[p].connector>>, job[p].at)

AfterReplace(p) ==
    IF job[p].file = "config" /\ ~job[p].enabled
    THEN [job[p] EXCEPT !.pc = "verify", !.loaded = <<>>] ELSE Idle

\* os.replace.  The cursor store's file was synced before, the configuration's not.
Replace(p) ==
    LET name == job[p].file IN
    /\ job[p].pc = "replace"
    /\ files' = [files EXCEPT ![name] = [state |-> "whole", content |-> job[p].loaded]]
    /\ unsynced' = (unsynced \/ name = "config")
    /\ Become(p, AfterReplace(p))
    /\ latest' = Over(Saves(p), latest)
    /\ overlapped' = [overlapped EXCEPT ![name] =
                        @ \/ \E q \in Process \ {p} : Holding(q, name)]
    /\ enabler' = IF name # "config" THEN enabler
                  ELSE [enabler EXCEPT ![job[p].connector] =
                            IF job[p].enabled /\ "active" \in job[p].modes THEN {p} ELSE {}]
    /\ UNCHANGED <<jobs, kills, crowded>>

------------------------------------------------------------------------------
(* Faults *)

\* A process is killed, and no handler of it runs.
Kill(p) ==
    /\ job[p].pc # "idle" /\ kills < MaxKills
    /\ kills' = kills + 1
    /\ Become(p, Idle)
    /\ UNCHANGED <<fileVars, jobs, historyVars, crowded>>

\* The system writes its caches out.
Flush == unsynced /\ unsynced' = FALSE
         /\ UNCHANGED <<files, job, jobs, kills, historyVars, crowded>>

\* Power is lost: every process is gone, and a configuration that was renamed into
\* place before it was written out may have nothing in it.
PowerLoss ==
    /\ kills < MaxKills
    /\ kills' = kills + 1
    /\ job' = [p \in Process |-> Idle]
    /\ \/ files' = files
       \/ unsynced /\ files' = [files EXCEPT !["config"] = [state |-> "torn", content |-> <<>>]]
    /\ unsynced' = FALSE
    /\ UNCHANGED <<jobs, historyVars, crowded>>

------------------------------------------------------------------------------

WalkStep(p) ==
    \/ Inform(p) \/ PasteSecret(p) \/ OAuthConsent(p) \/ Configure(p)
    \/ Verify(p) \/ RunVerify(p) \/ Finish(p)

SaveStep(p) == Load(p) \/ SaveFails(p) \/ Replace(p)

Next ==
    \/ \E p \in Process :
        \/ \E c \in Connector, asked \in SUBSET {"active", "webhook"}, pasted \in BOOLEAN :
                StartWalk(p, c, asked, pasted)
        \/ \E r \in Repository : StartSave(p, r)
        \/ WalkStep(p) \/ SaveStep(p) \/ Kill(p)
    \/ Flush \/ PowerLoss

Spec == Init /\ [][Next]_vars

------------------------------------------------------------------------------
(* Properties *)

\* A save is lost only to a process that had loaded the file before it: unless two
\* of them overlapped, the file has for every key what was last saved under it,
\* whichever process saved it and whatever else was saved since (write_local_config,
\* JsonCursorStore.save).
SavedUnlessOverlapped ==
    \A name \in Names : files[name].state = "whole" /\ ~overlapped[name] =>
        \A key \in DOMAIN latest :
            IF key[1] \in Repository
            THEN name = "cursors" => files[name].content[key[1]] = latest[key]
            ELSE name = "config" => FileSecret(files[name].content, key) = latest[key]

\* A connector that may run has every credential it needs from somebody who entered
\* it: the placeholders of the example never pass for one (seeded_document).
RunnableWasEntered ==
    files["config"].state = "whole" => \A c \in DOMAIN files["config"].content :
        Gate(files["config"].content, <<>>, c, "active") = "" =>
            \A cred \in CredentialsOf(c) : Serves(cred, "active") =>
                \E key \in {cred.key} \cup AuxKeys(cred) : key \in DOMAIN latest

\* A connector's block by itself.
Own(blocks, c) == Only(c, blocks[c])

\* A connector that a walk enabled for its active mode still has what the provider
\* accepted of that walk, unless other walks were at the same connector or had the file
\* loaded meanwhile: its block runs in the environment of the process that verified it,
\* and without any environment if that one set none of the connector's keys.  A key that
\* was set hides the pasted one, which nobody has verified then (_do_verify,
\* FileSecretResolver.resolve).
EnabledIsVerified ==
    \A c \in (Connector \cap Runners) \ crowded :
        files["config"].state = "whole" /\ ~overlapped["config"] =>
            \A p \in enabler[c] :
                LET own == Own(files["config"].content, c) IN
                /\ Accepts(own, Environment[p], c)
                /\ KeysOf(c) \cap DOMAIN Environment[p] = {} => Accepts(own, <<>>, c)
==============================================================================
