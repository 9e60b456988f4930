------------------------- MODULE OperatorState_proofs -------------------------
(***************************************************************************)
(* What the operator's processes can rely on in the files they share, for  *)
(* any number of processes, connectors, repositories, secrets, walks and   *)
(* kills: nothing that was saved is lost but to a process that had the     *)
(* file loaded, no placeholder passes for a secret, and what is enabled    *)
(* was verified.                                                           *)
(***************************************************************************)
EXTENDS OperatorState, TLAPS

\* A job that is not idle has all the fields of one.
IsJob(j) ==
    j = [ pc |-> j.pc, file |-> j.file, connector |-> j.connector, modes |-> j.modes,
          pasted |-> j.pasted, at |-> j.at, queue |-> j.queue, secrets |-> j.secrets,
          runtime |-> j.runtime, enabled |-> j.enabled, loaded |-> j.loaded ]

\* A walk keeps to its connector: what it has collected and what is left to collect
\* are of that connector.
WalkOK(j) ==
    /\ j.file = "config" /\ j.connector \in Connector
    /\ j.pc \in {"walk", "load", "replace", "verify"}
    /\ j.queue \subseteq DOMAIN Descriptors[j.connector].credentials
    /\ DOMAIN j.secrets \subseteq KeysOf(j.connector)

SaveOK(j) ==
    /\ j.file = "cursors" /\ j.connector \in Repository
    /\ j.pc \in {"load", "replace"}

JobOK(p) ==
    \/ job[p] = Idle
    \/ IsJob(job[p]) /\ (WalkOK(job[p]) \/ SaveOK(job[p]))

JobsOK == DOMAIN job = Process /\ \A p \in Process : JobOK(p)

------------------------------------------------------------------------------
(* Jobs in order *)

\* One process goes on; the others stay as they are.
LEMMA OneMoves ==
  ASSUME JobsOK, NEW p \in Process, NEW j, Become(p, j)
  PROVE  /\ DOMAIN job' = Process /\ job'[p] = j
         /\ \A q \in Process \ {p} : job'[q] = job[q]
  BY DEF JobsOK, Become

\* When the one that goes on is in order, all are.
LEMMA OneJob ==
  ASSUME JobsOK, NEW p \in Process, NEW j, Become(p, j),
         j = Idle \/ (IsJob(j) /\ (WalkOK(j) \/ SaveOK(j)))
  PROVE  JobsOK'
  <1>1. /\ DOMAIN job' = Process /\ job'[p] = j
        /\ \A q \in Process \ {p} : job'[q] = job[q]
    BY OneMoves
  <1>2. ASSUME NEW q \in Process PROVE JobOK(q)'
    BY <1>1 DEF JobOK, JobsOK
  <1> QED
    BY <1>1, <1>2 DEF JobsOK

\* Or it ends.
LEMMA GivesUp ==
  ASSUME JobsOK, NEW p \in Process, Become(p, Idle)
  PROVE  JobsOK'
  <1>1. /\ DOMAIN job' = Process /\ job'[p] = Idle
        /\ \A q \in Process \ {p} : job'[q] = job[q]
    BY OneMoves
  <1>2. ASSUME NEW q \in Process PROVE JobOK(q)'
    <2>1. CASE q = p
      BY <1>1, <2>1 DEF JobOK
    <2>2. CASE q # p
      BY <1>1, <2>2 DEF JobOK, JobsOK
    <2> QED
      BY <2>1, <2>2
  <1> QED
    BY <1>1, <1>2 DEF JobsOK

\* A job that is anywhere but idle is a walk or a save.
LEMMA Active ==
  ASSUME JobsOK, NEW p \in Process, job[p].pc # "idle"
  PROVE  IsJob(job[p]) /\ (WalkOK(job[p]) \/ SaveOK(job[p]))
  BY DEF JobsOK, JobOK, Idle

\* Only walks have instructions.
LEMMA Walks ==
  ASSUME JobsOK, NEW p \in Process, job[p].pc \in {"walk", "verify"}
  PROVE  IsJob(job[p]) /\ WalkOK(job[p])
  BY Active DEF SaveOK

\* A job with another value in one of its fields is a job.
LEMMA OneField ==
  ASSUME NEW j, IsJob(j), NEW v
  PROVE  /\ IsJob([j EXCEPT !.pc = v]) /\ IsJob([j EXCEPT !.at = v])
         /\ IsJob([j EXCEPT !.queue = v]) /\ IsJob([j EXCEPT !.secrets = v])
         /\ IsJob([j EXCEPT !.runtime = v]) /\ IsJob([j EXCEPT !.enabled = v])
         /\ IsJob([j EXCEPT !.loaded = v])
  <1>1. IsJob([j EXCEPT !.pc = v])
    BY DEF IsJob
  <1>2. IsJob([j EXCEPT !.at = v])
    BY DEF IsJob
  <1>3. IsJob([j EXCEPT !.queue = v])
    BY DEF IsJob
  <1>4. IsJob([j EXCEPT !.secrets = v])
    BY DEF IsJob
  <1>5. IsJob([j EXCEPT !.runtime = v])
    BY DEF IsJob
  <1>6. IsJob([j EXCEPT !.enabled = v])
    BY DEF IsJob
  <1>7. IsJob([j EXCEPT !.loaded = v])
    BY DEF IsJob
  <1> QED
    BY <1>1, <1>2, <1>3, <1>4, <1>5, <1>6, <1>7

\* The counter of a walk may move.
LEMMA OnlyAt ==
  ASSUME NEW j, IsJob(j), WalkOK(j), NEW n
  PROVE  LET k == [j EXCEPT !.at = n] IN IsJob(k) /\ WalkOK(k)
  BY DEF IsJob, WalkOK

\* So may what it has collected, with what is left, and its values.
LEMMA OnlyCollected ==
  ASSUME NEW j, IsJob(j), WalkOK(j), NEW at, NEW queue, queue \subseteq j.queue,
         NEW secrets, DOMAIN secrets \subseteq KeysOf(j.connector)
  PROVE  LET k == [j EXCEPT !.at = at, !.queue = queue, !.secrets = secrets]
         IN IsJob(k) /\ WalkOK(k)
  <1> DEFINE k == [j EXCEPT !.at = at, !.queue = queue, !.secrets = secrets]
  <1>1. IsJob(k)
    BY OneField, Zenon
  <1>2. /\ k.queue = queue /\ k.secrets = secrets
        /\ k.pc = j.pc /\ k.file = j.file /\ k.connector = j.connector
    BY DEF IsJob
  <1> QED
    BY <1>1, <1>2 DEF WalkOK

LEMMA OnlyConfigured ==
  ASSUME NEW j, IsJob(j), WalkOK(j), NEW at, NEW runtime
  PROVE  LET k == [j EXCEPT !.at = at, !.runtime = runtime] IN IsJob(k) /\ WalkOK(k)
  <1> DEFINE k == [j EXCEPT !.at = at, !.runtime = runtime]
  <1>1. IsJob(k)
    BY OneField, Zenon
  <1>2. /\ k.queue = j.queue /\ k.secrets = j.secrets
        /\ k.pc = j.pc /\ k.file = j.file /\ k.connector = j.connector
    BY DEF IsJob
  <1> QED
    BY <1>1, <1>2 DEF WalkOK

\* It turns to saving, from which it comes back.
LEMMA OnlySaving ==
  ASSUME NEW j, IsJob(j), WalkOK(j), NEW enabled
  PROVE  LET k == [j EXCEPT !.pc = "load", !.enabled = enabled]
         IN IsJob(k) /\ WalkOK(k) /\ k.enabled = enabled
  <1> DEFINE k == [j EXCEPT !.pc = "load", !.enabled = enabled]
  <1>1. IsJob(k)
    BY OneField, Zenon
  <1>2. /\ k.queue = j.queue /\ k.secrets = j.secrets /\ k.enabled = enabled
        /\ k.pc = "load" /\ k.file = j.file /\ k.connector = j.connector
    BY DEF IsJob
  <1> QED
    BY <1>1, <1>2 DEF WalkOK

LEMMA OnlyBack ==
  ASSUME NEW j, IsJob(j), WalkOK(j), NEW at
  PROVE  LET k == [j EXCEPT !.pc = "walk", !.at = at] IN IsJob(k) /\ WalkOK(k)
  <1> DEFINE k == [j EXCEPT !.pc = "walk", !.at = at]
  <1>1. IsJob(k)
    BY OneField, Zenon
  <1>2. /\ k.queue = j.queue /\ k.secrets = j.secrets
        /\ k.pc = "walk" /\ k.file = j.file /\ k.connector = j.connector
    BY DEF IsJob
  <1> QED
    BY <1>1, <1>2 DEF WalkOK

------------------------------------------------------------------------------
(* The keys of a connector *)

\* A credential's key is its connector's name, or that and "webhook"; no connector
\* has more than two.
LEMMA CredentialKeys ==
  ASSUME NEW c \in DOMAIN Descriptors
  PROVE  /\ DOMAIN Descriptors[c].credentials \subseteq {1, 2}
         /\ \A i \in DOMAIN Descriptors[c].credentials :
                Descriptors[c].credentials[i].key \in {<<c>>, <<c, "webhook">>}
  <1>1. CASE c = "linear"
    BY <1>1 DEF Descriptors, Linear, Credential
  <1>2. CASE c = "google_drive"
    BY <1>2 DEF Descriptors, GoogleDrive, Credential
  <1>3. CASE c = "granola"
    BY <1>3 DEF Descriptors, Granola, Credential
  <1>4. CASE c = "anthropic_admin"
    BY <1>4 DEF Descriptors, AnthropicAdmin, Credential
  <1>5. CASE c = "openai_admin"
    BY <1>5 DEF Descriptors, OpenAIAdmin, Credential
  <1>6. CASE c = "copilot"
    BY <1>6 DEF Descriptors, Copilot, Credential
  <1>7. CASE c = "cursor"
    BY <1>7 DEF Descriptors, Cursor, Credential
  <1>8. CASE c = "devin"
    BY <1>8 DEF Descriptors, Devin, Credential
  <1>9. CASE c = "servicenow"
    BY <1>9 DEF Descriptors, ServiceNow, Credential
  <1>10. CASE c = "mcp_registry"
    BY <1>10 DEF Descriptors, McpRegistry
  <1> QED
    BY <1>1, <1>2, <1>3, <1>4, <1>5, <1>6, <1>7, <1>8, <1>9, <1>10 DEF Descriptors

\* So a key tells whose it is, the keys of a triple too.
LEMMA KeyOwner ==
  ASSUME NEW c \in DOMAIN Descriptors, NEW key \in KeysOf(c)
  PROVE  key[1] = c
  <1>1. PICK i \in DOMAIN Descriptors[c].credentials :
            key \in {Descriptors[c].credentials[i].key} \cup AuxKeys(Descriptors[c].credentials[i])
    BY DEF KeysOf, CredentialsOf, Range
  <1> DEFINE own == Descriptors[c].credentials[i].key
  <1>2. own = <<c>> \/ own = <<c, "webhook">>
    BY CredentialKeys
  <1>3. CASE key = own
    BY <1>2, <1>3
  <1>4. CASE key \in AuxKeys(Descriptors[c].credentials[i])
    <2>1. PICK part \in {"refresh_token", "client_id", "client_secret"} : key = Append(own, part)
      BY <1>4 DEF AuxKeys
    <2> QED
      BY <1>2, <2>1
  <1> QED
    BY <1>1, <1>3, <1>4

\* The first candidate is one of those in the queue.
LEMMA FirstIsCandidate ==
  ASSUME NEW c \in DOMAIN Descriptors, NEW queue, NEW type,
         queue \subseteq DOMAIN Descriptors[c].credentials,
         Candidates(c, queue, type) # {}
  PROVE  FirstCandidate(c, queue, type) \in queue
  <1> DEFINE S == Candidates(c, queue, type)
  <1>1. S \subseteq {1, 2} /\ S \subseteq queue
    BY CredentialKeys DEF Candidates
  <1>2. \E i \in S : \A j \in S : i <= j
    BY <1>1
  <1>3. FirstCandidate(c, queue, type) \in S
    BY <1>2 DEF FirstCandidate
  <1> QED
    BY <1>1, <1>3

\* What is kept of a credential is kept under its own keys.
LEMMA KeptKeys ==
  ASSUME NEW c \in DOMAIN Descriptors, NEW i \in DOMAIN Descriptors[c].credentials,
         NEW v, NEW renewed
  PROVE  DOMAIN Kept(Descriptors[c].credentials[i], v, renewed) \subseteq KeysOf(c)
  BY DEF Kept, Only, KeysOf, CredentialsOf, Range

LEMMA OverDomain ==
  ASSUME NEW new, NEW old
  PROVE  /\ DOMAIN Over(new, old) = DOMAIN new \cup DOMAIN old
         /\ \A k \in DOMAIN new : Over(new, old)[k] = new[k]
         /\ \A k \in DOMAIN old \ DOMAIN new : Over(new, old)[k] = old[k]
  BY DEF Over

------------------------------------------------------------------------------
(* Every step keeps the jobs in order *)

LEMMA TakeKeepsJobs ==
  ASSUME JobsOK, NEW p \in Process, job[p].pc = "walk", NEW type, NEW renewed,
         Take(p, type, renewed)
  PROVE  JobsOK'
  <1> DEFINE c == job[p].connector
             queue == job[p].queue
  <1>1. IsJob(job[p]) /\ WalkOK(job[p])
    BY Walks
  <1>2. c \in DOMAIN Descriptors /\ queue \subseteq DOMAIN Descriptors[c].credentials
    BY <1>1, OperatorAssumption DEF WalkOK
  <1>3. CASE Candidates(c, queue, type) = {}
    <2>1. Become(p, [job[p] EXCEPT !.at = @ + 1])
      BY <1>3 DEF Take
    <2> QED
      BY <1>1, <2>1, OnlyAt, OneJob
  <1>4. CASE Candidates(c, queue, type) # {}
    <2> DEFINE i == FirstCandidate(c, queue, type)
               cred == Descriptors[c].credentials[i]
    <2>1. PICK v \in Secret[p] :
            Become(p, [job[p] EXCEPT !.at = @ + 1, !.queue = @ \ {i},
                                     !.secrets = Over(Kept(cred, v, renewed), @)])
      BY <1>4 DEF Take
    <2>2. i \in DOMAIN Descriptors[c].credentials
      BY <1>2, <1>4, FirstIsCandidate
    <2> DEFINE s == Over(Kept(cred, v, renewed), job[p].secrets)
               j == [job[p] EXCEPT !.at = @ + 1, !.queue = @ \ {i}, !.secrets = s]
    <2>3. DOMAIN s \subseteq KeysOf(c)
      <3>1. DOMAIN Kept(cred, v, renewed) \subseteq KeysOf(c)
        BY <1>2, <2>2, KeptKeys
      <3>2. DOMAIN s = DOMAIN Kept(cred, v, renewed) \cup DOMAIN job[p].secrets
        BY OverDomain
      <3> QED
        BY <1>1, <3>1, <3>2 DEF WalkOK
    <2>4. IsJob(j) /\ WalkOK(j)
      <3> HIDE DEF s, i
      <3> QED
        BY <1>1, <2>3, OnlyCollected
    <2>5. Become(p, j)
      BY <2>1
    <2> HIDE DEF j
    <2> QED
      BY <2>4, <2>5, OneJob
  <1> QED
    BY <1>3, <1>4

\* A walk's other steps.
LEMMA WalkKeepsJobs ==
  ASSUME JobsOK, NEW p \in Process, WalkStep(p)
  PROVE  JobsOK'
  <1>1. ASSUME NEW action, AtInstruction(p, action)
        PROVE  job[p].pc = "walk" /\ IsJob(job[p]) /\ WalkOK(job[p])
    BY <1>1, Walks DEF AtInstruction
  <1>2. CASE Inform(p)
    BY <1>1, <1>2, OnlyAt, OneJob DEF Inform
  <1>3. CASE PasteSecret(p)
    BY <1>1, <1>3, TakeKeepsJobs DEF PasteSecret
  <1>4. CASE OAuthConsent(p)
    <2>1. Take(p, "oauth2", ~job[p].pasted) \/ Become(p, Idle)
      BY <1>4 DEF OAuthConsent
    <2>2. job[p].pc = "walk"
      BY <1>1, <1>4 DEF OAuthConsent
    <2>3. CASE Take(p, "oauth2", ~job[p].pasted)
      BY <2>2, <2>3, TakeKeepsJobs
    <2>4. CASE Become(p, Idle)
      BY <2>4, GivesUp
    <2> QED
      BY <2>1, <2>3, <2>4
  <1>5. CASE Configure(p)
    <2> DEFINE j == [job[p] EXCEPT !.at = @ + 1,
                       !.runtime = [key \in Descriptors[job[p].connector].runtime |-> "pinned"]]
    <2>1. IsJob(j) /\ WalkOK(j)
      BY <1>1, <1>5, OnlyConfigured DEF Configure
    <2>2. Become(p, j)
      BY <1>5 DEF Configure
    <2> HIDE DEF j
    <2> QED
      BY <2>1, <2>2, OneJob
  <1>6. CASE Verify(p)
    <2>1. IsJob(job[p]) /\ WalkOK(job[p])
      BY <1>1, <1>6 DEF Verify
    <2>2. CASE Verifiable(p)
      <3> DEFINE j == [job[p] EXCEPT !.pc = "load", !.enabled = FALSE]
      <3>1. IsJob(j) /\ WalkOK(j)
        BY <2>1, OnlySaving
      <3>2. Become(p, j)
        BY <1>6, <2>2 DEF Verify
      <3> HIDE DEF j
      <3> QED
        BY <3>1, <3>2, OneJob
    <2>3. CASE ~Verifiable(p)
      BY <1>6, <2>1, <2>3, OnlyAt, OneJob DEF Verify
    <2> QED
      BY <2>2, <2>3
  <1>7. CASE RunVerify(p)
    <2>1. IsJob(job[p]) /\ WalkOK(job[p])
      BY <1>7, Walks DEF RunVerify
    <2> DEFINE j == [job[p] EXCEPT !.pc = "walk", !.at = @ + 1]
    <2>2. IsJob(j) /\ WalkOK(j)
      BY <2>1, OnlyBack
    <2>3. Become(p, j) \/ Become(p, Idle)
      BY <1>7 DEF RunVerify
    <2> HIDE DEF j
    <2>4. CASE Become(p, j)
      BY <2>2, <2>4, OneJob
    <2>5. CASE Become(p, Idle)
      BY <2>5, GivesUp
    <2> QED
      BY <2>3, <2>4, <2>5
  <1>8. CASE Finish(p)
    <2> DEFINE j == [job[p] EXCEPT !.pc = "load", !.enabled = TRUE]
    <2>1. IsJob(j) /\ WalkOK(j)
      BY <1>8, Walks, OnlySaving DEF Finish
    <2>2. Become(p, j)
      BY <1>8 DEF Finish
    <2> HIDE DEF j
    <2> QED
      BY <2>1, <2>2, OneJob
  <1> QED
    BY <1>2, <1>3, <1>4, <1>5, <1>6, <1>7, <1>8 DEF WalkStep

\* Saving: a job goes on from loading to the replacement, or gives up on the way; a
\* walk then verifies what it saved or is at its end.
LEMMA SaveKeepsJobs ==
  ASSUME JobsOK, NEW p \in Process, SaveStep(p)
  PROVE  JobsOK'
  <1>1. job[p].pc # "idle"
    BY DEF SaveStep, Load, SaveFails, Replace
  <1>2. IsJob(job[p]) /\ (WalkOK(job[p]) \/ SaveOK(job[p]))
    BY <1>1, Active
  <1>3. ASSUME NEW loaded, Become(p, [job[p] EXCEPT !.pc = "replace", !.loaded = loaded])
        PROVE  JobsOK'
    <2> DEFINE k == [job[p] EXCEPT !.pc = "replace", !.loaded = loaded]
    <2>1. IsJob(k)
      BY <1>2, OneField, Zenon
    <2>2. /\ k.pc = "replace" /\ k.file = job[p].file /\ k.connector = job[p].connector
          /\ k.queue = job[p].queue /\ k.secrets = job[p].secrets
      BY <1>2 DEF IsJob
    <2>3. WalkOK(k) \/ SaveOK(k)
      BY <1>2, <2>2 DEF WalkOK, SaveOK
    <2>4. Become(p, k)
      BY <1>3
    <2> HIDE DEF k
    <2> QED
      BY <2>1, <2>3, <2>4, OneJob
  <1>4. CASE Load(p)
    <2>1. Become(p, Idle) \/ Become(p, [job[p] EXCEPT !.pc = "replace", !.loaded = Loaded(p)])
      BY <1>4 DEF Load
    <2> QED
      BY <1>3, <2>1, GivesUp
  <1>5. CASE SaveFails(p)
    BY <1>5, GivesUp DEF SaveFails
  <1>6. CASE Replace(p)
    <2>1. Become(p, AfterReplace(p))
      BY <1>6 DEF Replace
    <2>2. CASE job[p].file = "config" /\ ~job[p].enabled
      <3> DEFINE k == [job[p] EXCEPT !.pc = "verify", !.loaded = <<>>]
      <3>1. IsJob(k)
        BY <1>2, OneField, Zenon
      <3>2. /\ k.pc = "verify" /\ k.file = job[p].file /\ k.connector = job[p].connector
            /\ k.queue = job[p].queue /\ k.secrets = job[p].secrets
        BY <1>2 DEF IsJob
      <3>3. WalkOK(k)
        BY <1>2, <2>2, <3>2 DEF WalkOK, SaveOK
      <3>4. Become(p, k)
        BY <2>1, <2>2 DEF AfterReplace
      <3> HIDE DEF k
      <3> QED
        BY <3>1, <3>3, <3>4, OneJob
    <2>3. CASE ~(job[p].file = "config" /\ ~job[p].enabled)
      <3>1. Become(p, Idle)
        BY <2>1, <2>3 DEF AfterReplace
      <3> QED
        BY <3>1, GivesUp
    <2> QED
      BY <2>2, <2>3
  <1> QED
    BY <1>4, <1>5, <1>6 DEF SaveStep

\* A fresh job knows nothing yet.
LEMMA StartKeepsJobs ==
  ASSUME JobsOK, NEW p \in Process,
         \/ \E c \in Connector, asked \in SUBSET {"active", "webhook"}, pasted \in BOOLEAN :
                StartWalk(p, c, asked, pasted)
         \/ \E r \in Repository : StartSave(p, r)
  PROVE  JobsOK'
  <1>1. ASSUME NEW c \in Connector, NEW asked, NEW pasted, StartWalk(p, c, asked, pasted)
        PROVE  JobsOK'
    <2> DEFINE modes == SelectedModes(c, asked)
               k == [ pc |-> "walk", file |-> "config", connector |-> c, modes |-> modes,
                      pasted |-> pasted, at |-> 1, queue |-> Queue(c, modes),
                      secrets |-> <<>>, runtime |-> <<>>, enabled |-> FALSE, loaded |-> <<>> ]
    <2>1. Become(p, k)
      BY <1>1 DEF StartWalk
    <2>2. Queue(c, modes) \subseteq DOMAIN Descriptors[c].credentials
      BY DEF Queue
    <2>3. IsJob(k)
      BY DEF IsJob
    <2>4. WalkOK(k)
      <3> HIDE DEF modes
      <3> QED
        BY <2>2 DEF WalkOK
    <2> HIDE DEF k
    <2> QED
      BY <2>1, <2>3, <2>4, OneJob
  <1>2. ASSUME NEW r \in Repository, StartSave(p, r)
        PROVE  JobsOK'
    <2> DEFINE k == [ pc |-> "load", file |-> "cursors", connector |-> r, modes |-> {},
                      pasted |-> FALSE, at |-> jobs + 1, queue |-> {},
                      secrets |-> <<>>, runtime |-> <<>>, enabled |-> FALSE, loaded |-> <<>> ]
    <2>1. Become(p, k)
      BY <1>2 DEF StartSave
    <2>2. IsJob(k) /\ SaveOK(k)
      BY DEF IsJob, SaveOK
    <2> HIDE DEF k
    <2> QED
      BY <2>1, <2>2, OneJob
  <1> QED
    BY <1>1, <1>2

\* Nothing puts a job in disorder.
LEMMA JobsKept ==
  ASSUME JobsOK, [Next]_vars
  PROVE  JobsOK'
  <1>1. CASE UNCHANGED vars
    BY <1>1 DEF vars, JobsOK, JobOK
  <1>2. CASE Flush
    BY <1>2 DEF Flush, JobsOK, JobOK
  <1>3. CASE PowerLoss
    BY <1>3 DEF PowerLoss, JobsOK, JobOK
  <1>4. ASSUME NEW p \in Process, Kill(p)
        PROVE  JobsOK'
    BY <1>4, GivesUp DEF Kill
  <1> QED
    BY <1>1, <1>2, <1>3, <1>4, StartKeepsJobs, WalkKeepsJobs, SaveKeepsJobs DEF Next

------------------------------------------------------------------------------
(* The files, and what a walk leaves alone *)

FilesOK ==
    /\ DOMAIN files = Names
    /\ files["config"].state \in {"absent", "whole", "torn"}
    /\ files["cursors"].state \in {"absent", "whole"}

\* A walk neither reads nor writes the files; it moves one job.
LEMMA WalkFrame ==
  ASSUME JobsOK, NEW p \in Process, WalkStep(p)
  PROVE  /\ job[p].pc \in {"walk", "verify"}
         /\ \A q \in Process \ {p} : job'[q] = job[q]
         /\ UNCHANGED walkUnchanged
  <1>1. job[p].pc \in {"walk", "verify"} /\ UNCHANGED walkUnchanged
    BY DEF WalkStep, Inform, PasteSecret, OAuthConsent, Configure, Verify, RunVerify,
           Finish, AtInstruction
  <1>2. \E j : Become(p, j)
    BY DEF WalkStep, Inform, PasteSecret, OAuthConsent, Configure, Verify, RunVerify,
           Finish, Take
  <1> QED
    BY <1>1, <1>2, OneMoves

------------------------------------------------------------------------------
(* Nothing that was saved is lost *)

\* A block holds keys of its own connector only.
Owned(blocks) ==
    \A c \in DOMAIN blocks :
        c \in DOMAIN Descriptors /\ DOMAIN blocks[c].secrets \subseteq KeysOf(c)

\* The keys of latest: a repository's, or those of a connector.
KeysOK ==
    \A key \in DOMAIN latest :
        \/ key = <<key[1]>> /\ key[1] \in Repository
        \/ \E c \in Connector : key \in KeysOf(c)

\* What is loaded was made from a file that can be read, and is what would be made of
\* the file still, unless it was replaced since.
LoadedOK(p, name) ==
    Holding(p, name) =>
        /\ files[name].state # "torn"
        /\ ~overlapped[name] => job[p].loaded = Loaded(p)
        /\ name = "config" => Owned(job[p].loaded)

CursorsAgree ==
    /\ files["cursors"].state = "absent" => \A key \in DOMAIN latest : key[1] \notin Repository
    /\ ~overlapped["cursors"] =>
        \A key \in DOMAIN latest : key[1] \in Repository =>
            /\ key[1] \in DOMAIN files["cursors"].content
            /\ files["cursors"].content[key[1]] = latest[key]

\* The secret of a key, in some block.
Has(blocks, key, v) ==
    \E c \in DOMAIN blocks : key \in DOMAIN blocks[c].secrets /\ blocks[c].secrets[key] = v

ConfigAgrees ==
    /\ files["config"].state = "absent" => \A key \in DOMAIN latest : key[1] \in Repository
    /\ files["config"].state = "whole" => Owned(files["config"].content)
    /\ files["config"].state = "whole" /\ ~overlapped["config"] =>
        \A key \in DOMAIN latest : key[1] \notin Repository =>
            Has(files["config"].content, key, latest[key])

AgreeInv ==
    /\ JobsOK /\ FilesOK /\ KeysOK /\ CursorsAgree /\ ConfigAgrees
    /\ DOMAIN overlapped = Names
    /\ \A p \in Process : \A name \in Names : LoadedOK(p, name)

\* Since a key tells whose it is, only one block has it.
LEMMA HasIsFileSecret ==
  ASSUME NEW blocks, Owned(blocks), NEW key, NEW v, Has(blocks, key, v)
  PROVE  FileSecret(blocks, key) = v
  <1> DEFINE holders == {c \in DOMAIN blocks : key \in DOMAIN blocks[c].secrets}
  <1>1. PICK c \in DOMAIN blocks : key \in DOMAIN blocks[c].secrets /\ blocks[c].secrets[key] = v
    BY DEF Has
  <1>2. \A d \in holders : d = key[1]
    BY KeyOwner DEF Owned
  <1>3. c \in holders /\ c = key[1]
    BY <1>1, <1>2
  <1>4. (CHOOSE d \in holders : TRUE) = c
    BY <1>2, <1>3
  <1> QED
    BY <1>1, <1>3, <1>4 DEF FileSecret

\* So the invariant is what SavedUnlessOverlapped asks for.
LEMMA AgreeMeansSaved == AgreeInv => SavedUnlessOverlapped
  <1> SUFFICES ASSUME AgreeInv, NEW name \in Names,
                      files[name].state = "whole", ~overlapped[name], NEW key \in DOMAIN latest
               PROVE  IF key[1] \in Repository
                      THEN name = "cursors" => files[name].content[key[1]] = latest[key]
                      ELSE name = "config" => FileSecret(files[name].content, key) = latest[key]
    BY DEF SavedUnlessOverlapped
  <1>1. CASE key[1] \in Repository
    BY <1>1 DEF AgreeInv, CursorsAgree
  <1>2. CASE key[1] \notin Repository
    BY <1>2, HasIsFileSecret DEF AgreeInv, ConfigAgrees
  <1> QED
    BY <1>1, <1>2

\* Merging a connector's secrets into the blocks keeps them in order, adds what is
\* merged and forgets nothing else.
LEMMA PersistedOwned ==
  ASSUME NEW blocks, Owned(blocks), NEW c \in DOMAIN Descriptors,
         NEW secrets, DOMAIN secrets \subseteq KeysOf(c), NEW runtime, NEW enabled
  PROVE  /\ Owned(Persisted(blocks, c, secrets, runtime, enabled))
         /\ \A key \in DOMAIN secrets :
                Has(Persisted(blocks, c, secrets, runtime, enabled), key, secrets[key])
         /\ \A key, v : Has(blocks, key, v) /\ key \notin DOMAIN secrets =>
                Has(Persisted(blocks, c, secrets, runtime, enabled), key, v)
  <1> DEFINE old == IF c \in DOMAIN blocks THEN blocks[c]
                    ELSE [secrets |-> <<>>, runtime |-> <<>>, enabled |-> FALSE]
             block == [ secrets |-> Over(secrets, old.secrets),
                        runtime |-> Over(runtime, old.runtime), enabled |-> enabled ]
             new == Persisted(blocks, c, secrets, runtime, enabled)
  <1>1. DOMAIN old.secrets \subseteq KeysOf(c)
    BY DEF Owned
  <1>2. new = Over(Only(c, block), blocks)
    BY DEF Persisted
  <1> DEFINE only == Only(c, block)
  <1>3. DOMAIN only = {c} /\ only[c] = block
    BY DEF Only
  <1>4. /\ DOMAIN new = {c} \cup DOMAIN blocks /\ new[c] = block
        /\ \A d \in DOMAIN blocks \ {c} : new[d] = blocks[d]
    <2> HIDE DEF only, new
    <2>1. new = Over(only, blocks)
      BY <1>2 DEF only
    <2> QED
      BY <1>3, <2>1 DEF Over
  <1>5. block.secrets = Over(secrets, old.secrets)
    OBVIOUS
  <1> HIDE DEF new, block, old
  <1>6. /\ DOMAIN block.secrets = DOMAIN secrets \cup DOMAIN old.secrets
        /\ \A key \in DOMAIN secrets : block.secrets[key] = secrets[key]
        /\ \A key \in DOMAIN old.secrets \ DOMAIN secrets : block.secrets[key] = old.secrets[key]
    BY <1>5 DEF Over
  <1>7. Owned(new)
    BY <1>1, <1>4, <1>6 DEF Owned
  <1>8. ASSUME NEW key \in DOMAIN secrets PROVE Has(new, key, secrets[key])
    BY <1>4, <1>6 DEF Has
  <1>9. ASSUME NEW key, NEW v, Has(blocks, key, v), key \notin DOMAIN secrets
        PROVE  Has(new, key, v)
    <2>1. PICK d \in DOMAIN blocks : key \in DOMAIN blocks[d].secrets /\ blocks[d].secrets[key] = v
      BY <1>9 DEF Has
    <2>2. CASE d = c
      <3>1. key \in DOMAIN old.secrets /\ old.secrets[key] = v
        BY <2>1, <2>2 DEF old
      <3> QED
        BY <1>4, <1>6, <1>9, <3>1 DEF Has
    <2>3. CASE d # c
      BY <1>4, <2>1, <2>3 DEF Has
    <2> QED
      BY <2>2, <2>3
  <1> QED
    BY <1>7, <1>8, <1>9 DEF new

\* The example is in order.
LEMMA ExampleOwned == Owned(Seeded(Example))
  <1>1. /\ DOMAIN Example = {"linear", "google_drive", "anthropic_admin"}
        /\ \A c \in DOMAIN Example :
                DOMAIN Example[c].secrets = {cred.key : cred \in CredentialsOf(c)}
    BY DEF Example
  <1>2. DOMAIN Example \subseteq DOMAIN Descriptors
    BY <1>1 DEF Descriptors
  <1>3. \A c : {cred.key : cred \in CredentialsOf(c)} \subseteq KeysOf(c)
    BY DEF KeysOf
  <1>4. /\ DOMAIN Seeded(Example) = DOMAIN Example
        /\ \A c \in DOMAIN Example : DOMAIN Seeded(Example)[c].secrets = DOMAIN Example[c].secrets
    BY DEF Seeded, Example
  <1> QED
    BY <1>1, <1>2, <1>3, <1>4 DEF Owned

\* What would be made of a file depends on that file and on the job's own fields.
LEMMA SameLoaded ==
  ASSUME NEW p \in Process, files'[job[p].file] = files[job[p].file],
         job'[p].file = job[p].file, job'[p].connector = job[p].connector,
         job'[p].at = job[p].at, job'[p].secrets = job[p].secrets,
         job'[p].runtime = job[p].runtime, job'[p].enabled = job[p].enabled
  PROVE  Loaded(p)' = Loaded(p)
  BY DEF Loaded

\* A walk makes of a file in order one in order.
LEMMA LoadedOwned ==
  ASSUME AgreeInv, NEW p \in Process, WalkOK(job[p]), files["config"].state # "torn"
  PROVE  Owned(Loaded(p))
  <1> DEFINE blocks == IF files["config"].state = "absent" THEN Seeded(Example)
                       ELSE files["config"].content
  <1>1. Owned(blocks)
    BY ExampleOwned DEF AgreeInv, FilesOK, ConfigAgrees
  <1>2. /\ job[p].connector \in DOMAIN Descriptors
        /\ DOMAIN job[p].secrets \subseteq KeysOf(job[p].connector)
    BY OperatorAssumption DEF WalkOK
  <1>3. Loaded(p) = Persisted(blocks, job[p].connector, job[p].secrets, job[p].runtime,
                              job[p].enabled)
    BY DEF Loaded, WalkOK
  <1> HIDE DEF blocks
  <1> QED
    BY <1>1, <1>2, <1>3, PersistedOwned

\* A process that neither moves nor sees its file move.
LEMMA StillLoaded ==
  ASSUME NEW q \in Process, NEW name \in Names, LoadedOK(q, name),
         job'[q] = job[q], files'[name] = files[name], overlapped'[name] = overlapped[name]
  PROVE  LoadedOK(q, name)'
  <1> SUFFICES ASSUME Holding(q, name)'
               PROVE  /\ files'[name].state # "torn"
                      /\ ~overlapped'[name] => job'[q].loaded = Loaded(q)'
                      /\ name = "config" => Owned(job'[q].loaded)
    BY DEF LoadedOK
  <1>1. Holding(q, name) /\ job[q].file = name
    BY DEF Holding
  <1>2. Loaded(q)' = Loaded(q)
    BY <1>1, SameLoaded
  <1> QED
    BY <1>1, <1>2 DEF LoadedOK

\* A step of one process that leaves files and history alone keeps the invariant if
\* what that process has loaded is in order.
LEMMA AgreeFrame ==
  ASSUME AgreeInv, JobsOK', NEW p \in Process, UNCHANGED <<files, latest, overlapped>>,
         \A q \in Process \ {p} : job'[q] = job[q],
         \A name \in Names : LoadedOK(p, name)'
  PROVE  AgreeInv'
  <1>1. /\ FilesOK' /\ KeysOK' /\ CursorsAgree' /\ ConfigAgrees' /\ DOMAIN overlapped' = Names
    BY DEF AgreeInv, FilesOK, KeysOK, CursorsAgree, ConfigAgrees
  <1>2. ASSUME NEW q \in Process \ {p}, NEW name \in Names PROVE LoadedOK(q, name)'
    BY <1>2, StillLoaded DEF AgreeInv
  <1> QED
    BY <1>1, <1>2 DEF AgreeInv

\* In particular if it has nothing loaded.
LEMMA AgreeUnloaded ==
  ASSUME AgreeInv, JobsOK', NEW p \in Process, UNCHANGED <<files, latest, overlapped>>,
         \A q \in Process \ {p} : job'[q] = job[q],
         job'[p].pc # "replace"
  PROVE  AgreeInv'
  <1>1. \A name \in Names : LoadedOK(p, name)'
    BY DEF LoadedOK, Holding
  <1> QED
    BY <1>1, AgreeFrame

\* A walk does not load or write; its saving does.
LEMMA WalkUnloaded ==
  ASSUME JobsOK, NEW p \in Process, WalkStep(p)
  PROVE  job'[p].pc # "replace"
  <1>1. job[p].pc \in {"walk", "verify"} /\ IsJob(job[p])
    BY WalkFrame, Walks
  <1>2. DOMAIN job = Process
    BY DEF JobsOK
  <1>3. ASSUME NEW type, NEW renewed, job[p].pc = "walk", Take(p, type, renewed)
        PROVE  job'[p].pc # "replace"
    BY <1>1, <1>2, <1>3 DEF Take, Become, IsJob
  <1>4. CASE Inform(p) \/ Configure(p)
    BY <1>1, <1>2, <1>4 DEF Inform, Configure, AtInstruction, Become, IsJob
  <1>5. CASE PasteSecret(p)
    BY <1>3, <1>5 DEF PasteSecret, AtInstruction
  <1>6. CASE OAuthConsent(p)
    BY <1>2, <1>3, <1>6 DEF OAuthConsent, AtInstruction, Become, Idle
  <1>7. CASE Verify(p)
    BY <1>1, <1>2, <1>7 DEF Verify, AtInstruction, Become, IsJob
  <1>8. CASE RunVerify(p)
    <2>1. Become(p, [job[p] EXCEPT !.pc = "walk", !.at = @ + 1]) \/ Become(p, Idle)
      BY <1>8 DEF RunVerify
    <2>2. CASE Become(p, [job[p] EXCEPT !.pc = "walk", !.at = @ + 1])
      BY <1>1, <1>2, <2>2 DEF Become, IsJob
    <2>3. CASE Become(p, Idle)
      BY <1>2, <2>3 DEF Become, Idle
    <2> QED
      BY <2>1, <2>2, <2>3
  <1>9. CASE Finish(p)
    BY <1>1, <1>2, <1>9 DEF Finish, Become, IsJob
  <1> QED
    BY <1>4, <1>5, <1>6, <1>7, <1>8, <1>9 DEF WalkStep

\* Loading: the job holds what it makes of the file as it is.
LEMMA LoadAgrees ==
  ASSUME AgreeInv, JobsOK', NEW p \in Process, Load(p)
  PROVE  AgreeInv'
  <1>1. /\ \A q \in Process \ {p} : job'[q] = job[q]
        /\ UNCHANGED <<files, latest, overlapped>>
    BY OneMoves DEF Load, fileVars, historyVars, AgreeInv
  <1>2. CASE Become(p, Idle)
    <2>1. job'[p].pc = "idle"
      BY <1>2, OneMoves DEF AgreeInv, Idle
    <2> QED
      BY <1>1, <2>1, AgreeUnloaded
  <1>3. CASE /\ files[job[p].file].state # "torn"
             /\ Become(p, [job[p] EXCEPT !.pc = "replace", !.loaded = Loaded(p)])
    <2>1. /\ job'[p] = [job[p] EXCEPT !.pc = "replace", !.loaded = Loaded(p)]
          /\ IsJob(job[p]) /\ (WalkOK(job[p]) \/ SaveOK(job[p]))
      BY <1>3, OneMoves, Active DEF AgreeInv, Load
    <2>2. /\ job'[p].loaded = Loaded(p) /\ job'[p].file = job[p].file
          /\ job'[p].connector = job[p].connector /\ job'[p].at = job[p].at
          /\ job'[p].secrets = job[p].secrets /\ job'[p].runtime = job[p].runtime
          /\ job'[p].enabled = job[p].enabled
      BY <2>1 DEF IsJob
    <2>3. Loaded(p)' = Loaded(p)
      BY <1>1, <2>2, SameLoaded
    <2>4. job[p].file = "config" => Owned(Loaded(p))
      BY <1>3, <2>1, LoadedOwned DEF SaveOK
    <2>5. ASSUME NEW name \in Names PROVE LoadedOK(p, name)'
      BY <1>1, <1>3, <2>2, <2>3, <2>4 DEF LoadedOK, Holding
    <2> QED
      BY <1>1, <2>5, AgreeFrame
  <1> QED
    BY <1>2, <1>3 DEF Load

\* A save that fails leaves everything as it was.
LEMMA FailAgrees ==
  ASSUME AgreeInv, JobsOK', NEW p \in Process, SaveFails(p)
  PROVE  AgreeInv'
  <1>1. /\ job'[p] = Idle /\ \A q \in Process \ {p} : job'[q] = job[q]
        /\ UNCHANGED <<files, latest, overlapped>>
    BY OneMoves DEF SaveFails, fileVars, historyVars, AgreeInv
  <1> QED
    BY <1>1, AgreeUnloaded DEF Idle

\* What the replacement does to everything but the two agreements.
LEMMA ReplaceFrame ==
  ASSUME AgreeInv, NEW p \in Process, Replace(p)
  PROVE  /\ IsJob(job[p]) /\ (WalkOK(job[p]) \/ SaveOK(job[p]))
         /\ FilesOK' /\ KeysOK' /\ DOMAIN overlapped' = Names
         /\ \A q \in Process, name \in Names : LoadedOK(q, name)'
  <1> DEFINE name == job[p].file
  <1>1. /\ IsJob(job[p]) /\ (WalkOK(job[p]) \/ SaveOK(job[p])) /\ name \in Names
    BY Active DEF AgreeInv, Replace, WalkOK, SaveOK, Names
  <1>2. FilesOK'
    BY <1>1 DEF Replace, AgreeInv, FilesOK, Names
  <1>3. /\ DOMAIN overlapped' = Names
        /\ \A n \in Names \ {name} : overlapped'[n] = overlapped[n] /\ files'[n] = files[n]
        /\ overlapped'[name] = (overlapped[name] \/ \E q \in Process \ {p} : Holding(q, name))
        /\ files'[name].state = "whole"
    BY <1>1 DEF Replace, AgreeInv, FilesOK
  <1>4. KeysOK'
    <2>1. DOMAIN latest' = DOMAIN Saves(p) \cup DOMAIN latest
      BY OverDomain DEF Replace
    <2>2. CASE WalkOK(job[p])
      BY <2>1, <2>2 DEF Saves, WalkOK, AgreeInv, KeysOK
    <2>3. CASE SaveOK(job[p])
      <3>1. DOMAIN Saves(p) = {<<job[p].connector>>}
        BY <2>3 DEF Saves, SaveOK, Only
      <3> QED
        BY <2>1, <2>3, <3>1 DEF SaveOK, AgreeInv, KeysOK
    <2> QED
      BY <1>1, <2>2, <2>3
  <1>5. /\ \A q \in Process \ {p} : job'[q] = job[q]
        /\ job'[p] = AfterReplace(p)
    BY OneMoves DEF Replace, AgreeInv
  <1>6. ASSUME NEW n \in Names PROVE LoadedOK(p, n)'
    <2>1. job'[p].pc \in {"verify", "idle"}
      <3>1. CASE job[p].file = "config" /\ ~job[p].enabled
        BY <1>1, <1>5, <3>1 DEF AfterReplace, IsJob
      <3>2. CASE ~(job[p].file = "config" /\ ~job[p].enabled)
        BY <1>5, <3>2 DEF AfterReplace, Idle
      <3> QED
        BY <3>1, <3>2
    <2> QED
      BY <2>1 DEF LoadedOK, Holding
  <1>7. ASSUME NEW q \in Process \ {p}, NEW n \in Names, n # name PROVE LoadedOK(q, n)'
    BY <1>3, <1>5, <1>7, StillLoaded DEF AgreeInv
  <1>8. ASSUME NEW q \in Process \ {p}, NEW n \in Names, n = name PROVE LoadedOK(q, n)'
    <2>1. LoadedOK(q, n)
      BY DEF AgreeInv
    <2>2. Holding(q, n)' => Holding(q, n) /\ overlapped'[n]
      BY <1>3, <1>5, <1>8 DEF Holding
    <2> QED
      BY <1>3, <1>5, <1>8, <2>1, <2>2 DEF LoadedOK
  <1> QED
    BY <1>1, <1>2, <1>3, <1>4, <1>6, <1>7, <1>8

\* The configuration is replaced: what was collected is in it, and what had been
\* saved before, if no one else had it loaded.
LEMMA ReplaceConfig ==
  ASSUME AgreeInv, NEW p \in Process, Replace(p), WalkOK(job[p])
  PROVE  CursorsAgree' /\ ConfigAgrees'
  <1> DEFINE s == job[p].secrets
             c == job[p].connector
             new == files'["config"].content
             blocks == IF files["config"].state = "absent" THEN Seeded(Example)
                       ELSE files["config"].content
  <1>1. /\ job[p].file = "config" /\ c \in DOMAIN Descriptors
        /\ c \notin Repository /\ DOMAIN s \subseteq KeysOf(c)
    BY OperatorAssumption DEF WalkOK
  <1>2. /\ files'["config"].state = "whole" /\ new = job[p].loaded
        /\ files'["cursors"] = files["cursors"] /\ overlapped'["cursors"] = overlapped["cursors"]
        /\ ~overlapped'["config"] => ~overlapped["config"]
        /\ latest' = Over(s, latest)
    BY <1>1 DEF Replace, Saves, AgreeInv, FilesOK, Names
  <1>3. /\ DOMAIN latest' = DOMAIN s \cup DOMAIN latest
        /\ \A key \in DOMAIN s : latest'[key] = s[key]
        /\ \A key \in DOMAIN latest \ DOMAIN s : latest'[key] = latest[key]
    BY <1>2 DEF Over
  <1>4. \A key \in DOMAIN s : key[1] \notin Repository
    BY <1>1, KeyOwner
  <1>5. CursorsAgree'
    BY <1>2, <1>3, <1>4 DEF AgreeInv, CursorsAgree
  <1>6. /\ files["config"].state # "torn" /\ Owned(new)
        /\ ~overlapped["config"] => new = Loaded(p)
    <2>1. Holding(p, "config")
      BY <1>1 DEF Holding, Replace
    <2>2. LoadedOK(p, "config")
      BY DEF AgreeInv, Names
    <2> QED
      BY <1>2, <2>1, <2>2 DEF LoadedOK
  <1>7. ASSUME ~overlapped'["config"], NEW key \in DOMAIN latest', key[1] \notin Repository
        PROVE  Has(new, key, latest'[key])
    <2>1. new = Persisted(blocks, c, s, job[p].runtime, job[p].enabled)
      BY <1>1, <1>2, <1>6, <1>7 DEF Loaded
    <2>2. Owned(blocks)
      BY <1>6, ExampleOwned DEF AgreeInv, FilesOK, ConfigAgrees
    <2> HIDE DEF blocks, new, s, c
    <2>3. CASE key \in DOMAIN s
      BY <1>1, <1>3, <2>1, <2>2, <2>3, PersistedOwned
    <2>4. CASE key \notin DOMAIN s
      <3>1. key \in DOMAIN latest /\ latest'[key] = latest[key]
        BY <1>3, <1>7, <2>4
      <3>2. Has(blocks, key, latest[key])
        <4>1. files["config"].state # "absent"
          BY <1>7, <3>1 DEF AgreeInv, ConfigAgrees
        <4>2. files["config"].state = "whole"
          BY <1>6, <4>1 DEF AgreeInv, FilesOK
        <4> QED
          BY <1>2, <1>7, <3>1, <4>2 DEF AgreeInv, ConfigAgrees, blocks
      <3> QED
        BY <1>1, <2>1, <2>2, <2>4, <3>1, <3>2, PersistedOwned
    <2> QED
      BY <2>3, <2>4
  <1>8. ConfigAgrees'
    BY <1>2, <1>6, <1>7 DEF ConfigAgrees
  <1> QED
    BY <1>5, <1>8

\* The cursor store is replaced: it has the new cursor, and those of the other
\* repositories, if no one else had it loaded.
LEMMA ReplaceCursors ==
  ASSUME AgreeInv, NEW p \in Process, Replace(p), SaveOK(job[p])
  PROVE  CursorsAgree' /\ ConfigAgrees'
  <1> DEFINE r == job[p].connector
             old == files["cursors"].content
             new == files'["cursors"].content
  <1>1. job[p].file = "cursors" /\ r \in Repository
    BY DEF SaveOK
  <1>2. /\ files'["cursors"].state = "whole" /\ new = job[p].loaded
        /\ files'["config"] = files["config"] /\ overlapped'["config"] = overlapped["config"]
        /\ ~overlapped'["cursors"] => ~overlapped["cursors"]
        /\ latest' = Over(Only(<<r>>, job[p].at), latest)
    BY <1>1 DEF Replace, Saves, AgreeInv, FilesOK, Names
  <1>3. /\ DOMAIN latest' = {<<r>>} \cup DOMAIN latest
        /\ latest'[<<r>>] = job[p].at
        /\ \A key \in DOMAIN latest \ {<<r>>} : latest'[key] = latest[key]
    BY <1>2 DEF Over, Only
  <1>4. <<r>>[1] = r
    OBVIOUS
  <1>5. ConfigAgrees'
    BY <1>1, <1>2, <1>3, <1>4 DEF AgreeInv, ConfigAgrees
  <1>6. ASSUME ~overlapped'["cursors"], NEW key \in DOMAIN latest', key[1] \in Repository
        PROVE  key[1] \in DOMAIN new /\ new[key[1]] = latest'[key]
    <2>1. Holding(p, "cursors") /\ LoadedOK(p, "cursors")
      BY <1>1 DEF Holding, Replace, AgreeInv, Names
    <2>2. new = Over(Only(r, job[p].at), old)
      BY <1>1, <1>2, <1>6, <2>1 DEF LoadedOK, Loaded
    <2>3. /\ DOMAIN new = {r} \cup DOMAIN old /\ new[r] = job[p].at
          /\ \A q \in DOMAIN old \ {r} : new[q] = old[q]
      BY <2>2 DEF Over, Only
    <2>4. CASE key = <<r>>
      BY <1>3, <1>4, <2>3, <2>4
    <2>5. CASE key # <<r>>
      <3>1. key \in DOMAIN latest /\ latest'[key] = latest[key]
        BY <1>3, <1>6, <2>5
      <3>2. key = <<key[1]>>
        <4>1. ASSUME NEW d \in Connector, key \in KeysOf(d) PROVE FALSE
          BY <1>6, <4>1, KeyOwner, OperatorAssumption
        <4> QED
          BY <3>1, <4>1 DEF AgreeInv, KeysOK
      <3>3. key[1] # r
        BY <2>5, <3>2
      <3>4. key[1] \in DOMAIN old /\ old[key[1]] = latest[key]
        BY <1>2, <1>6, <3>1 DEF AgreeInv, CursorsAgree
      <3> QED
        BY <2>3, <3>1, <3>3, <3>4
    <2> QED
      BY <2>4, <2>5
  <1>7. CursorsAgree'
    BY <1>2, <1>6 DEF CursorsAgree
  <1> QED
    BY <1>5, <1>7

\* The end of a process takes nothing from the files; a loss of power can only take
\* the configuration, from everybody.
LEMMA NextAgree ==
  ASSUME AgreeInv, [Next]_vars
  PROVE  AgreeInv'
  <1>1. JobsOK /\ JobsOK'
    BY JobsKept DEF AgreeInv
  <1>2. ASSUME NEW p \in Process, NEW c, NEW asked, NEW pasted, StartWalk(p, c, asked, pasted)
        PROVE  AgreeInv'
    <2>1. /\ UNCHANGED <<files, latest, overlapped>> /\ job'[p].pc = "walk"
          /\ \A q \in Process \ {p} : job'[q] = job[q]
      BY <1>1, <1>2, OneMoves DEF StartWalk, fileVars, historyVars
    <2> QED
      BY <1>1, <2>1, AgreeUnloaded
  <1>3. ASSUME NEW p \in Process, NEW r, StartSave(p, r)
        PROVE  AgreeInv'
    <2>1. /\ UNCHANGED <<files, latest, overlapped>> /\ job'[p].pc = "load"
          /\ \A q \in Process \ {p} : job'[q] = job[q]
      BY <1>1, <1>3, OneMoves DEF StartSave, fileVars, historyVars
    <2> QED
      BY <1>1, <2>1, AgreeUnloaded
  <1>4. ASSUME NEW p \in Process, WalkStep(p)
        PROVE  AgreeInv'
    <2>1. /\ UNCHANGED <<files, latest, overlapped>>
          /\ \A q \in Process \ {p} : job'[q] = job[q]
      BY <1>1, <1>4, WalkFrame DEF walkUnchanged, fileVars, historyVars
    <2> QED
      BY <1>1, <1>4, <2>1, WalkUnloaded, AgreeUnloaded
  <1>5. ASSUME NEW p \in Process, Kill(p)
        PROVE  AgreeInv'
    <2>1. /\ UNCHANGED <<files, latest, overlapped>> /\ job'[p].pc = "idle"
          /\ \A q \in Process \ {p} : job'[q] = job[q]
      BY <1>1, <1>5, OneMoves DEF Kill, fileVars, historyVars, Idle
    <2> QED
      BY <1>1, <2>1, AgreeUnloaded
  <1>6. ASSUME NEW p \in Process, Replace(p)
        PROVE  AgreeInv'
    <2>1. /\ WalkOK(job[p]) \/ SaveOK(job[p])
          /\ FilesOK' /\ KeysOK' /\ DOMAIN overlapped' = Names
          /\ \A q \in Process, name \in Names : LoadedOK(q, name)'
      BY <1>6, ReplaceFrame
    <2>2. CursorsAgree' /\ ConfigAgrees'
      BY <1>6, <2>1, ReplaceConfig, ReplaceCursors
    <2> QED
      BY <1>1, <2>1, <2>2 DEF AgreeInv
  <1>7. CASE PowerLoss
    <2>1. /\ \A q \in Process, name \in Names : LoadedOK(q, name)'
          /\ UNCHANGED <<latest, overlapped>>
      BY <1>7 DEF PowerLoss, historyVars, LoadedOK, Holding, Idle
    <2>2. /\ DOMAIN files' = Names /\ files'["cursors"] = files["cursors"]
          /\ files'["config"] = files["config"] \/ files'["config"].state = "torn"
      BY <1>7 DEF PowerLoss, AgreeInv, FilesOK, Names
    <2>3. FilesOK' /\ KeysOK' /\ CursorsAgree' /\ ConfigAgrees'
      BY <2>1, <2>2 DEF AgreeInv, FilesOK, KeysOK, CursorsAgree, ConfigAgrees
    <2> QED
      BY <1>1, <2>1, <2>3 DEF AgreeInv
  <1>8. CASE Flush \/ UNCHANGED vars
    <2>1. UNCHANGED <<files, job, latest, overlapped>>
      BY <1>8 DEF Flush, vars, historyVars
    <2>2. \A q \in Process, name \in Names : LoadedOK(q, name)'
      BY <2>1, StillLoaded DEF AgreeInv
    <2>3. FilesOK' /\ KeysOK' /\ CursorsAgree' /\ ConfigAgrees'
      BY <2>1 DEF AgreeInv, FilesOK, KeysOK, CursorsAgree, ConfigAgrees
    <2> QED
      BY <1>1, <2>1, <2>2, <2>3 DEF AgreeInv
  <1> QED
    BY <1>1, <1>2, <1>3, <1>4, <1>5, <1>6, <1>7, <1>8, LoadAgrees, FailAgrees
       DEF Next, SaveStep

LEMMA InitAgree == Init => AgreeInv
  BY DEF Init, AgreeInv, JobsOK, JobOK, FilesOK, KeysOK, CursorsAgree, ConfigAgrees, Names,
         LoadedOK, Holding, Idle

\* A save is lost only to a process that had loaded the file before it: otherwise the
\* file has for every key what was last saved under it, whichever of any number of
\* processes saved it, whatever else was saved, and whoever was killed meanwhile.
THEOREM NothingSavedIsLost == Spec => []SavedUnlessOverlapped
  <1>1. Init => AgreeInv
    BY InitAgree
  <1>2. AgreeInv /\ [Next]_vars => AgreeInv'
    BY NextAgree
  <1>3. AgreeInv => SavedUnlessOverlapped
    BY AgreeMeansSaved
  <1> QED
    BY <1>1, <1>2, <1>3, PTL DEF Spec

------------------------------------------------------------------------------
(* Placeholders never pass for credentials *)

\* What is not empty was entered under one of the keys.
Entered(blocks, keys) ==
    \A c \in DOMAIN blocks : \A key \in DOMAIN blocks[c].secrets :
        blocks[c].secrets[key] # "" => key \in keys

HeldEntered(p) ==
    Holding(p, "config") =>
        Entered(job[p].loaded, DOMAIN latest \cup DOMAIN job[p].secrets)

EnteredInv ==
    /\ JobsOK /\ FilesOK
    /\ files["config"].state = "whole" => Entered(files["config"].content, DOMAIN latest)
    /\ \A p \in Process : HeldEntered(p)

\* The example is emptied before it is taken over.
LEMMA SeedIsEmpty == Entered(Seeded(Example), {})
  <1>1. \A c \in DOMAIN Seeded(Example) : \A key \in DOMAIN Seeded(Example)[c].secrets :
            Seeded(Example)[c].secrets[key] = ""
    BY DEF Seeded, Example
  <1> QED
    BY <1>1 DEF Entered

\* What a walk adds are the secrets it collected.
LEMMA PersistedEntered ==
  ASSUME NEW blocks, NEW keys, Entered(blocks, keys),
         NEW c, NEW secrets, NEW runtime, NEW enabled
  PROVE  Entered(Persisted(blocks, c, secrets, runtime, enabled), keys \cup DOMAIN secrets)
  <1> DEFINE old == IF c \in DOMAIN blocks THEN blocks[c]
                    ELSE [secrets |-> <<>>, runtime |-> <<>>, enabled |-> FALSE]
             block == [ secrets |-> Over(secrets, old.secrets),
                        runtime |-> Over(runtime, old.runtime), enabled |-> enabled ]
             new == Persisted(blocks, c, secrets, runtime, enabled)
  <1>1. \A key \in DOMAIN old.secrets : old.secrets[key] # "" => key \in keys
    <2>1. CASE c \in DOMAIN blocks
      BY <2>1 DEF Entered
    <2>2. CASE c \notin DOMAIN blocks
      <3>1. old.secrets = <<>> /\ DOMAIN old.secrets = {}
        BY <2>2
      <3> QED
        BY <3>1
    <2> QED
      BY <2>1, <2>2
  <1>2. new = Over(Only(c, block), blocks)
    BY DEF Persisted
  <1>3. block.secrets = Over(secrets, old.secrets)
    OBVIOUS
  <1> HIDE DEF new, block, old
  <1>4. /\ DOMAIN new = {c} \cup DOMAIN blocks /\ new[c] = block
        /\ \A d \in DOMAIN blocks \ {c} : new[d] = blocks[d]
    BY <1>2 DEF Over, Only
  <1>5. /\ DOMAIN block.secrets = DOMAIN secrets \cup DOMAIN old.secrets
        /\ \A key \in DOMAIN old.secrets \ DOMAIN secrets : block.secrets[key] = old.secrets[key]
    BY <1>3 DEF Over
  <1>6. Entered(new, keys \cup DOMAIN secrets)
    <2> SUFFICES ASSUME NEW d \in DOMAIN new, NEW key \in DOMAIN new[d].secrets,
                        new[d].secrets[key] # "", key \notin DOMAIN secrets
                 PROVE  key \in keys
      BY DEF Entered
    <2>1. CASE d = c
      BY <1>1, <1>4, <1>5, <2>1
    <2>2. CASE d # c
      BY <1>4, <2>2 DEF Entered
    <2> QED
      BY <2>1, <2>2
  <1> QED
    BY <1>6 DEF new

\* The moves of one process that leave the files alone.
LEMMA EnteredFrame ==
  ASSUME EnteredInv, JobsOK', NEW p \in Process, UNCHANGED <<files, latest>>,
         \A q \in Process \ {p} : job'[q] = job[q], HeldEntered(p)'
  PROVE  EnteredInv'
  BY DEF EnteredInv, FilesOK, HeldEntered, Holding

LEMMA EnteredUnloaded ==
  ASSUME EnteredInv, JobsOK', NEW p \in Process, UNCHANGED <<files, latest>>,
         \A q \in Process \ {p} : job'[q] = job[q],
         job'[p].pc # "replace"
  PROVE  EnteredInv'
  <1>1. HeldEntered(p)'
    BY DEF HeldEntered, Holding
  <1> QED
    BY <1>1, EnteredFrame

LEMMA LoadEntered ==
  ASSUME EnteredInv, JobsOK', NEW p \in Process, Load(p)
  PROVE  EnteredInv'
  <1>1. /\ \A q \in Process \ {p} : job'[q] = job[q]
        /\ UNCHANGED <<files, latest>>
    BY OneMoves DEF Load, fileVars, historyVars, EnteredInv
  <1>2. CASE Become(p, Idle)
    <2>1. job'[p].pc = "idle"
      BY <1>2, OneMoves DEF EnteredInv, Idle
    <2> QED
      BY <1>1, <2>1, EnteredUnloaded
  <1>3. CASE /\ files[job[p].file].state # "torn"
             /\ Become(p, [job[p] EXCEPT !.pc = "replace", !.loaded = Loaded(p)])
    <2>1. /\ job'[p] = [job[p] EXCEPT !.pc = "replace", !.loaded = Loaded(p)]
          /\ IsJob(job[p])
      BY <1>3, OneMoves, Active DEF EnteredInv, Load
    <2>2. /\ job'[p].loaded = Loaded(p) /\ job'[p].file = job[p].file
          /\ job'[p].secrets = job[p].secrets
      BY <2>1 DEF IsJob
    <2>3. ASSUME job[p].file = "config"
          PROVE  Entered(Loaded(p), DOMAIN latest \cup DOMAIN job[p].secrets)
      <3> DEFINE blocks == IF files["config"].state = "absent" THEN Seeded(Example)
                           ELSE files["config"].content
      <3>1. Entered(blocks, DOMAIN latest)
        BY <1>3, <2>3, SeedIsEmpty DEF EnteredInv, FilesOK, Entered
      <3>2. Loaded(p) = Persisted(blocks, job[p].connector, job[p].secrets,
                                  job[p].runtime, job[p].enabled)
        BY <2>3 DEF Loaded
      <3> HIDE DEF blocks
      <3> QED
        BY <3>1, <3>2, PersistedEntered
    <2>4. HeldEntered(p)'
      BY <1>1, <2>2, <2>3 DEF HeldEntered, Holding
    <2> QED
      BY <1>1, <2>4, EnteredFrame
  <1> QED
    BY <1>2, <1>3, Zenon DEF Load

LEMMA FailEntered ==
  ASSUME EnteredInv, JobsOK', NEW p \in Process, SaveFails(p)
  PROVE  EnteredInv'
  <1>1. /\ job'[p] = Idle /\ \A q \in Process \ {p} : job'[q] = job[q]
        /\ UNCHANGED <<files, latest>>
    BY OneMoves DEF SaveFails, fileVars, historyVars, EnteredInv
  <1> QED
    BY <1>1, EnteredUnloaded DEF Idle

\* At the replacement what was collected becomes what was entered.
LEMMA ReplaceEntered ==
  ASSUME EnteredInv, JobsOK', NEW p \in Process, Replace(p)
  PROVE  EnteredInv'
  <1>1. /\ IsJob(job[p]) /\ (WalkOK(job[p]) \/ SaveOK(job[p]))
        /\ \A q \in Process \ {p} : job'[q] = job[q]
        /\ job'[p] = AfterReplace(p)
    BY OneMoves, Active DEF EnteredInv, Replace
  <1>2. DOMAIN latest' = DOMAIN Saves(p) \cup DOMAIN latest
    BY OverDomain DEF Replace
  <1>3. job'[p].pc \in {"verify", "idle"}
    <2>1. CASE job[p].file = "config" /\ ~job[p].enabled
      BY <1>1, <2>1 DEF AfterReplace, IsJob
    <2>2. CASE ~(job[p].file = "config" /\ ~job[p].enabled)
      BY <1>1, <2>2 DEF AfterReplace, Idle
    <2> QED
      BY <2>1, <2>2
  <1>4. ASSUME NEW q \in Process PROVE HeldEntered(q)'
    BY <1>1, <1>2, <1>3 DEF EnteredInv, HeldEntered, Holding, Entered
  <1>5. FilesOK'
    BY <1>1 DEF Replace, EnteredInv, FilesOK, Names, WalkOK, SaveOK
  <1>6. files'["config"].state = "whole" => Entered(files'["config"].content, DOMAIN latest')
    <2>1. CASE WalkOK(job[p])
      <3>1. /\ files'["config"].content = job[p].loaded /\ Saves(p) = job[p].secrets
            /\ Holding(p, "config")
        BY <2>1 DEF WalkOK, Replace, Saves, EnteredInv, FilesOK, Names, Holding
      <3> QED
        BY <1>2, <3>1 DEF EnteredInv, HeldEntered, Entered
    <2>2. CASE SaveOK(job[p])
      <3>1. files'["config"] = files["config"]
        BY <2>2 DEF SaveOK, Replace, EnteredInv, FilesOK, Names
      <3> QED
        BY <1>2, <3>1 DEF EnteredInv, Entered
    <2> QED
      BY <1>1, <2>1, <2>2
  <1> QED
    BY <1>4, <1>5, <1>6 DEF EnteredInv

LEMMA NextEntered ==
  ASSUME EnteredInv, [Next]_vars
  PROVE  EnteredInv'
  <1>1. JobsOK /\ JobsOK'
    BY JobsKept DEF EnteredInv
  <1>2. ASSUME NEW p \in Process, NEW c, NEW asked, NEW pasted, StartWalk(p, c, asked, pasted)
        PROVE  EnteredInv'
    <2>1. /\ UNCHANGED <<files, latest>> /\ job'[p].pc = "walk"
          /\ \A q \in Process \ {p} : job'[q] = job[q]
      BY <1>1, <1>2, OneMoves DEF StartWalk, fileVars, historyVars
    <2> QED
      BY <1>1, <2>1, EnteredUnloaded
  <1>3. ASSUME NEW p \in Process, NEW r, StartSave(p, r)
        PROVE  EnteredInv'
    <2>1. /\ UNCHANGED <<files, latest>> /\ job'[p].pc = "load"
          /\ \A q \in Process \ {p} : job'[q] = job[q]
      BY <1>1, <1>3, OneMoves DEF StartSave, fileVars, historyVars
    <2> QED
      BY <1>1, <2>1, EnteredUnloaded
  <1>4. ASSUME NEW p \in Process, WalkStep(p)
        PROVE  EnteredInv'
    <2>1. /\ UNCHANGED <<files, latest>>
          /\ \A q \in Process \ {p} : job'[q] = job[q]
      BY <1>1, <1>4, WalkFrame DEF walkUnchanged, fileVars, historyVars
    <2> QED
      BY <1>1, <1>4, <2>1, WalkUnloaded, EnteredUnloaded
  <1>5. ASSUME NEW p \in Process, Kill(p)
        PROVE  EnteredInv'
    <2>1. /\ UNCHANGED <<files, latest>> /\ job'[p].pc = "idle"
          /\ \A q \in Process \ {p} : job'[q] = job[q]
      BY <1>1, <1>5, OneMoves DEF Kill, fileVars, historyVars, Idle
    <2> QED
      BY <1>1, <2>1, EnteredUnloaded
  <1>6. CASE PowerLoss
    <2>1. /\ \A q \in Process : HeldEntered(q)'
          /\ UNCHANGED latest
      BY <1>6 DEF PowerLoss, historyVars, HeldEntered, Holding, Idle
    <2>2. /\ DOMAIN files' = Names /\ files'["cursors"] = files["cursors"]
          /\ files'["config"] = files["config"] \/ files'["config"].state = "torn"
      BY <1>6 DEF PowerLoss, EnteredInv, FilesOK, Names
    <2> QED
      BY <1>1, <2>1, <2>2 DEF EnteredInv, FilesOK
  <1>7. CASE Flush \/ UNCHANGED vars
    <2>1. UNCHANGED <<files, job, latest>>
      BY <1>7 DEF Flush, vars, historyVars
    <2> QED
      BY <1>1, <2>1 DEF EnteredInv, FilesOK, HeldEntered, Holding
  <1> QED
    BY <1>1, <1>2, <1>3, <1>4, <1>5, <1>6, <1>7, LoadEntered, FailEntered, ReplaceEntered
       DEF Next, SaveStep

LEMMA InitEntered == Init => EnteredInv
  BY DEF Init, EnteredInv, JobsOK, JobOK, FilesOK, Names, HeldEntered, Holding, Idle

\* Every credential declared is required.
LEMMA AllRequired ==
  ASSUME NEW c \in DOMAIN Descriptors, NEW cred \in CredentialsOf(c)
  PROVE  cred.required
  <1>1. PICK i \in DOMAIN Descriptors[c].credentials : cred = Descriptors[c].credentials[i]
    BY DEF CredentialsOf, Range
  <1>2. CASE c = "linear"
    BY <1>1, <1>2 DEF Descriptors, Linear, Credential
  <1>3. CASE c \in {"google_drive", "granola"}
    BY <1>1, <1>3 DEF Descriptors, GoogleDrive, Granola, Credential
  <1>4. CASE c \in {"anthropic_admin", "openai_admin", "copilot"}
    BY <1>1, <1>4 DEF Descriptors, AnthropicAdmin, OpenAIAdmin, Copilot, Credential
  <1>5. CASE c \in {"cursor", "devin", "servicenow", "mcp_registry"}
    BY <1>1, <1>5 DEF Descriptors, Cursor, Devin, ServiceNow, McpRegistry, Credential
  <1> QED
    BY <1>2, <1>3, <1>4, <1>5 DEF Descriptors

\* The empty environment has no key.
LEMMA NoEnvironment == \A key : At(<<>>, key) = ""
  <1>1. DOMAIN <<>> = {}
    OBVIOUS
  <1> QED
    BY <1>1 DEF At

\* With nothing in the environment what a key resolves to was entered.
LEMMA ResolvedWasEntered ==
  ASSUME NEW blocks, NEW keys, Entered(blocks, keys), NEW key,
         Resolve(blocks, <<>>, key) # ""
  PROVE  key \in keys
  <1>3. FileSecret(blocks, key) # ""
    BY NoEnvironment DEF Resolve
  <1> DEFINE holders == {c \in DOMAIN blocks : key \in DOMAIN blocks[c].secrets}
             holder == CHOOSE c \in holders : TRUE
  <1>4. holders # {} /\ FileSecret(blocks, key) = blocks[holder].secrets[key]
    BY <1>3 DEF FileSecret
  <1>5. holder \in holders
    BY <1>4
  <1> QED
    BY <1>3, <1>4, <1>5 DEF Entered

\* The gate lets a connector through only with its credentials.
LEMMA GatePasses ==
  ASSUME NEW blocks, NEW c, Gate(blocks, <<>>, c, "active") = "",
         NEW cred \in CredentialsOf(c), Serves(cred, "active")
  PROVE  \/ Resolve(blocks, <<>>, cred.key) # ""
         \/ Durable(blocks, <<>>, cred)
  <1>1. c \in DOMAIN Descriptors /\ Missing(blocks, <<>>, c, "active") = {}
    BY DEF Gate
  <1>2. cred.required
    BY <1>1, AllRequired
  <1> QED
    BY <1>1, <1>2 DEF Missing

LEMMA EnteredMeansRunnable == EnteredInv => RunnableWasEntered
  <1> SUFFICES ASSUME EnteredInv, files["config"].state = "whole",
                      NEW c \in DOMAIN files["config"].content,
                      Gate(files["config"].content, <<>>, c, "active") = "",
                      NEW cred \in CredentialsOf(c), Serves(cred, "active")
               PROVE  \E key \in {cred.key} \cup AuxKeys(cred) : key \in DOMAIN latest
    BY DEF RunnableWasEntered
  <1> DEFINE blocks == files["config"].content
  <1>1. Entered(blocks, DOMAIN latest)
    BY DEF EnteredInv
  <1> HIDE DEF blocks
  <1>2. CASE Resolve(blocks, <<>>, cred.key) # ""
    BY <1>1, <1>2, ResolvedWasEntered
  <1>3. CASE Durable(blocks, <<>>, cred)
    <2> DEFINE key == Append(cred.key, "refresh_token")
    <2>1. key \in AuxKeys(cred)
      BY <1>3 DEF Durable, AuxKeys
    <2>2. Resolve(blocks, <<>>, key) # ""
      BY <1>3, <2>1 DEF Durable
    <2>3. key \in DOMAIN latest
      BY <1>1, <2>2, ResolvedWasEntered
    <2> QED
      BY <2>1, <2>3
  <1>4. \/ Resolve(blocks, <<>>, cred.key) # ""
        \/ Durable(blocks, <<>>, cred)
    BY GatePasses DEF blocks
  <1> QED
    BY <1>2, <1>3, <1>4

\* A connector the gate lets through has, for each credential it needs, a value some
\* walk of the operator saved: the placeholders of the example, which the first walk
\* takes over, are not among them (seeded_document, assert_runnable).
THEOREM PlaceholdersNeverPass == Spec => []RunnableWasEntered
  <1>1. Init => EnteredInv
    BY InitEntered
  <1>2. EnteredInv /\ [Next]_vars => EnteredInv'
    BY NextEntered
  <1>3. EnteredInv => RunnableWasEntered
    BY EnteredMeansRunnable
  <1> QED
    BY <1>1, <1>2, <1>3, PTL DEF Spec

------------------------------------------------------------------------------
(* What a provider accepts is told by a connector's own block *)

\* The secret of a key is in the block the key names, or nowhere.
LEMMA SecretInOwnBlock ==
  ASSUME NEW blocks, Owned(blocks), NEW key
  PROVE  FileSecret(blocks, key) =
            IF key[1] \in DOMAIN blocks /\ key \in DOMAIN blocks[key[1]].secrets
            THEN blocks[key[1]].secrets[key] ELSE ""
  <1> DEFINE holders == {d \in DOMAIN blocks : key \in DOMAIN blocks[d].secrets}
  <1>1. \A d \in holders : d = key[1]
    BY KeyOwner DEF Owned
  <1>2. CASE holders = {}
    BY <1>2 DEF FileSecret
  <1>3. CASE holders # {}
    <2>1. key[1] \in holders /\ (CHOOSE d \in holders : TRUE) = key[1]
      BY <1>1, <1>3
    <2> QED
      BY <1>3, <2>1 DEF FileSecret
  <1> QED
    BY <1>2, <1>3

\* Two configurations with the same block of a connector.
SameBlock(blocks, others, c) ==
    /\ Owned(blocks) /\ Owned(others)
    /\ c \in DOMAIN blocks /\ c \in DOMAIN others /\ c \in DOMAIN Descriptors
    /\ blocks[c].secrets = others[c].secrets
    /\ blocks[c].runtime = others[c].runtime

\* Two environments that set the same of what a connector's run looks up: its keys, and
\* those of nobody.
SameSettings(env, seen, c) ==
    \A key : key[1] = c \/ key[1] \notin DOMAIN Descriptors => At(env, key) = At(seen, key)

LEMMA SameSecret ==
  ASSUME NEW blocks, NEW others, NEW c, SameBlock(blocks, others, c),
         NEW env, NEW seen, SameSettings(env, seen, c), NEW key,
         key[1] = c \/ key[1] \notin DOMAIN Descriptors
  PROVE  Resolve(blocks, env, key) = Resolve(others, seen, key)
  <1>1. FileSecret(blocks, key) = FileSecret(others, key)
    <2>1. DOMAIN blocks \subseteq DOMAIN Descriptors /\ DOMAIN others \subseteq DOMAIN Descriptors
      BY DEF SameBlock, Owned
    <2>2. /\ FileSecret(blocks, key) = IF key[1] \in DOMAIN blocks /\ key \in DOMAIN blocks[key[1]].secrets
                                       THEN blocks[key[1]].secrets[key] ELSE ""
          /\ FileSecret(others, key) = IF key[1] \in DOMAIN others /\ key \in DOMAIN others[key[1]].secrets
                                       THEN others[key[1]].secrets[key] ELSE ""
      BY SecretInOwnBlock DEF SameBlock
    <2>3. CASE key[1] = c
      <3>1. /\ key[1] \in DOMAIN blocks /\ key[1] \in DOMAIN others
            /\ blocks[key[1]].secrets = others[key[1]].secrets
        BY <2>3 DEF SameBlock
      <3> DEFINE own == blocks[key[1]].secrets
                 theirs == others[key[1]].secrets
      <3>2. /\ FileSecret(blocks, key) = IF key \in DOMAIN own THEN own[key] ELSE ""
            /\ FileSecret(others, key) = IF key \in DOMAIN theirs THEN theirs[key] ELSE ""
        BY <2>2, <3>1
      <3>3. own = theirs
        BY <3>1
      <3> HIDE DEF own, theirs
      <3>4. CASE key \in DOMAIN own
        BY <3>2, <3>3, <3>4
      <3>5. CASE key \notin DOMAIN own
        BY <3>2, <3>3, <3>5
      <3> QED
        BY <3>4, <3>5
    <2>4. CASE key[1] \notin DOMAIN Descriptors
      BY <2>1, <2>2, <2>4
    <2> QED
      BY <2>3, <2>4
  <1>2. At(env, key) = At(seen, key)
    BY DEF SameSettings
  <1>3. /\ At(env, key) # "" => At(env, key) = env[key]
        /\ At(seen, key) # "" => At(seen, key) = seen[key]
    BY DEF At
  <1> QED
    BY <1>1, <1>2, <1>3 DEF Resolve

LEMMA SameDurable ==
  ASSUME NEW blocks, NEW others, NEW c, SameBlock(blocks, others, c),
         NEW env, NEW seen, SameSettings(env, seen, c), NEW cred \in CredentialsOf(c)
  PROVE  /\ Resolve(blocks, env, cred.key) = Resolve(others, seen, cred.key)
         /\ \A key \in AuxKeys(cred) : Resolve(blocks, env, key) = Resolve(others, seen, key)
         /\ Durable(blocks, env, cred) <=> Durable(others, seen, cred)
  <1>1. \A key \in {cred.key} \cup AuxKeys(cred) : key[1] = c
    BY KeyOwner DEF KeysOf, SameBlock
  <1>2. \A key \in {cred.key} \cup AuxKeys(cred) :
            Resolve(blocks, env, key) = Resolve(others, seen, key)
    BY <1>1, SameSecret
  <1> QED
    BY <1>2 DEF Durable

LEMMA SameGate ==
  ASSUME NEW blocks, NEW others, NEW c, SameBlock(blocks, others, c),
         NEW env, NEW seen, SameSettings(env, seen, c)
  PROVE  Gate(blocks, env, c, "active") = Gate(others, seen, c, "active")
  <1>1. ASSUME NEW cred \in CredentialsOf(c)
        PROVE  /\ Resolve(blocks, env, cred.key) = Resolve(others, seen, cred.key)
               /\ Durable(blocks, env, cred) <=> Durable(others, seen, cred)
    BY SameDurable
  <1>2. Missing(blocks, env, c, "active") = Missing(others, seen, c, "active")
    BY <1>1 DEF Missing
  <1> QED
    BY <1>2 DEF Gate, SameBlock

\* Fewer blocks have no more triples to refuse.
LEMMA SamePoison ==
  ASSUME NEW blocks, NEW others, NEW c, SameBlock(blocks, others, c), DOMAIN others = {c},
         NEW env, NEW seen, SameSettings(env, seen, c), ~Poisoned(blocks, env)
  PROVE  ~Poisoned(others, seen)
  <1>1. c \in DOMAIN blocks \cap DOMAIN Descriptors
    BY DEF SameBlock
  <1>2. ASSUME NEW cred \in CredentialsOf(c), Durable(others, seen, cred), NEW key \in AuxKeys(cred)
        PROVE  Resolve(others, seen, key) # "malformed"
    BY <1>1, <1>2, SameDurable DEF Poisoned
  <1> QED
    BY <1>2 DEF Poisoned

\* A builder asks for the credential of its own connector, or for none.
LEMMA BuilderKeys ==
  ASSUME NEW c \in DOMAIN Builders
  PROVE  Builders[c].key \in {<<c>>, <<>>}
  <1>1. CASE c \in {"linear", "granola", "anthropic_admin", "openai_admin"}
    BY <1>1 DEF Builders, Builder
  <1>2. CASE c \in {"copilot", "cursor", "devin", "servicenow", "mcp_registry"}
    BY <1>2 DEF Builders, Builder
  <1> QED
    BY <1>1, <1>2 DEF Builders

LEMMA SameResolved ==
  ASSUME NEW blocks, NEW others, NEW c, SameBlock(blocks, others, c),
         NEW env, NEW seen, SameSettings(env, seen, c),
         NEW key \in {<<c>>, <<>>}, NEW answer
  PROVE  ResolvedSecret(blocks, env, key, answer) = ResolvedSecret(others, seen, key, answer)
  <1>1. CASE key = <<>>
    BY <1>1 DEF ResolvedSecret
  <1>2. CASE key = <<c>>
    <2>1. key[1] = c /\ key # <<>>
      BY <1>2
    <2>2. ASSUME NEW d \in DOMAIN Descriptors, NEW cred \in CredentialsOf(d), cred.key = key
          PROVE  d = c
      <3>1. key \in KeysOf(d)
        BY <2>2 DEF KeysOf
      <3> QED
        BY <2>1, <3>1, KeyOwner
    <2>3. Resolve(blocks, env, key) = Resolve(others, seen, key)
      BY <2>1, SameSecret
    <2>4. (\E d \in DOMAIN blocks \cap DOMAIN Descriptors :
               \E cred \in CredentialsOf(d) : cred.key = key /\ Durable(blocks, env, cred))
          <=> (\E d \in DOMAIN others \cap DOMAIN Descriptors :
               \E cred \in CredentialsOf(d) : cred.key = key /\ Durable(others, seen, cred))
      BY <2>2, SameDurable DEF SameBlock
    <2> QED
      BY <2>1, <2>3, <2>4 DEF ResolvedSecret
  <1> QED
    BY <1>1, <1>2

LEMMA SameAccepts ==
  ASSUME NEW blocks, NEW others, NEW c \in Runners, SameBlock(blocks, others, c),
         DOMAIN others = {c}, NEW env, NEW seen, SameSettings(env, seen, c),
         Accepts(blocks, env, c)
  PROVE  Accepts(others, seen, c)
  <1> DEFINE key == IF c = "google_drive" THEN <<c>> ELSE Builders[c].key
             answered(refresh) ==
                [ raises |-> FALSE, status |-> IF refresh \in Good THEN 200 ELSE 400,
                  oversized |-> FALSE, json |-> TRUE, token |-> "access", ttl |-> 0 ]
             asked == Append(key, "refresh_token")
             a == answered(Resolve(blocks, env, asked))
             b == answered(Resolve(others, seen, asked))
  <1>1. key \in {<<c>>, <<>>}
    BY BuilderKeys DEF Runners
  <1>2. asked[1] = c \/ asked[1] \notin DOMAIN Descriptors
    <2> HIDE DEF key
    <2>1. Append(<<c>>, "refresh_token")[1] = c
      OBVIOUS
    <2>2. Append(<<>>, "refresh_token")[1] = "refresh_token"
      OBVIOUS
    <2>3. "refresh_token" \notin DOMAIN Descriptors
      BY DEF Descriptors
    <2> QED
      BY <1>1, <2>1, <2>2, <2>3
  <1>3. /\ Accepts(blocks, env, c) <=>
              /\ RunFailure(c, blocks, env, "", a) = ""
              /\ ResolvedSecret(blocks, env, key, a).secret \in Good \cup {"access", "public"}
        /\ Accepts(others, seen, c) <=>
              /\ RunFailure(c, others, seen, "", b) = ""
              /\ ResolvedSecret(others, seen, key, b).secret \in Good \cup {"access", "public"}
    BY DEF Accepts
  <1> HIDE DEF asked
  <1>4. Resolve(blocks, env, asked) = Resolve(others, seen, asked)
    BY <1>2, SameSecret
  <1>5. a = b
    BY <1>4
  <1> HIDE DEF a, b
  <1>6. ResolvedSecret(blocks, env, key, a) = ResolvedSecret(others, seen, key, a)
    BY <1>1, SameResolved
  <1>7. Gate(blocks, env, c, "active") = Gate(others, seen, c, "active")
    BY SameGate
  <1>8. RunFailure(c, blocks, env, "", a) = "" => RunFailure(c, others, seen, "", a) = ""
    <2>1. Poisoned(others, seen) => Poisoned(blocks, env)
      BY SamePoison
    <2>2. blocks[c].runtime = others[c].runtime
      BY DEF SameBlock
    <2>3. "triple_contains_control_char" # ""
      OBVIOUS
    <2> QED
      BY <1>6, <1>7, <2>1, <2>2, <2>3 DEF RunFailure
  <1> QED
    BY <1>3, <1>5, <1>6, <1>8

\* What a connector's own block gets the provider to accept.
Accepted(blocks, env, c) == Accepts(Own(blocks, c), env, c)

LEMMA OwnBlock ==
  ASSUME NEW blocks, NEW c \in DOMAIN Descriptors, c \in DOMAIN blocks, Owned(blocks)
  PROVE  DOMAIN Own(blocks, c) = {c} /\ Own(blocks, c)[c] = blocks[c] /\ Owned(Own(blocks, c))
  BY DEF Own, Only, Owned

LEMMA SameEnvironment == \A env, c : SameSettings(env, env, c)
  BY DEF SameSettings

\* What the whole file runs, the connector's own block of it runs.
LEMMA AcceptsMeansAccepted ==
  ASSUME NEW blocks, NEW env, NEW c \in Runners, Owned(blocks), Accepts(blocks, env, c)
  PROVE  Accepted(blocks, env, c)
  <1>1. c \in DOMAIN blocks /\ c \in DOMAIN Descriptors
    <2>1. PICK answer : RunFailure(c, blocks, env, "", answer) = ""
      BY Zenon DEF Accepts
    <2>2. Gate(blocks, env, c, "active") = ""
      BY <2>1 DEF RunFailure
    <2> QED
      BY <2>2 DEF Gate
  <1>2. SameBlock(blocks, Own(blocks, c), c) /\ DOMAIN Own(blocks, c) = {c}
    BY <1>1, OwnBlock DEF SameBlock
  <1> QED
    BY <1>2, SameAccepts, SameEnvironment DEF Accepted

\* It is told by the block's secrets and runtime values, and by what is set of its keys.
LEMMA SameAccepted ==
  ASSUME NEW blocks, NEW others, NEW c \in Runners, SameBlock(blocks, others, c),
         NEW env, NEW seen, SameSettings(env, seen, c), Accepted(blocks, env, c)
  PROVE  Accepted(others, seen, c)
  <1>1. SameBlock(Own(blocks, c), Own(others, c), c) /\ DOMAIN Own(others, c) = {c}
    BY OwnBlock DEF SameBlock
  <1> QED
    BY <1>1, SameAccepts DEF Accepted

------------------------------------------------------------------------------
(* A connector that is enabled was verified *)

Steps(c) == Len(Descriptors[c].instructions)

\* A walk comes to "verify" last; what it saves before that is disabled, and what it
\* saves after that is enabled.
InOrder(j) ==
    LET n == Steps(j.connector) IN
    /\ j.at \in 1..(n + 1)
    /\ j.pc = "verify" => j.at = n
    /\ j.pc \in {"load", "replace"} => j.at = IF j.enabled THEN n + 1 ELSE n

\* It has the provider's answer; or at least its secrets are in the file.
IsWalk(p) == job[p].pc # "idle" /\ job[p].file = "config"
Answered(p) == IsWalk(p) /\ Verifiable(p) /\ job[p].at > Steps(job[p].connector)
Stored(p) == IsWalk(p) /\ (job[p].pc = "verify" \/ Answered(p))

\* Nobody else was at the connector, nor had the file loaded when it was replaced.
Undisturbed(c) ==
    c \notin crowded /\ ~overlapped["config"] /\ files["config"].state = "whole"

\* Saving these values again would not change the block.
HasMerged(blocks, c, secrets, runtime) ==
    /\ c \in DOMAIN blocks
    /\ Over(secrets, blocks[c].secrets) = blocks[c].secrets
    /\ Over(runtime, blocks[c].runtime) = blocks[c].runtime

WalkVerified(p) ==
    /\ IsWalk(p) => InOrder(job[p])
    /\ Stored(p) =>
        /\ files["config"].state # "absent"
        /\ Undisturbed(job[p].connector) =>
            HasMerged(files["config"].content, job[p].connector, job[p].secrets, job[p].runtime)
    /\ Answered(p) /\ Undisturbed(job[p].connector) =>
            Accepted(files["config"].content, Environment[p], job[p].connector)

\* Two walks at one connector have been noticed.
Alone == \A p, q \in Process : \A c \in Connector \ crowded :
            Walking(p, c) /\ Walking(q, c) => p = q

ConnectorVerified(c) ==
    \A p \in enabler[c] :
        /\ p \in Process /\ files["config"].state # "absent"
        /\ Undisturbed(c) /\ c \in Runners =>
            /\ c \in DOMAIN files["config"].content
            /\ Accepted(files["config"].content, Environment[p], c)

VerifiedInv ==
    /\ AgreeInv /\ Alone /\ DOMAIN enabler = Connector
    /\ \A p \in Process : WalkVerified(p)
    /\ \A c \in Connector : ConnectorVerified(c)

\* Every descriptor's instructions end in its only "verify".
LEMMA VerifyIsLast ==
  ASSUME NEW c \in DOMAIN Descriptors
  PROVE  /\ Steps(c) \in Nat \ {0}
         /\ \A i \in 1..Steps(c) : Descriptors[c].instructions[i] = "verify" <=> i = Steps(c)
  <1> DEFINE told == <<"open_url", "paste_secret", "verify">>
             pinned == <<"open_url", "paste_secret", "configure", "verify">>
             consented == <<"oauth_consent", "configure", "verify">>
             public == <<"open_url", "verify">>
             both == <<"open_url", "paste_secret", "register_webhook", "paste_secret", "verify">>
             ins == Descriptors[c].instructions
  <1>1. ins \in {told, pinned, consented, public, both}
    <2>1. CASE c \in {"linear", "google_drive"}
      BY <2>1 DEF Descriptors, Linear, GoogleDrive
    <2>2. CASE c \in {"granola", "anthropic_admin", "openai_admin"}
      BY <2>2 DEF Descriptors, Granola, AnthropicAdmin, OpenAIAdmin
    <2>3. CASE c \in {"copilot", "cursor", "devin"}
      BY <2>3 DEF Descriptors, Copilot, Cursor, Devin
    <2>4. CASE c \in {"servicenow", "mcp_registry"}
      BY <2>4 DEF Descriptors, ServiceNow, McpRegistry
    <2> QED
      BY <2>1, <2>2, <2>3, <2>4 DEF Descriptors
  <1> HIDE DEF ins
  <1>2. /\ Len(ins) \in Nat \ {0}
        /\ \A i \in 1..Len(ins) : ins[i] = "verify" <=> i = Len(ins)
    <2>1. CASE ins = told
      BY <2>1
    <2>2. CASE ins = pinned
      BY <2>2
    <2>3. CASE ins = consented
      BY <2>3
    <2>4. CASE ins = public
      BY <2>4
    <2>5. CASE ins = both
      BY <2>5
    <2> QED
      BY <1>1, <2>1, <2>2, <2>3, <2>4, <2>5
  <1> QED
    BY <1>2 DEF Steps, ins

\* What merging a connector's values makes of the blocks.
LEMMA PersistedBlock ==
  ASSUME NEW blocks, NEW c, NEW secrets, NEW runtime, NEW enabled
  PROVE  /\ c \in DOMAIN Persisted(blocks, c, secrets, runtime, enabled)
         /\ \A d \in DOMAIN blocks : d # c =>
                /\ d \in DOMAIN Persisted(blocks, c, secrets, runtime, enabled)
                /\ Persisted(blocks, c, secrets, runtime, enabled)[d] = blocks[d]
         /\ Persisted(blocks, c, secrets, runtime, enabled)[c].secrets =
                Over(secrets, IF c \in DOMAIN blocks THEN blocks[c].secrets ELSE <<>>)
         /\ Persisted(blocks, c, secrets, runtime, enabled)[c].runtime =
                Over(runtime, IF c \in DOMAIN blocks THEN blocks[c].runtime ELSE <<>>)
  <1> DEFINE old == IF c \in DOMAIN blocks THEN blocks[c]
                    ELSE [secrets |-> <<>>, runtime |-> <<>>, enabled |-> FALSE]
             block == [ secrets |-> Over(secrets, old.secrets),
                        runtime |-> Over(runtime, old.runtime), enabled |-> enabled ]
             new == Persisted(blocks, c, secrets, runtime, enabled)
  <1>1. new = Over(Only(c, block), blocks)
    BY DEF Persisted
  <1>2. block.secrets = Over(secrets, old.secrets) /\ block.runtime = Over(runtime, old.runtime)
    OBVIOUS
  <1>3. /\ old.secrets = IF c \in DOMAIN blocks THEN blocks[c].secrets ELSE <<>>
        /\ old.runtime = IF c \in DOMAIN blocks THEN blocks[c].runtime ELSE <<>>
    OBVIOUS
  <1> HIDE DEF new, block, old
  <1>4. /\ DOMAIN new = {c} \cup DOMAIN blocks /\ new[c] = block
        /\ \A d \in DOMAIN blocks \ {c} : new[d] = blocks[d]
    BY <1>1 DEF Over, Only
  <1> QED
    BY <1>2, <1>3, <1>4 DEF new

\* Merging the same values twice is merging them once.
LEMMA OverTwice ==
  ASSUME NEW f, NEW g
  PROVE  Over(f, Over(f, g)) = Over(f, g)
  BY DEF Over

LEMMA PersistedMerges ==
  ASSUME NEW blocks, NEW c, NEW secrets, NEW runtime, NEW enabled
  PROVE  HasMerged(Persisted(blocks, c, secrets, runtime, enabled), c, secrets, runtime)
  <1> DEFINE new == Persisted(blocks, c, secrets, runtime, enabled)
             s == IF c \in DOMAIN blocks THEN blocks[c].secrets ELSE <<>>
             r == IF c \in DOMAIN blocks THEN blocks[c].runtime ELSE <<>>
  <1>1. c \in DOMAIN new /\ new[c].secrets = Over(secrets, s) /\ new[c].runtime = Over(runtime, r)
    BY PersistedBlock
  <1> HIDE DEF new, s, r
  <1>2. /\ Over(secrets, new[c].secrets) = new[c].secrets
        /\ Over(runtime, new[c].runtime) = new[c].runtime
    BY <1>1, OverTwice
  <1> QED
    BY <1>1, <1>2 DEF HasMerged, new

\* The save that enables a connector leaves it what the first save gave it.
LEMMA PersistedAgain ==
  ASSUME NEW blocks, NEW c, NEW secrets, NEW runtime, NEW enabled,
         HasMerged(blocks, c, secrets, runtime)
  PROVE  /\ Persisted(blocks, c, secrets, runtime, enabled)[c].secrets = blocks[c].secrets
         /\ Persisted(blocks, c, secrets, runtime, enabled)[c].runtime = blocks[c].runtime
  BY PersistedBlock DEF HasMerged

\* What a process goes on with, at the connector it was at.
SameWalk(p) ==
    /\ job'[p].file = job[p].file /\ job'[p].connector = job[p].connector
    /\ job'[p].modes = job[p].modes

\* The provider's answer is a good one.
Approved(p) ==
    /\ job[p].pc = "verify" /\ files["config"].state = "whole"
    /\ Accepts(files["config"].content, Environment[p], job[p].connector)

\* A walk goes through its instructions in order, and past "verify" only with the
\* answer; from then on it collects nothing.
LEMMA WalkGoesOn ==
  ASSUME JobsOK, NEW p \in Process, WalkOK(job[p]), IsJob(job[p]), InOrder(job[p]),
         WalkStep(p)
  PROVE  \/ job'[p] = Idle
         \/ /\ SameWalk(p) /\ InOrder(job'[p]) /\ job'[p].pc \in {"walk", "load"}
            /\ \/ ~Answered(p)'
               \/ /\ Answered(p) \/ Approved(p)
                  /\ job'[p].secrets = job[p].secrets /\ job'[p].runtime = job[p].runtime
  <1> DEFINE c == job[p].connector
             n == Steps(c)
  <1>1. DOMAIN job = Process /\ job[p].file = "config" /\ c \in DOMAIN Descriptors
    BY OperatorAssumption DEF JobsOK, WalkOK
  <1>2. /\ n \in Nat \ {0}
        /\ \A i \in 1..n : Instructions(p)[i] = "verify" <=> i = n
        /\ n = Len(Instructions(p))
    BY <1>1, VerifyIsLast DEF Instructions, Steps
  <1>3. job[p].at \in 1..(n + 1)
    BY DEF InOrder
  \* An instruction that is not the last brings the walk to the next.
  <1>4. ASSUME job[p].pc = "walk", job[p].at <= n, Instructions(p)[job[p].at] # "verify",
               SameWalk(p), job'[p].pc = "walk", job'[p].at = job[p].at + 1
        PROVE  InOrder(job'[p]) /\ ~Answered(p)'
    <2>1. job[p].at < n
      BY <1>2, <1>3, <1>4
    <2>2. job'[p].at \in 1..n /\ Steps(job'[p].connector) = n
      BY <1>2, <1>3, <1>4, <2>1 DEF SameWalk
    <2> QED
      BY <1>2, <1>4, <2>2 DEF InOrder, Answered
  <1>5. ASSUME NEW type, NEW renewed, job[p].pc = "walk", job[p].at <= n,
               Instructions(p)[job[p].at] # "verify", Take(p, type, renewed)
        PROVE  SameWalk(p) /\ InOrder(job'[p]) /\ job'[p].pc = "walk" /\ ~Answered(p)'
    <2>1. SameWalk(p) /\ job'[p].pc = "walk" /\ job'[p].at = job[p].at + 1
      BY <1>1, <1>5 DEF Take, Become, IsJob, SameWalk
    <2> QED
      BY <1>4, <1>5, <2>1
  <1>6. CASE Inform(p) \/ Configure(p)
    <2>1. /\ job[p].pc = "walk" /\ job[p].at <= n /\ Instructions(p)[job[p].at] # "verify"
      BY <1>2, <1>6 DEF Inform, Configure, AtInstruction
    <2>2. SameWalk(p) /\ job'[p].pc = "walk" /\ job'[p].at = job[p].at + 1
      BY <1>1, <1>6, <2>1 DEF Inform, Configure, Become, IsJob, SameWalk
    <2> QED
      BY <1>4, <2>1, <2>2
  <1>7. CASE PasteSecret(p)
    BY <1>2, <1>5, <1>7 DEF PasteSecret, AtInstruction
  <1>8. CASE OAuthConsent(p)
    <2>1. CASE Become(p, Idle)
      BY <2>1, OneMoves
    <2>2. CASE Take(p, "oauth2", ~job[p].pasted)
      BY <1>2, <1>5, <1>8, <2>2 DEF OAuthConsent, AtInstruction
    <2> QED
      BY <1>8, <2>1, <2>2 DEF OAuthConsent
  <1>9. CASE Verify(p)
    <2>1. job[p].pc = "walk" /\ job[p].at = n
      BY <1>2, <1>3, <1>9 DEF Verify, AtInstruction
    <2>2. CASE Verifiable(p)
      <3>1. /\ SameWalk(p) /\ job'[p].pc = "load" /\ job'[p].enabled = FALSE
            /\ job'[p].at = n
        BY <1>1, <1>9, <2>1, <2>2 DEF Verify, Become, IsJob, SameWalk
      <3>2. Steps(job'[p].connector) = n
        BY <3>1 DEF SameWalk
      <3> QED
        BY <1>2, <3>1, <3>2 DEF InOrder, Answered
    <2>3. CASE ~Verifiable(p)
      <3>1. SameWalk(p) /\ job'[p].pc = "walk" /\ job'[p].at = n + 1
        BY <1>1, <1>9, <2>1, <2>3 DEF Verify, Become, IsJob, SameWalk
      <3>2. Steps(job'[p].connector) = n
        BY <3>1 DEF SameWalk
      <3>3. ~Verifiable(p)'
        BY <2>3, <3>1 DEF Verifiable, SameWalk
      <3> QED
        BY <1>2, <3>1, <3>2, <3>3 DEF InOrder, Answered
    <2> QED
      BY <2>2, <2>3
  <1>10. CASE RunVerify(p)
    <2>1. job[p].pc = "verify" /\ job[p].at = n
      BY <1>10 DEF RunVerify, InOrder
    <2>2. CASE Become(p, Idle)
      BY <2>2, OneMoves
    <2>3. CASE /\ files["config"].state = "whole"
               /\ Accepts(files["config"].content, Environment[p], c)
               /\ Become(p, [job[p] EXCEPT !.pc = "walk", !.at = @ + 1])
      <3>1. /\ SameWalk(p) /\ job'[p].pc = "walk" /\ job'[p].at = n + 1
            /\ job'[p].secrets = job[p].secrets /\ job'[p].runtime = job[p].runtime
        BY <1>1, <2>1, <2>3 DEF Become, IsJob, SameWalk
      <3>2. Steps(job'[p].connector) = n
        BY <3>1 DEF SameWalk
      <3> QED
        BY <1>2, <2>1, <2>3, <3>1, <3>2 DEF InOrder, Approved
    <2> QED
      BY <1>10, <2>2, <2>3 DEF RunVerify
  <1>11. CASE Finish(p)
    <2>1. job[p].pc = "walk" /\ job[p].at = n + 1
      BY <1>2, <1>3, <1>11 DEF Finish
    <2>2. /\ SameWalk(p) /\ job'[p].pc = "load" /\ job'[p].enabled = TRUE
          /\ job'[p].at = n + 1
          /\ job'[p].secrets = job[p].secrets /\ job'[p].runtime = job[p].runtime
      BY <1>1, <1>11, <2>1 DEF Finish, Become, IsJob, SameWalk
    <2>3. Steps(job'[p].connector) = n
      BY <2>2 DEF SameWalk
    <2>4. Answered(p)' => Answered(p)
      BY <1>1, <2>1, <2>2 DEF Answered, IsWalk, Verifiable, SameWalk
    <2> QED
      BY <1>2, <2>2, <2>3, <2>4 DEF InOrder
  <1> QED
    BY <1>6, <1>7, <1>8, <1>9, <1>10, <1>11 DEF WalkStep

\* A step of one process that leaves the files alone, and its own connector's word.
LEMMA VerifiedFrame ==
  ASSUME VerifiedInv, AgreeInv', NEW p \in Process,
         files'["config"] = files["config"], overlapped'["config"] = overlapped["config"],
         enabler' = enabler, crowded \subseteq crowded',
         \A q \in Process \ {p} : job'[q] = job[q],
         WalkVerified(p)', Alone'
  PROVE  VerifiedInv'
  <1>1. \A c : Undisturbed(c)' => Undisturbed(c)
    BY DEF Undisturbed
  <1>2. ASSUME NEW q \in Process \ {p} PROVE WalkVerified(q)'
    <2>1. WalkVerified(q) /\ job'[q] = job[q] /\ files'["config"] = files["config"]
      BY DEF VerifiedInv
    <2>2. /\ IsWalk(q)' <=> IsWalk(q)
          /\ Stored(q)' <=> Stored(q)
          /\ Answered(q)' <=> Answered(q)
      BY <2>1 DEF IsWalk, Stored, Answered, Verifiable
    <2> QED
      BY <1>1, <2>1, <2>2 DEF WalkVerified
  <1>3. ASSUME NEW c \in Connector PROVE ConnectorVerified(c)'
    BY <1>1 DEF VerifiedInv, ConnectorVerified
  <1>4. DOMAIN enabler' = Connector
    BY DEF VerifiedInv
  <1> QED
    BY <1>2, <1>3, <1>4 DEF VerifiedInv

\* A process that stays at its connector, or leaves it, does not crowd another.
LEMMA StillAlone ==
  ASSUME Alone, NEW p \in Process, crowded \subseteq crowded',
         \A q \in Process \ {p} : job'[q] = job[q],
         \A c \in Connector : Walking(p, c)' => Walking(p, c)
  PROVE  Alone'
  <1>1. ASSUME NEW q \in Process, NEW c \in Connector, Walking(q, c)' PROVE Walking(q, c)
    <2>1. CASE q = p
      BY <1>1, <2>1
    <2>2. CASE q # p
      BY <1>1, <2>2 DEF Walking
    <2> QED
      BY <2>1, <2>2
  <1> QED
    BY <1>1 DEF Alone

\* One that ends, or saves a cursor, has nothing to show.
LEMMA VerifiedGone ==
  ASSUME VerifiedInv, AgreeInv', NEW p \in Process,
         files'["config"] = files["config"], overlapped'["config"] = overlapped["config"],
         enabler' = enabler, crowded' = crowded,
         \A q \in Process \ {p} : job'[q] = job[q],
         job'[p].pc = "idle" \/ job'[p].file = "cursors"
  PROVE  VerifiedInv'
  <1>1. WalkVerified(p)'
    BY DEF WalkVerified, IsWalk, Stored, Answered
  <1>2. Alone'
    BY StillAlone DEF VerifiedInv, Walking
  <1> QED
    BY <1>1, <1>2, VerifiedFrame

\* A walk begins at its first instruction, and crowds whoever is at its connector.
LEMMA StartVerified ==
  ASSUME VerifiedInv, AgreeInv', NEW p \in Process, NEW c \in Connector, NEW asked, NEW pasted,
         StartWalk(p, c, asked, pasted)
  PROVE  VerifiedInv'
  <1> DEFINE modes == SelectedModes(c, asked)
             started == [ pc |-> "walk", file |-> "config", connector |-> c, modes |-> modes,
                          pasted |-> pasted, at |-> 1, queue |-> Queue(c, modes),
                          secrets |-> <<>>, runtime |-> <<>>, enabled |-> FALSE, loaded |-> <<>> ]
  <1>1. /\ job[p].pc = "idle" /\ JobsOK
        /\ crowded' = crowded \cup {d \in {c} : \E q \in Process : Walking(q, d)}
        /\ UNCHANGED <<files, overlapped, enabler>>
    BY DEF StartWalk, fileVars, historyVars, VerifiedInv, AgreeInv
  <1>2. Become(p, started)
    BY DEF StartWalk
  <1>3. job'[p] = started /\ \A q \in Process \ {p} : job'[q] = job[q]
    BY <1>1, <1>2, OneMoves
  <1>4. /\ job'[p].pc = "walk" /\ job'[p].file = "config" /\ job'[p].connector = c
        /\ job'[p].at = 1
    BY <1>3
  <1>5. Steps(c) \in Nat \ {0}
    BY VerifyIsLast, OperatorAssumption
  <1>6. WalkVerified(p)'
    BY <1>4, <1>5 DEF WalkVerified, InOrder, Stored, Answered
  <1>7. Alone'
    <2> SUFFICES ASSUME NEW q \in Process, NEW r \in Process, NEW d \in Connector \ crowded',
                        Walking(q, d)', Walking(r, d)'
                 PROVE  q = r
      BY DEF Alone
    <2>1. \A o \in Process \ {p} : Walking(o, d)' => Walking(o, d)
      BY <1>3 DEF Walking
    <2>2. Walking(p, d)' => d = c
      BY <1>4 DEF Walking
    <2>3. d = c => \A o \in Process : ~Walking(o, d)
      BY <1>1
    <2>4. d \notin crowded
      BY <1>1
    <2> QED
      BY <2>1, <2>2, <2>3, <2>4 DEF VerifiedInv, Alone
  <1> QED
    BY <1>1, <1>3, <1>6, <1>7, VerifiedFrame

\* A walk that goes on has the answer when "verify" is behind it.
LEMMA WalkStepVerified ==
  ASSUME VerifiedInv, AgreeInv', NEW p \in Process, WalkStep(p)
  PROVE  VerifiedInv'
  <1>1. /\ JobsOK /\ job[p].pc \in {"walk", "verify"} /\ IsJob(job[p]) /\ WalkOK(job[p])
        /\ \A q \in Process \ {p} : job'[q] = job[q]
        /\ UNCHANGED <<files, overlapped, enabler, crowded>>
    BY WalkFrame, Walks DEF VerifiedInv, AgreeInv, walkUnchanged, fileVars, historyVars
  <1>2. IsWalk(p) /\ InOrder(job[p])
    BY <1>1 DEF IsWalk, WalkOK, VerifiedInv, WalkVerified
  <1>3. CASE job'[p] = Idle
    BY <1>1, <1>3, VerifiedGone DEF Idle
  <1>4. CASE /\ SameWalk(p) /\ InOrder(job'[p]) /\ job'[p].pc \in {"walk", "load"}
             /\ \/ ~Answered(p)'
                \/ /\ Answered(p) \/ Approved(p)
                   /\ job'[p].secrets = job[p].secrets /\ job'[p].runtime = job[p].runtime
    <2>1. Alone'
      BY <1>1, <1>2, <1>4, StillAlone DEF VerifiedInv, SameWalk, Walking, IsWalk
    <2>2. CASE ~Answered(p)'
      <3>1. ~Stored(p)'
        BY <1>4, <2>2 DEF Stored
      <3>2. WalkVerified(p)'
        BY <1>4, <2>2, <3>1 DEF WalkVerified
      <3> QED
        BY <1>1, <2>1, <3>2, VerifiedFrame
    <2>3. CASE /\ Answered(p) \/ Approved(p)
               /\ job'[p].secrets = job[p].secrets /\ job'[p].runtime = job[p].runtime
      <3>1. Stored(p) /\ WalkVerified(p)
        BY <1>2, <2>3 DEF Stored, Answered, Approved, VerifiedInv
      <3>2. \A c : Undisturbed(c)' <=> Undisturbed(c)
        BY <1>1 DEF Undisturbed
      <3>3. Approved(p) /\ Verifiable(p) =>
                Accepted(files["config"].content, Environment[p], job[p].connector)
        BY AcceptsMeansAccepted DEF Approved, Verifiable, VerifiedInv, AgreeInv, ConfigAgrees
      <3>4. Answered(p)' => Verifiable(p)
        BY <1>4 DEF Answered, Verifiable, SameWalk
      <3>5. WalkVerified(p)'
        BY <1>1, <1>4, <2>3, <3>1, <3>2, <3>3, <3>4 DEF WalkVerified, SameWalk
      <3> QED
        BY <1>1, <2>1, <3>5, VerifiedFrame
    <2> QED
      BY <1>4, <2>2, <2>3
  <1> QED
    BY <1>1, <1>2, <1>3, <1>4, WalkGoesOn

\* Loading changes nothing of what the walk has; a save that fails ends it.
LEMMA SavingVerified ==
  ASSUME VerifiedInv, AgreeInv', NEW p \in Process, Load(p) \/ SaveFails(p)
  PROVE  VerifiedInv'
  <1>1. JobsOK /\ job[p].pc \in {"load", "replace"} /\ UNCHANGED <<files, overlapped, enabler, crowded>>
    BY DEF VerifiedInv, AgreeInv, Load, SaveFails, fileVars, historyVars
  <1>2. IsJob(job[p]) /\ (WalkOK(job[p]) \/ SaveOK(job[p]))
    BY <1>1, Active
  <1>3. CASE Become(p, Idle)
    BY <1>1, <1>3, OneMoves, VerifiedGone DEF Idle
  <1>4. CASE job[p].pc = "load" /\ Become(p, [job[p] EXCEPT !.pc = "replace", !.loaded = Loaded(p)])
    <2>1. /\ job'[p] = [job[p] EXCEPT !.pc = "replace", !.loaded = Loaded(p)]
          /\ \A q \in Process \ {p} : job'[q] = job[q]
      BY <1>1, <1>4, OneMoves
    <2>2. /\ SameWalk(p) /\ job'[p].pc = "replace"
          /\ job'[p].at = job[p].at /\ job'[p].enabled = job[p].enabled
          /\ job'[p].secrets = job[p].secrets /\ job'[p].runtime = job[p].runtime
      BY <1>2, <2>1 DEF IsJob, SameWalk
    <2>3. Alone'
      BY <1>1, <2>1, <2>2, StillAlone DEF VerifiedInv, SameWalk, Walking
    <2>4. /\ IsWalk(p)' <=> IsWalk(p)
          /\ Stored(p)' => Stored(p)
          /\ Answered(p)' => Answered(p)
      BY <1>1, <2>2 DEF IsWalk, Stored, Answered, Verifiable, SameWalk
    <2>5. InOrder(job[p]) => InOrder(job'[p])
      BY <1>1, <1>4, <2>2 DEF InOrder, SameWalk
    <2>6. \A c : Undisturbed(c)' <=> Undisturbed(c)
      BY <1>1 DEF Undisturbed
    <2>7. WalkVerified(p)'
      <3>1. WalkVerified(p)
        BY DEF VerifiedInv
      <3> QED
        BY <1>1, <2>2, <2>4, <2>5, <2>6, <3>1 DEF WalkVerified, SameWalk
    <2> QED
      BY <1>1, <2>1, <2>3, <2>7, VerifiedFrame
  <1> QED
    BY <1>3, <1>4, Zenon DEF Load, SaveFails

\* What a replacement by one walk does to the block of another connector, and to its
\* own when the walk has the answer: nothing the provider's answer depends on.
LEMMA ReplaceBlocks ==
  ASSUME VerifiedInv, NEW p \in Process, Replace(p), WalkOK(job[p]), ~overlapped'["config"]
  PROVE  /\ files'["config"].state = "whole" /\ ~overlapped["config"]
         /\ files["config"].state # "torn"
         /\ Owned(files'["config"].content)
         /\ files["config"].state = "whole" => Owned(files["config"].content)
         /\ HasMerged(files'["config"].content, job[p].connector, job[p].secrets, job[p].runtime)
         /\ files["config"].state = "whole" => \A d \in DOMAIN files["config"].content :
                /\ d \in DOMAIN files'["config"].content
                /\ d # job[p].connector =>
                        files'["config"].content[d] = files["config"].content[d]
                /\ d = job[p].connector
                     /\ HasMerged(files["config"].content, d, job[p].secrets, job[p].runtime) =>
                        /\ files'["config"].content[d].secrets = files["config"].content[d].secrets
                        /\ files'["config"].content[d].runtime = files["config"].content[d].runtime
  <1> DEFINE blocks == IF files["config"].state = "absent" THEN Seeded(Example)
                       ELSE files["config"].content
             new == files'["config"].content
  <1>1. AgreeInv /\ job[p].file = "config"
    BY DEF VerifiedInv, WalkOK
  <1>2. /\ files'["config"].state = "whole" /\ new = job[p].loaded /\ ~overlapped["config"]
    BY <1>1 DEF Replace, AgreeInv, FilesOK, Names
  <1>3. LoadedOK(p, "config") /\ Holding(p, "config")
    BY <1>1 DEF AgreeInv, Names, Holding, Replace
  <1>4. files["config"].state # "torn" /\ Owned(new) /\ new = Loaded(p)
    BY <1>2, <1>3 DEF LoadedOK
  <1>5. new = Persisted(blocks, job[p].connector, job[p].secrets, job[p].runtime, job[p].enabled)
    BY <1>1, <1>4 DEF Loaded
  <1>6. files["config"].state = "whole" => blocks = files["config"].content /\ Owned(blocks)
    BY <1>1 DEF AgreeInv, ConfigAgrees
  <1> HIDE DEF blocks, new
  <1>7. HasMerged(new, job[p].connector, job[p].secrets, job[p].runtime)
    BY <1>5, PersistedMerges
  <1>8. \A d \in DOMAIN blocks :
            /\ d \in DOMAIN new
            /\ d # job[p].connector => new[d] = blocks[d]
    BY <1>5, PersistedBlock
  <1>9. HasMerged(blocks, job[p].connector, job[p].secrets, job[p].runtime) =>
            /\ new[job[p].connector].secrets = blocks[job[p].connector].secrets
            /\ new[job[p].connector].runtime = blocks[job[p].connector].runtime
    BY <1>5, PersistedAgain
  <1> QED
    BY <1>2, <1>4, <1>6, <1>7, <1>8, <1>9 DEF new

\* The configuration is replaced by a walk: what others were told still holds, and it
\* enables its own connector only with the answer.
LEMMA ReplaceVerified ==
  ASSUME VerifiedInv, AgreeInv', NEW p \in Process, Replace(p), WalkOK(job[p])
  PROVE  VerifiedInv'
  <1> DEFINE c == job[p].connector
             n == Steps(c)
  <1>1. /\ AgreeInv /\ JobsOK /\ IsJob(job[p]) /\ job[p].file = "config" /\ c \in Connector
        /\ job[p].pc = "replace" /\ UNCHANGED crowded
        /\ n \in Nat \ {0}
    BY Active, VerifyIsLast, OperatorAssumption DEF VerifiedInv, AgreeInv, Replace, WalkOK
  <1>2. /\ \A q \in Process \ {p} : job'[q] = job[q]
        /\ job'[p] = AfterReplace(p)
    BY <1>1, OneMoves DEF Replace
  <1>3. files'["config"].state = "whole" /\ (~overlapped'["config"] => ~overlapped["config"])
    BY <1>1 DEF Replace, AgreeInv, FilesOK, Names
  <1>4. enabler' = [enabler EXCEPT ![c] =
                        IF job[p].enabled /\ "active" \in job[p].modes THEN {p} ELSE {}]
    BY <1>1 DEF Replace
  <1>5. /\ IsWalk(p) /\ WalkVerified(p) /\ InOrder(job[p])
    BY <1>1 DEF IsWalk, VerifiedInv, WalkVerified
  <1>6. \/ job'[p] = Idle /\ job[p].enabled
        \/ /\ SameWalk(p) /\ job'[p].pc = "verify" /\ ~job[p].enabled
           /\ job'[p].at = job[p].at
           /\ job'[p].secrets = job[p].secrets /\ job'[p].runtime = job[p].runtime
    <2>1. CASE job[p].enabled
      BY <1>1, <1>2, <2>1 DEF AfterReplace
    <2>2. CASE ~job[p].enabled
      BY <1>1, <1>2, <2>2 DEF AfterReplace, IsJob, SameWalk
    <2> QED
      BY <2>1, <2>2
  <1>7. Alone'
    <2>1. \A d \in Connector : Walking(p, d)' => Walking(p, d)
      BY <1>1, <1>6 DEF Walking, SameWalk, Idle
    <2> QED
      BY <1>1, <1>2, <2>1, StillAlone DEF VerifiedInv
  <1>8. WalkVerified(p)'
    <2>1. CASE job'[p] = Idle
      BY <2>1 DEF WalkVerified, IsWalk, Stored, Answered, Idle
    <2>2. CASE /\ SameWalk(p) /\ job'[p].pc = "verify" /\ ~job[p].enabled
               /\ job'[p].at = job[p].at
               /\ job'[p].secrets = job[p].secrets /\ job'[p].runtime = job[p].runtime
      <3>1. job[p].at = n /\ job'[p].at = n /\ Steps(job'[p].connector) = n
        BY <1>1, <1>5, <2>2 DEF InOrder, SameWalk
      <3>2. InOrder(job'[p]) /\ ~Answered(p)'
        BY <1>1, <2>2, <3>1 DEF InOrder, Answered
      <3>3. Undisturbed(c)' => HasMerged(files'["config"].content, c, job[p].secrets, job[p].runtime)
        BY ReplaceBlocks DEF Undisturbed
      <3>4. files'["config"].state # "absent"
        BY <1>3
      <3>5. Undisturbed(job[p].connector)' =>
                HasMerged(files'["config"].content, job'[p].connector, job'[p].secrets, job'[p].runtime)
        BY <2>2, <3>3 DEF SameWalk
      <3> QED
        BY <3>2, <3>4, <3>5 DEF WalkVerified
    <2> QED
      BY <1>6, <2>1, <2>2
  <1>9. ASSUME NEW q \in Process \ {p} PROVE WalkVerified(q)'
    <2> DEFINE d == job[q].connector
    <2>1. WalkVerified(q) /\ job'[q] = job[q]
      BY <1>2 DEF VerifiedInv
    <2>2. /\ IsWalk(q)' <=> IsWalk(q)
          /\ Stored(q)' <=> Stored(q)
          /\ Answered(q)' <=> Answered(q)
      BY <2>1 DEF IsWalk, Stored, Answered, Verifiable
    <2>3. ASSUME Stored(q), Undisturbed(d)'
          PROVE  /\ Undisturbed(d) /\ d # c /\ d \in Connector
                 /\ d \in DOMAIN files["config"].content /\ d \in DOMAIN files'["config"].content
                 /\ files'["config"].content[d] = files["config"].content[d]
                 /\ Owned(files["config"].content) /\ Owned(files'["config"].content)
      <3>1. IsWalk(q) /\ WalkOK(job[q]) /\ d \in Connector
        BY <1>1, <2>3, Active DEF Stored, Answered, IsWalk, WalkOK, SaveOK
      <3>2. d \notin crowded /\ ~overlapped'["config"]
        BY <1>1, <2>1, <2>3 DEF Undisturbed
      <3>3. d # c
        BY <1>5, <3>1, <3>2 DEF VerifiedInv, Alone, Walking, IsWalk
      <3>4. files["config"].state = "whole"
        BY <1>1, <2>1, <2>3, <3>2, ReplaceBlocks DEF WalkVerified, AgreeInv, FilesOK
      <3>5. Undisturbed(d)
        BY <1>3, <3>2, <3>4 DEF Undisturbed
      <3>6. d \in DOMAIN files["config"].content
        BY <2>1, <2>3, <3>5 DEF WalkVerified, HasMerged
      <3>7. /\ d \in DOMAIN files'["config"].content
            /\ files'["config"].content[d] = files["config"].content[d]
            /\ Owned(files["config"].content) /\ Owned(files'["config"].content)
        BY <3>2, <3>3, <3>4, <3>6, ReplaceBlocks
      <3> QED
        BY <3>1, <3>3, <3>5, <3>6, <3>7
    <2>4. Stored(q) /\ Undisturbed(d)' =>
                HasMerged(files'["config"].content, d, job[q].secrets, job[q].runtime)
      BY <2>1, <2>3 DEF WalkVerified, HasMerged
    <2>5. Answered(q) /\ Undisturbed(d)' => Accepted(files'["config"].content, Environment[q], d)
      <3> SUFFICES ASSUME Answered(q), Undisturbed(d)'
                   PROVE  Accepted(files'["config"].content, Environment[q], d)
        OBVIOUS
      <3>1. Stored(q) /\ d \in Runners
        BY DEF Answered, Stored, Verifiable
      <3>2. Accepted(files["config"].content, Environment[q], d)
        BY <2>1, <2>3, <3>1 DEF WalkVerified
      <3>3. SameBlock(files["config"].content, files'["config"].content, d)
        BY <2>3, <3>1, OperatorAssumption DEF SameBlock
      <3> QED
        BY <3>1, <3>2, <3>3, SameAccepted, SameEnvironment
    <2>6. Stored(q) => files'["config"].state # "absent"
      BY <1>3
    <2> QED
      BY <2>1, <2>2, <2>4, <2>5, <2>6 DEF WalkVerified
  <1>10. ASSUME NEW d \in Connector PROVE ConnectorVerified(d)'
    <2> SUFFICES ASSUME NEW o \in enabler'[d]
                 PROVE  /\ o \in Process
                        /\ Undisturbed(d)' /\ d \in Runners =>
                            /\ d \in DOMAIN files'["config"].content
                            /\ Accepted(files'["config"].content, Environment[o], d)
      BY <1>3 DEF ConnectorVerified
    <2>1. o \in Process
      BY <1>4 DEF VerifiedInv, ConnectorVerified
    <2> SUFFICES ASSUME Undisturbed(d)', d \in Runners
                 PROVE  /\ d \in DOMAIN files'["config"].content
                        /\ Accepted(files'["config"].content, Environment[o], d)
      BY <2>1
    <2>2. d \notin crowded /\ ~overlapped'["config"] /\ ~overlapped["config"]
      BY <1>1, <1>3 DEF Undisturbed
    <2>3. ASSUME files["config"].state = "whole",
                 Accepted(files["config"].content, Environment[o], d),
                 d \in DOMAIN files["config"].content,
                 d = c => HasMerged(files["config"].content, d, job[p].secrets, job[p].runtime)
          PROVE  /\ d \in DOMAIN files'["config"].content
                 /\ Accepted(files'["config"].content, Environment[o], d)
      <3>1. SameBlock(files["config"].content, files'["config"].content, d)
        BY <2>2, <2>3, ReplaceBlocks, OperatorAssumption DEF SameBlock
      <3> QED
        BY <2>3, <3>1, SameAccepted, SameEnvironment DEF SameBlock
    <2>4. CASE d # c
      <3>1. enabler'[d] = enabler[d] /\ ConnectorVerified(d)
        BY <1>4, <2>4 DEF VerifiedInv
      <3>2. files["config"].state = "whole"
        BY <1>1, <2>2, <3>1, ReplaceBlocks DEF ConnectorVerified, AgreeInv, FilesOK
      <3>3. Undisturbed(d)
        BY <2>2, <3>2 DEF Undisturbed
      <3>4. /\ d \in DOMAIN files["config"].content
            /\ Accepted(files["config"].content, Environment[o], d)
        BY <3>1, <3>3 DEF ConnectorVerified
      <3> QED
        BY <2>3, <2>4, <3>2, <3>4
    <2>5. CASE d = c
      <3>1. job[p].enabled /\ "active" \in job[p].modes /\ o = p
        BY <1>1, <1>4, <2>5 DEF VerifiedInv
      <3>2. Answered(p) /\ Stored(p)
        BY <1>1, <1>5, <2>5, <3>1 DEF Answered, Stored, Verifiable, InOrder
      <3>3. files["config"].state = "whole"
        BY <1>1, <1>5, <2>2, <3>2, ReplaceBlocks DEF WalkVerified, AgreeInv, FilesOK
      <3>4. Undisturbed(c)
        BY <2>2, <2>5, <3>3 DEF Undisturbed
      <3>5. /\ HasMerged(files["config"].content, c, job[p].secrets, job[p].runtime)
            /\ Accepted(files["config"].content, Environment[p], c)
        BY <1>5, <3>2, <3>4 DEF WalkVerified
      <3> QED
        BY <2>3, <2>5, <3>1, <3>3, <3>5 DEF HasMerged
    <2> QED
      BY <2>4, <2>5
  <1>11. DOMAIN enabler' = Connector
    BY <1>4 DEF VerifiedInv
  <1> QED
    BY <1>7, <1>8, <1>9, <1>10, <1>11 DEF VerifiedInv

LEMMA NextVerified ==
  ASSUME VerifiedInv, [Next]_vars
  PROVE  VerifiedInv'
  <1>1. AgreeInv /\ AgreeInv' /\ JobsOK
    BY NextAgree DEF VerifiedInv, AgreeInv
  <1>2. ASSUME NEW p \in Process, NEW r, StartSave(p, r)
        PROVE  VerifiedInv'
    <2>1. /\ UNCHANGED <<files, overlapped, enabler, crowded>>
          /\ job'[p].file = "cursors"
          /\ \A q \in Process \ {p} : job'[q] = job[q]
      BY <1>1, <1>2, OneMoves DEF StartSave, fileVars, historyVars
    <2> QED
      BY <1>1, <2>1, VerifiedGone
  <1>3. ASSUME NEW p \in Process, Kill(p)
        PROVE  VerifiedInv'
    <2>1. /\ UNCHANGED <<files, overlapped, enabler, crowded>>
          /\ job'[p].pc = "idle"
          /\ \A q \in Process \ {p} : job'[q] = job[q]
      BY <1>1, <1>3, OneMoves DEF Kill, fileVars, historyVars, Idle
    <2> QED
      BY <1>1, <2>1, VerifiedGone
  <1>4. ASSUME NEW p \in Process, Replace(p)
        PROVE  VerifiedInv'
    <2>1. CASE WalkOK(job[p])
      BY <1>1, <1>4, <2>1, ReplaceVerified
    <2>2. CASE SaveOK(job[p])
      <3>1. /\ files'["config"] = files["config"] /\ overlapped'["config"] = overlapped["config"]
            /\ UNCHANGED <<enabler, crowded>>
        BY <1>1, <1>4, <2>2 DEF Replace, SaveOK, AgreeInv, FilesOK, Names
      <3>2. job'[p].pc = "idle" /\ \A q \in Process \ {p} : job'[q] = job[q]
        BY <1>1, <1>4, <2>2, OneMoves DEF Replace, AfterReplace, SaveOK, Idle
      <3> QED
        BY <1>1, <3>1, <3>2, VerifiedGone
    <2> QED
      BY <1>1, <1>4, <2>1, <2>2, ReplaceFrame
  <1>5. CASE PowerLoss
    <2>1. /\ \A q \in Process : ~IsWalk(q)' /\ \A c : ~Walking(q, c)'
          /\ UNCHANGED <<overlapped, enabler, crowded>>
      BY <1>5 DEF PowerLoss, historyVars, IsWalk, Walking, Idle
    <2>2. files'["config"] = files["config"] \/ files'["config"].state = "torn"
      BY <1>1, <1>5 DEF PowerLoss, AgreeInv, FilesOK, Names
    <2>3. \A q \in Process : WalkVerified(q)'
      BY <2>1 DEF WalkVerified, Stored, Answered
    <2>4. Alone'
      BY <2>1 DEF Alone
    <2>5. ASSUME NEW c \in Connector PROVE ConnectorVerified(c)'
      BY <2>1, <2>2 DEF VerifiedInv, ConnectorVerified, Undisturbed
    <2> QED
      BY <1>1, <2>1, <2>3, <2>4, <2>5 DEF VerifiedInv
  <1>6. CASE Flush \/ UNCHANGED vars
    <2>1. UNCHANGED <<files, job, overlapped, enabler, crowded>>
      BY <1>6 DEF Flush, vars, historyVars
    <2>2. \A q \in Process : WalkVerified(q)'
      BY <2>1 DEF VerifiedInv, WalkVerified, IsWalk, Stored, Answered, Verifiable, Undisturbed
    <2>3. Alone' /\ \A c \in Connector : ConnectorVerified(c)'
      BY <2>1 DEF VerifiedInv, Alone, Walking, ConnectorVerified, Undisturbed
    <2> QED
      BY <1>1, <2>1, <2>2, <2>3 DEF VerifiedInv
  <1> QED
    BY <1>1, <1>2, <1>3, <1>4, <1>5, <1>6, StartVerified, WalkStepVerified, SavingVerified
       DEF Next, SaveStep

LEMMA InitVerified == Init => VerifiedInv
  BY InitAgree DEF Init, VerifiedInv, Alone, Walking, WalkVerified, IsWalk, Stored, Answered,
                   ConnectorVerified, Idle

\* An environment that sets none of a connector's keys is none to it.
LEMMA NothingSet ==
  ASSUME NEW p \in Process, NEW c, KeysOf(c) \cap DOMAIN Environment[p] = {}
  PROVE  SameSettings(Environment[p], <<>>, c)
  <1>1. ASSUME NEW key, key[1] = c \/ key[1] \notin DOMAIN Descriptors,
               key \in DOMAIN Environment[p]
        PROVE  FALSE
    <2>1. PICK d \in DOMAIN Descriptors : key \in KeysOf(d)
      BY <1>1, OperatorAssumption
    <2>2. key[1] = d
      BY <2>1, KeyOwner
    <2> QED
      BY <1>1, <2>1, <2>2
  <1>2. \A key : key[1] = c \/ key[1] \notin DOMAIN Descriptors => At(Environment[p], key) = ""
    BY <1>1 DEF At
  <1> QED
    BY <1>2, NoEnvironment DEF SameSettings

\* A connector that a walk enabled for its active mode still has what the provider
\* accepted of that walk, in the environment of the process that verified it and, where
\* that set none of the connector's keys, without one: however many processes configure
\* connectors, unless another was at the same connector or had the file loaded when it
\* was replaced (_do_verify saves disabled, runs the connector, and only then enables it).
THEOREM EnabledWasVerified == Spec => []EnabledIsVerified
  <1>1. Init => VerifiedInv
    BY InitVerified
  <1>2. VerifiedInv /\ [Next]_vars => VerifiedInv'
    BY NextVerified
  <1>3. VerifiedInv => EnabledIsVerified
    <2> SUFFICES ASSUME VerifiedInv, NEW c \in (Connector \cap Runners) \ crowded,
                        files["config"].state = "whole", ~overlapped["config"],
                        NEW p \in enabler[c]
                 PROVE  LET own == Own(files["config"].content, c) IN
                        /\ Accepts(own, Environment[p], c)
                        /\ KeysOf(c) \cap DOMAIN Environment[p] = {} => Accepts(own, <<>>, c)
      BY DEF EnabledIsVerified
    <2> DEFINE blocks == files["config"].content
    <2>1. /\ p \in Process /\ c \in DOMAIN blocks
          /\ Accepted(blocks, Environment[p], c)
      BY DEF VerifiedInv, ConnectorVerified, Undisturbed
    <2>2. Owned(blocks)
      BY DEF VerifiedInv, AgreeInv, ConfigAgrees
    <2>3. SameBlock(blocks, blocks, c)
      BY <2>1, <2>2, OperatorAssumption DEF SameBlock
    <2>4. KeysOf(c) \cap DOMAIN Environment[p] = {} => Accepted(blocks, <<>>, c)
      BY <2>1, <2>3, NothingSet, SameAccepted
    <2> QED
      BY <2>1, <2>4 DEF Accepted
  <1> QED
    BY <1>1, <1>2, <1>3, PTL DEF Spec
==============================================================================
