--------------------------- MODULE GitHubProvider ---------------------------
(***************************************************************************)
(* What the ingest code can observe of a GitHub repository: issues (some   *)
(* of them pull requests) with a revision and an updated_at stamp, read    *)
(* through "issues?sort=updated&direction=asc&since=...", a page at a      *)
(* time.  External to this repository: modelled from how                   *)
(* protocol/provider_acquisition/github/ingest.py uses it.                 *)
(***************************************************************************)
EXTENDS Integers, FiniteSets, Sequences, SequencesExt

CONSTANTS
    Issue,          \* everything the issues listing returns
    PullRequest,    \* the rows of it that carry a "pull_request" key
    PageSize,       \* rows of a page when the request names no per_page
    SameSecond,     \* may two updates carry the same updated_at?
    MaxRev,         \* bound on the revisions of one issue
    MaxTime         \* bound on the provider's clock

ASSUME ProviderAssumption ==
    /\ IsFiniteSet(Issue)
    /\ PullRequest \subseteq Issue
    /\ PageSize \in Nat \ {0}
    /\ SameSecond \in BOOLEAN
    /\ MaxRev \in Nat
    /\ MaxTime \in Nat

VARIABLES
    now,        \* the provider's clock, at the resolution of updated_at
    upstream    \* revision and updated_at of every issue; revision 0: no issue yet

providerVars == <<now, upstream>>

Row == [issue : Issue, rev : 0..MaxRev, at : 0..MaxTime]

ProviderTypeOK ==
    /\ now \in 0..MaxTime
    /\ upstream \in [Issue -> [rev : 0..MaxRev, at : 0..MaxTime]]

ProviderInit ==
    /\ now = 0
    /\ upstream = [i \in Issue |-> [rev |-> 0, at |-> 0]]

RowOf(i) == [issue |-> i, rev |-> upstream[i].rev, at |-> upstream[i].at]

\* Somebody edits the issue.  The stamp is the current second, or a new one.
Update(i) ==
    /\ upstream[i].rev < MaxRev
    /\ now' \in {now, now + 1} \cap (1..MaxTime)
    /\ now' = now => SameSecond
    /\ upstream' = [upstream EXCEPT ![i] = [rev |-> @.rev + 1, at |-> now']]

\* What a request with this "since" selects; the bound is inclusive, and no
\* "since" at all is the zero stamp.
Candidates(since) ==
    {RowOf(i) : i \in {j \in Issue : upstream[j].rev > 0 /\ upstream[j].at >= since}}

\* The oldest PageSize rows; among equals GitHub chooses.
IsFirstPage(page, rows) ==
    /\ page \subseteq rows
    /\ page # rows => Cardinality(page) = PageSize
    /\ Cardinality(page) <= PageSize
    /\ \A x \in page, y \in rows \ page : x.at <= y.at

\* The orders in which a page may list these rows: oldest first.
Listings(rows) ==
    {s \in SetToSeqs(rows) : \A j, k \in DOMAIN s : j < k => s[j].at <= s[k].at}
==============================================================================
