------------------------------- MODULE PollWalk -------------------------------
(***************************************************************************)
(* The pagination walks of runtime/poll_client.py (poll, over a PageToken, *)
(* an OffsetPager, a PageNumberPager or no pagination) and of              *)
(* runtime/graphql_poll.py (poll_graphql), up to what they hand to the     *)
(* sink through deliver_poll.  The provider is not trusted, and its        *)
(* listing changes while it is being walked.                               *)
(*                                                                         *)
(* Rows are numbered in the order of the listing.  A token names the row   *)
(* after which the next page starts (0: from the beginning), an offset     *)
(* counts the rows before it.                                              *)
(***************************************************************************)
EXTENDS Integers, FiniteSets

CONSTANTS
    Item,           \* rows the provider may list, numbers in their order
    Malformed,      \* rows the connector's parse raises on
    Breach,         \* rows normalize refuses
    Limit,          \* rows of a full page with each pager: its limit, per_page, first
    MaxPages,       \* _MAX_PAGES
    MaxItems,       \* _MAX_TOTAL_ITEMS
    MaxChanges      \* bound on the changes of the listing during one walk

Keyset == {"token", "graphql"}
Counted == {"offset", "number"}
Kinds == Keyset \cup Counted \cup {"single"}

ASSUME WalkAssumption ==
    /\ Item \subseteq Nat \ {0} /\ IsFiniteSet(Item)
    /\ Malformed \subseteq Item
    /\ Breach \subseteq Item
    /\ Limit \in [Kinds -> Nat \ {0}]
    /\ MaxPages \in Nat \ {0}
    /\ MaxItems \in Nat
    /\ MaxChanges \in Nat

VARIABLES
    upstream,   \* the rows the provider lists now
    kind,       \* which pager the walk uses
    pc,         \* where the walk is
    at,         \* position in the URL, or the cursor in the body
    asked,      \* the positions requested so far
    pages,      \* how many requests that were
    collected,  \* payloads, or observations, so far
    twice,      \* those collected more than once
    total,      \* how many they are
    emitted,    \* what the sink was given
    kept,       \* (history) rows listed from the beginning of the walk to now
    removed,    \* (history) has a row gone since the beginning?
    added,      \* (history) has a row come since the beginning?
    honest,     \* (history) has every answer told the truth about the next page?
    changes     \* (bound) changes of the listing during this walk

listing == <<upstream, kept, removed, added, changes>>
walk == <<kind, pc, at, asked, pages, collected, twice, total, emitted, honest>>
vars == <<listing, walk>>

\* An answer without a usable token, and one whose token has a control character.
None == 0
Poisoned == -1

Tokens == Item \cup {None, Poisoned}

TypeOK ==
    /\ upstream \subseteq Item
    /\ kind \in Kinds
    /\ pc \in {"idle", "fetch", "deliver", "done", "failed"}
    /\ at \in Nat
    /\ asked \subseteq Nat
    /\ pages \in 0..MaxPages
    /\ collected \subseteq Item /\ twice \subseteq collected
    /\ total \in 0..MaxItems
    /\ emitted \subseteq collected
    /\ kept \subseteq upstream
    /\ removed \in BOOLEAN /\ added \in BOOLEAN /\ honest \in BOOLEAN
    /\ changes \in 0..MaxChanges

Init ==
    /\ upstream \in SUBSET Item
    /\ kind = "single"
    /\ pc = "idle"
    /\ at = 0
    /\ asked = {}
    /\ pages = 0
    /\ collected = {} /\ twice = {} /\ total = 0
    /\ emitted = {}
    /\ kept = {} /\ removed = FALSE /\ added = FALSE /\ honest = TRUE
    /\ changes = 0

------------------------------------------------------------------------------
(* The provider *)

\* The rows after a token, and after a number of rows.
After(token) == {i \in upstream : i > token}
Beyond(n) == {i \in upstream : Cardinality({j \in upstream : j <= i}) > n}

\* A full page of these rows, or all there are.
First(rows) == {i \in rows : Cardinality({j \in rows : j <= i}) <= Limit[kind]}

\* The page that answers a request for a position.
Page ==
    CASE kind \in Keyset -> First(After(at))
      [] kind = "number" -> First(Beyond((at - 1) * Limit[kind]))
      [] OTHER -> First(Beyond(at))

\* Does this token tell the truth about what follows the page?
Truthful(token) ==
    IF Page = After(at) THEN token = None
    ELSE token \in Page /\ \A j \in Page : j <= token

\* A row comes or goes while the listing is walked.
Appear(i) ==
    /\ pc = "fetch" /\ changes < MaxChanges
    /\ i \notin upstream
    /\ upstream' = upstream \cup {i}
    /\ added' = TRUE
    /\ changes' = changes + 1
    /\ UNCHANGED <<kept, removed, walk>>

Vanish(i) ==
    /\ pc = "fetch" /\ changes < MaxChanges
    /\ i \in upstream
    /\ upstream' = upstream \ {i}
    /\ kept' = kept \ {i}
    /\ removed' = TRUE
    /\ changes' = changes + 1
    /\ UNCHANGED <<added, walk>>

------------------------------------------------------------------------------
(* The walk *)

\* poll, or poll_graphql: a walk starts from the first page.
Start(k) ==
    /\ pc = "idle"
    /\ pc' = "fetch"
    /\ kind' = k
    /\ at' = IF k = "number" THEN 1 ELSE 0
    /\ kept' = upstream
    /\ UNCHANGED <<upstream, removed, added, changes, asked, pages,
                   collected, twice, total, emitted, honest>>

\* PollError out of the walk: nothing has been emitted, and nothing will be.
Fail ==
    /\ pc' = "failed"
    /\ UNCHANGED <<kind, at, asked, pages, collected, twice, total, emitted, honest, listing>>

\* REST only: the page after the last one allowed is an error.
TooManyPages ==
    /\ pc = "fetch"
    /\ pages = MaxPages
    /\ Fail

\* No answer, not a 200, errors in a 200, a body that is oversized, does not parse
\* or has another shape, or the aggregate of bytes exceeded.
FetchFails ==
    /\ pc = "fetch"
    /\ pages < MaxPages
    /\ Fail

\* The page does not fit under the aggregate cap, or poll_graphql parses a row
\* that raises: PollError, or the exception itself.
PageRefused ==
    /\ pc = "fetch"
    /\ pages < MaxPages
    /\ \/ total + Cardinality(Page) > MaxItems
       \/ kind = "graphql" /\ Page \cap Malformed # {}
    /\ Fail

\* (Mutant) The aggregate cap is forgotten.
RequestUncapped ==
    /\ pc = "fetch"
    /\ pages < MaxPages
    /\ kind = "graphql" => Page \cap Malformed = {}
    /\ pages' = pages + 1
    /\ asked' = asked \cup {at}
    /\ collected' = collected \cup Page
    /\ twice' = twice \cup (collected \cap Page)
    /\ total' = total + Cardinality(Page)
    /\ UNCHANGED <<kind, emitted, listing>>

\* (Mutant) The count starts again with every page.
RequestUncounted ==
    /\ pc = "fetch"
    /\ pages < MaxPages
    /\ total + Cardinality(Page) <= MaxItems
    /\ kind = "graphql" => Page \cap Malformed = {}
    /\ pages' = 1
    /\ asked' = asked \cup {at}
    /\ collected' = collected \cup Page
    /\ twice' = twice \cup (collected \cap Page)
    /\ total' = total + Cardinality(Page)
    /\ UNCHANGED <<kind, emitted, listing>>

\* One page is fetched, fits under the caps and is added to the others.
Request ==
    /\ pc = "fetch"
    /\ pages < MaxPages
    /\ total + Cardinality(Page) <= MaxItems
    /\ kind = "graphql" => Page \cap Malformed = {}
    /\ pages' = pages + 1
    /\ asked' = asked \cup {at}
    /\ collected' = collected \cup Page
    /\ twice' = twice \cup (collected \cap Page)
    /\ total' = total + Cardinality(Page)
    /\ UNCHANGED <<kind, emitted, listing>>

Stop == pc' = "deliver" /\ UNCHANGED at

\* (Mutant) The page counts as short when it is not more than full.
CountedPageStopsWhenFull ==
    /\ kind \in Counted
    /\ Request
    /\ IF Cardinality(Page) <= Limit[kind] THEN Stop
       ELSE /\ pc' = "fetch"
            /\ at' = IF kind = "offset" THEN at + Limit[kind] ELSE at + 1
    /\ UNCHANGED honest

\* OffsetPager and PageNumberPager: a short page is the last one.
CountedPage ==
    /\ kind \in Counted
    /\ Request
    /\ IF Cardinality(Page) < Limit[kind] THEN Stop
       ELSE /\ pc' = "fetch"
            /\ at' = IF kind = "offset" THEN at + Limit[kind] ELSE at + 1
    /\ UNCHANGED honest

\* No pagination: one request.
SinglePage ==
    /\ kind = "single"
    /\ Request
    /\ Stop
    /\ UNCHANGED honest

\* (Mutant) The token is looked at before the page is added.
TokenPageDropsLast(token) ==
    /\ kind = "token"
    /\ honest' = (honest /\ Truthful(token))
    /\ IF token = None
       THEN /\ pc = "fetch" /\ pages < MaxPages
            /\ Stop
            /\ pages' = pages + 1 /\ asked' = asked \cup {at}
            /\ UNCHANGED <<kind, collected, twice, total, emitted, listing>>
       ELSE /\ Request
            /\ IF token = Poisoned THEN pc' = "failed" /\ UNCHANGED at
               ELSE pc' = "fetch" /\ at' = token

\* PageToken.next_url: without a usable token the walk is over; the token is not
\* compared with the ones before it.
TokenPage(token) ==
    /\ kind = "token"
    /\ Request
    /\ honest' = (honest /\ Truthful(token))
    /\ CASE token = None -> Stop
         [] token = Poisoned -> pc' = "failed" /\ UNCHANGED at
         [] OTHER -> pc' = "fetch" /\ at' = token

\* (Mutant) The cursors followed so far are not remembered.
CursorPageForgets(token) ==
    /\ kind = "graphql"
    /\ Request
    /\ honest' = (honest /\ Truthful(token))
    /\ CASE token = None -> Stop
         [] token = Poisoned -> pc' = "failed" /\ UNCHANGED at
         [] OTHER -> at' = token /\ pc' = IF pages' = MaxPages THEN "deliver" ELSE "fetch"

\* poll_graphql: a cursor that was followed before is an error, and the loop ends
\* with the last page allowed, whatever that page says.
CursorPage(token) ==
    /\ kind = "graphql"
    /\ Request
    /\ honest' = (honest /\ Truthful(token))
    /\ CASE token = None -> Stop
         [] token = Poisoned \/ token \in asked' ->
                pc' = "failed" /\ UNCHANGED at
         [] OTHER -> at' = token /\ pc' = IF pages' = MaxPages THEN "deliver" ELSE "fetch"

\* deliver_poll, or the end of poll_graphql: rows that do not parse are skipped,
\* normalize refuses all or nothing, and the sink is given the whole walk.
Deliver ==
    /\ pc = "deliver"
    /\ \/ /\ (collected \ Malformed) \cap Breach = {}
          /\ emitted' = collected \ Malformed
          /\ pc' = "done"
       \/ /\ collected \ Malformed # {}
          /\ pc' = "failed"
          /\ UNCHANGED emitted
    /\ UNCHANGED <<kind, at, asked, pages, collected, twice, total, honest, listing>>

\* The host calls again later, from the beginning.
Return ==
    /\ pc \in {"done", "failed"}
    /\ pc' = "idle"
    /\ kind' = "single"
    /\ at' = 0 /\ asked' = {} /\ pages' = 0
    /\ collected' = {} /\ twice' = {} /\ total' = 0 /\ emitted' = {}
    /\ kept' = {} /\ removed' = FALSE /\ added' = FALSE /\ honest' = TRUE
    /\ changes' = 0
    /\ UNCHANGED upstream

WalkStep ==
    \/ TooManyPages
    \/ FetchFails
    \/ PageRefused
    \/ SinglePage
    \/ CountedPage
    \/ \E token \in Tokens : TokenPage(token) \/ CursorPage(token)
    \/ Deliver

Next ==
    \/ \E k \in Kinds : Start(k)
    \/ WalkStep
    \/ Return
    \/ \E i \in Item : Appear(i) \/ Vanish(i)

Spec == Init /\ [][Next]_vars

\* The thread of the walk is scheduled, and a request ends, if by its timeout.
FairSpec == Spec /\ WF_vars(WalkStep)

------------------------------------------------------------------------------
(* Properties *)

\* A walk along tokens that succeeds has delivered every row that was listed all
\* the while and parses, and has collected none twice, whatever came and went,
\* provided the provider told the truth about its pages.  The exception is what
\* lies behind the last page poll_graphql asks for: it is left out in silence.
TokensOnceEach ==
    pc = "done" /\ honest /\ kind \in Keyset =>
        /\ twice = {}
        /\ kept \ Malformed \subseteq emitted \/ (kind = "graphql" /\ pages = MaxPages)

\* So has a walk that counts, as long as the listing stands: it skips rows that
\* moved up because one before them went, and sees rows again that moved down.
CountsOnceEach ==
    pc = "done" /\ kind \in Counted =>
        /\ twice = {} \/ added
        /\ kept \ Malformed \subseteq emitted \/ removed

\* Whatever the provider answers, poll_graphql never asks for a page twice, and
\* offsets and page numbers never stand still.
AskedOnce == kind # "token" => Cardinality(asked) = pages

\* Every walk ends, also one of a provider that always claims another page.
WalkEnds == pc = "fetch" ~> pc \in {"done", "failed"}
==============================================================================
