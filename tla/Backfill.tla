------------------------------ MODULE Backfill ------------------------------
(***************************************************************************)
(* What polling backfill promises, without saying how: the Bot gathers     *)
(* revisions of issues, and the stored watermark only ever takes values    *)
(* below which no issue has a revision the Bot lacks.                      *)
(***************************************************************************)
EXTENDS GitHubProvider

VARIABLES
    ingested,   \* rows the Bot has appended
    cursor      \* the stored updated_at watermark

vars == <<providerVars, ingested, cursor>>

\* Every issue whose latest update is before c has reached the Bot in its
\* latest revision.
Covered(c) ==
    \A i \in Issue \ PullRequest :
        upstream[i].rev > 0 /\ upstream[i].at < c => RowOf(i) \in ingested

Init == ProviderInit /\ ingested = {} /\ cursor = 0

Publish == \E i \in Issue : Update(i) /\ UNCHANGED <<ingested, cursor>>

Ingest(row) ==
    /\ ingested' = ingested \cup {row}
    /\ UNCHANGED <<providerVars, cursor>>

\* The watermark may also move back: that costs duplicates, never evidence.
MoveWatermark(c) ==
    /\ c <= now
    /\ Covered(c)
    /\ cursor' = c
    /\ UNCHANGED <<providerVars, ingested>>

Next ==
    \/ Publish
    \/ \E row \in Row : Ingest(row)
    \/ \E c \in 0..MaxTime : MoveWatermark(c)

Spec == Init /\ [][Next]_vars
==============================================================================
