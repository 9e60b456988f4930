---------------------------- MODULE MCGitHubIngest ----------------------------
(* GitHubIngest with two or three issues and one or two pollers. *)
EXTENDS GitHubIngest

CONSTANTS r1, r2, i1, i2, i3, p1

OneRuntime == {r1}
TwoRuntimes == {r1, r2}

TwoIssues == {i1, i2}
ThreeIssues == {i1, i2, i3}
OneIssueOnePull == {i1, p1}

NoPulls == {}
OnePull == {p1}
LastIssue == {i3}

AllAccepted == [i \in Issue |-> 201]
FirstVetoed == [i \in Issue |-> IF i = i1 THEN 403 ELSE 201]

\* One the policy advances on, one it retries and a success that is none.
MCStrays == {202, 404, 503}

\* The runtimes are interchangeable.
RuntimeSymmetry == Permutations(TwoRuntimes)
==============================================================================
