--------------------------- MODULE MCOperatorState ---------------------------
(***************************************************************************)
(* Two processes, a connector with two pasted credentials and one with     *)
(* OAuth, and a cursor store with two repositories.  The second process    *)
(* has a good key of linear in its environment.                            *)
(***************************************************************************)
EXTENDS OperatorState

MCProcess == {"p1", "p2"}
MCConnector == {"linear", "google_drive"}
MCRepository == {"r1", "r2"}
MCSecret == [p1 |-> {"good1", "bad1"}, p2 |-> {"good2", "bad2"}]
MCEnvironment == [p1 |-> <<>>, p2 |-> Only(<<"linear">>, "good2")]
MCGood == {"good1", "good2"}
==============================================================================
