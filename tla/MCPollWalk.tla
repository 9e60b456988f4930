------------------------------ MODULE MCPollWalk ------------------------------
(* PollWalk over five rows, of which the third does not parse and the fifth is *)
(* refused by normalize.  The pages of graphql hold one row, so that its walk can *)
(* end before the listing does; the others' hold two.                          *)
EXTENDS PollWalk

MCItem == 1..5
MCMalformed == {3}
MCBreach == {5}
MCLimit == [k \in Kinds |-> IF k = "graphql" THEN 1 ELSE 2]
==============================================================================
