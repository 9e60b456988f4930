------------------------- MODULE MCRedactionWorker -------------------------
(* RedactionWorker with two threads and three child processes. *)
EXTENDS RedactionWorker

CONSTANTS c1, c2,       \* threads
          p1, p2, p3    \* child processes

MCCaller == {c1, c2}
MCProcess == {p1, p2, p3}
=============================================================================
