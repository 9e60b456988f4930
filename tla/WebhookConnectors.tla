-------------------------- MODULE WebhookConnectors --------------------------
(***************************************************************************)
(* How the ten connectors with a webhook surface differ in verify,         *)
(* _delivery_id and normalize_event (connectors/<name>/connector.py):      *)
(*   window        tolerance of the signed timestamp in seconds, on either *)
(*                 side of the clock; NoWindow when none is signed         *)
(*   idLess        a delivery without an id is dropped, known by the hash  *)
(*                 of its body, or admitted past the cache                 *)
(*   shared        may the id name a ticket or an issue, not one delivery? *)
(*   payloadFirst  is a payload that holds no evidence rejected before the *)
(*                 delivery is marked seen?                                *)
(***************************************************************************)
EXTENDS Integers

NoWindow == -1

github == [window |-> NoWindow, idLess |-> "hash", shared |-> FALSE, payloadFirst |-> FALSE]

gitlab == [window |-> NoWindow, idLess |-> "hash", shared |-> FALSE, payloadFirst |-> FALSE]

jira == [window |-> NoWindow, idLess |-> "hash", shared |-> TRUE, payloadFirst |-> FALSE]

notion == [window |-> NoWindow, idLess |-> "hash", shared |-> FALSE, payloadFirst |-> FALSE]

sentry == [window |-> NoWindow, idLess |-> "hash", shared |-> TRUE, payloadFirst |-> FALSE]

pagerduty == [window |-> NoWindow, idLess |-> "hash", shared |-> FALSE, payloadFirst |-> FALSE]

zendesk == [window |-> NoWindow, idLess |-> "hash", shared |-> TRUE, payloadFirst |-> FALSE]

slack == [window |-> 300, idLess |-> "admit", shared |-> FALSE, payloadFirst |-> TRUE]

linear == [window |-> 60, idLess |-> "drop", shared |-> FALSE, payloadFirst |-> TRUE]

fathom == [window |-> 300, idLess |-> "drop", shared |-> FALSE, payloadFirst |-> FALSE]
==============================================================================
