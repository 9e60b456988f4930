-------------------------- MODULE MCWebhookDelivery --------------------------
(* WebhookDelivery with two threads and the three kinds of connector: linear, *)
(* zendesk and slack.  One unit of time is half of ttl_seconds.               *)
EXTENDS WebhookDelivery, TLC

CONSTANTS w1, w2,       \* threads of the host
          i1,           \* an issue of linear
          t1, t2,       \* two events of one zendesk ticket, which is their id
          t3, t4,       \* one with its own id, one without id
          m1,           \* a slack message without event_id
          d1, d2        \* delivery ids

LOCAL Connectors == INSTANCE WebhookConnectors

Connector ==
    [linear |-> Connectors!linear, zendesk |-> Connectors!zendesk, slack |-> Connectors!slack]

MCWorker == {w1, w2}
MCSource == DOMAIN Connector
MCEvent == {i1, t1, t2, t3, t4, m1}
MCSourceOf ==
    [e \in MCEvent |-> IF e = i1 THEN "linear" ELSE IF e = m1 THEN "slack" ELSE "zendesk"]
MCIdOf ==
    [e \in MCEvent |-> IF e \in {m1, t4} THEN NoId ELSE IF e = t3 THEN d2 ELSE d1]
MCWindow ==
    [s \in MCSource |->
        IF Connector[s].window = Connectors!NoWindow THEN Unlimited ELSE 1]
MCIdLess == [s \in MCSource |-> Connector[s].idLess]
MCPayloadFirst == {s \in MCSource : Connector[s].payloadFirst}
MCContent ==
    [e \in MCEvent |-> IF e = t2 THEN "ignored" ELSE "evidence"]

Symmetric == Permutations(MCWorker)
==============================================================================
