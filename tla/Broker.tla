------------------------------- MODULE Broker -------------------------------
(***************************************************************************)
(* RabbitMQ as fraud-guard uses it.  The broker is not part of the         *)
(* repository: the module states what crates/api/src/amqp/amqp_consumer.rs *)
(* relies on.  There is one work queue (transaction.evaluation), its       *)
(* dead-letter queue, and the one channel the process has open.            *)
(*                                                                         *)
(* Delivery tags are counted per channel and start again at 1 on the next  *)
(* one, so the tag of a delivery is its position in `sent'.                *)
(***************************************************************************)
EXTENDS Messages, Sequences

VARIABLES
    ready,              \* messages waiting in the work queue
    link,               \* the channel, as the broker sees it
    sent,               \* deliveries pushed on this channel, by tag
    settled,            \* tags of this channel that were acked or nacked
    acked,              \* messages the broker has forgotten after an ack
    dlq                 \* messages in transaction.evaluation.dlq

brokerVars == << ready, link, sent, settled, acked, dlq >>

\* "down": no channel.  "up": open, consuming.  "cancelled": open, but the
\* broker has cancelled the consumer (its queue went away).  "closed": closed
\* by a lost connection or a channel error the process has yet to notice.
Links == {"down", "up", "cancelled", "closed"}

BrokerTypeOK ==
    /\ ready \in SUBSET Msgs
    /\ link \in Links
    /\ sent \in Seq(Msgs)
    /\ settled \in SUBSET Nat
    /\ acked \in SUBSET Msgs
    /\ dlq \in SUBSET Msgs

BrokerInit ==
    /\ ready = Msgs
    /\ link = "down"
    /\ sent = << >>
    /\ settled = {}
    /\ acked = {}
    /\ dlq = {}

Open == link \in {"up", "cancelled"}

\* The tags that can still be settled on the open channel.
Unsettled == IF Open THEN (1 .. Len(sent)) \ settled ELSE {}

\* What goes back to the work queue when the channel goes away.
Requeued == ready \cup { sent[t] : t \in Unsettled }

-----------------------------------------------------------------------------

\* No basic_qos is ever sent, so nothing limits what the broker pushes.
Push(m) ==
    /\ link = "up"
    /\ m \in ready
    /\ ready' = ready \ {m}
    /\ sent' = Append(sent, m)
    /\ UNCHANGED << link, settled, acked, dlq >>

CloseChannel ==
    /\ link' = "closed"
    /\ ready' = Requeued
    /\ UNCHANGED << sent, settled, acked, dlq >>

\* The broker cancels the consumer; the channel itself stays open.
CancelConsumer ==
    /\ link = "up"
    /\ link' = "cancelled"
    /\ UNCHANGED << ready, sent, settled, acked, dlq >>

OpenChannel ==
    /\ link' = "up"
    /\ sent' = << >>
    /\ settled' = {}
    /\ UNCHANGED << ready, acked, dlq >>

\* The process drops its channel and connection.
DropChannel ==
    /\ link' = "down"
    /\ ready' = Requeued
    /\ sent' = << >>
    /\ settled' = {}
    /\ UNCHANGED << acked, dlq >>

(***************************************************************************)
(* basic_ack (kind "Ack") or basic_nack without requeue (kind "Nack") of a *)
(* tag.  A tag that is unknown on the channel, or was settled before, is a *)
(* channel error (PRECONDITION_FAILED).  On a dead channel the call        *)
(* returns an error, which the code discards.                              *)
(***************************************************************************)
SettleTag(kind, tag) ==
    /\ tag \in Unsettled
    /\ settled' = settled \cup {tag}
    /\ acked' = IF kind = "Ack" THEN acked \cup {sent[tag]} ELSE acked
    /\ dlq' = IF kind = "Nack" THEN dlq \cup {sent[tag]} ELSE dlq
    /\ UNCHANGED << ready, link, sent >>

Settle(kind, tag) ==
    \/ SettleTag(kind, tag)
    \/ Open /\ tag \notin Unsettled /\ CloseChannel
    \/ ~Open /\ UNCHANGED brokerVars
=============================================================================
