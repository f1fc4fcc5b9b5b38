----------------------------- MODULE Connection -----------------------------
(***************************************************************************)
(* How the AMQP task gets to consume, again and again: run_consumer with   *)
(* its backoff and connect_and_consume up to basic_consume                 *)
(* (crates/api/src/amqp/amqp_consumer.rs).                                 *)
(*                                                                         *)
(* Every call of the handshake is an await of its own: the broker may go   *)
(* away, and someone may delete what was declared, between any two.  What  *)
(* comes after the handshake is Pipeline's business; here the task         *)
(* consumes until the connection fails.                                    *)
(***************************************************************************)
EXTENDS Naturals, Sequences

CONSTANTS
    MaxDeletions        \* bound: exchange or dead-letter queue deleted

ASSUME ConnectionBounds == MaxDeletions \in Nat

VARIABLES
    reachable,          \* the broker accepts connections and answers
    exchange,           \* dlx.transaction exists
    dlq,                \* transaction.evaluation.dlq exists
    bound,              \* and is bound to it
    work,               \* transaction.evaluation, by its dead-letter args
    step,               \* the call the task is at
    backoff             \* run_consumer's, in seconds

VARIABLES               \* history, read by no guard but the bound's
    failures,           \* Errs of connect_and_consume, up to Enough
    consumed,           \* the last connection got to consuming
    deletions,          \* what was deleted so far
    tampered            \* something was deleted since the last queue_bind

topology == << exchange, dlq, bound, work >>
connHist == << failures, consumed, deletions, tampered >>
connVars == << reachable, topology, step, backoff, connHist >>

\* The calls in the order they are made, and where else the task can be.
Handshake == << "connect", "exchange", "dlq", "bind", "queue", "consume" >>
Steps == { Handshake[i] : i \in 1 .. 6 } \cup {"none", "consuming", "sleep"}

Enough == 7             \* bound: from this failure on the waits are the same

ConnTypeOK ==
    /\ reachable \in BOOLEAN
    /\ exchange \in BOOLEAN /\ dlq \in BOOLEAN /\ bound \in BOOLEAN
    /\ work \in {"none", "plain", "dead_letter"}
    /\ step \in Steps
    /\ backoff \in 1 .. 60
    /\ failures \in 0 .. Enough
    /\ consumed \in BOOLEAN
    /\ deletions \in 0 .. MaxDeletions
    /\ tampered \in BOOLEAN

\* The broker is new to the program, but someone may have made the work queue
\* before, with or without the dead-letter arguments.
ConnInit ==
    /\ reachable \in BOOLEAN
    /\ exchange = FALSE
    /\ dlq = FALSE
    /\ bound = FALSE
    /\ work \in {"none", "plain", "dead_letter"}
    /\ step = "none"
    /\ backoff = 1
    /\ failures = 0
    /\ consumed = FALSE
    /\ deletions = 0
    /\ tampered = FALSE

-----------------------------------------------------------------------------
(* connect_and_consume.                                                    *)

\* A call is answered; the next one is made.
Answered(call, next) ==
    /\ step = call
    /\ reachable
    /\ step' = next
    /\ UNCHANGED << reachable, backoff, failures, deletions >>

\* Connection::connect, create_channel.
ConnectBroker ==
    /\ Answered("connect", "exchange")
    /\ UNCHANGED << topology, consumed, tampered >>

DeclareExchange ==
    /\ Answered("exchange", "dlq")
    /\ exchange' = TRUE
    /\ UNCHANGED << dlq, bound, work, consumed, tampered >>

\* Mutant: the binding is left out, as it survives a restart of the broker.
DeclareDlqOnly ==
    /\ Answered("dlq", "queue")
    /\ dlq' = TRUE
    /\ UNCHANGED << exchange, bound, work, consumed, tampered >>

DeclareDlq ==
    /\ Answered("dlq", "bind")
    /\ dlq' = TRUE
    /\ UNCHANGED << exchange, bound, work, consumed, tampered >>

\* Both ends have to be there, or the broker closes the channel (NOT_FOUND).
BindDlq ==
    /\ exchange /\ dlq
    /\ Answered("bind", "queue")
    /\ bound' = TRUE
    /\ tampered' = FALSE
    /\ UNCHANGED << exchange, dlq, work, consumed >>

\* Mutant: a work queue that exists is taken as it is (queue_declare passive).
DeclareQueueAsIs ==
    /\ Answered("queue", "consume")
    /\ work' = IF work = "none" THEN "dead_letter" ELSE work
    /\ UNCHANGED << exchange, dlq, bound, consumed, tampered >>

\* A queue that exists with other arguments is PRECONDITION_FAILED.
DeclareQueue ==
    /\ work # "plain"
    /\ Answered("queue", "consume")
    /\ work' = "dead_letter"
    /\ UNCHANGED << exchange, dlq, bound, consumed, tampered >>

BasicConsume ==
    /\ work # "none"
    /\ Answered("consume", "consuming")
    /\ consumed' = TRUE
    /\ UNCHANGED << topology, tampered >>

\* Nothing there, or not what the call is about.
Refused ==
    \/ step = "bind" /\ ~ (exchange /\ dlq)
    \/ step = "queue" /\ work = "plain"
    \/ step = "consume" /\ work = "none"

\* Mutant: the Err ends the loop of run_consumer.
FailsForGood ==
    /\ step \notin {"none", "sleep"}
    /\ ~ reachable \/ Refused
    /\ step' = "none"
    /\ UNCHANGED << reachable, topology, backoff, connHist >>

\* A call of the handshake, or the stream, yields an error:
\* connect_and_consume returns Err and run_consumer sleeps for the backoff.
Fails ==
    /\ step \notin {"none", "sleep"}
    /\ ~ reachable \/ Refused
    /\ step' = "sleep"
    /\ failures' = IF failures < Enough THEN failures + 1 ELSE failures
    /\ UNCHANGED << reachable, topology, backoff, consumed, deletions,
                    tampered >>

\* Mutant: a backoff without a limit, until the number overflows.
AwakeUncapped ==
    /\ step = "sleep"
    /\ step' = "connect"
    /\ backoff' = 2 * backoff
    /\ consumed' = FALSE
    /\ UNCHANGED << reachable, topology, failures, deletions, tampered >>

\* Mutant: a doubling that would pass the limit is not made.
AwakeStopsShort ==
    /\ step = "sleep"
    /\ step' = "connect"
    /\ backoff' = IF 2 * backoff <= 60 THEN 2 * backoff ELSE backoff
    /\ consumed' = FALSE
    /\ UNCHANGED << reachable, topology, failures, deletions, tampered >>

\* The sleep is over.  The other arm of run_consumer, which sets the backoff
\* back to 1, needs an Ok that connect_and_consume never returns.
Awake ==
    /\ step = "sleep"
    /\ step' = "connect"
    /\ backoff' = IF 2 * backoff < 60 THEN 2 * backoff ELSE 60
    /\ consumed' = FALSE
    /\ UNCHANGED << reachable, topology, failures, deletions, tampered >>

-----------------------------------------------------------------------------
(* Around the task.                                                        *)

\* The broker, or the network to it, goes away and comes back.  Exchange,
\* queues and binding are durable.
BrokerFlips ==
    /\ reachable' = ~ reachable
    /\ UNCHANGED << topology, step, backoff, connHist >>

\* Someone deletes the exchange or the dead-letter queue, and with it the
\* binding.  That the work queue goes away under a consumer is in Pipeline.
Delete ==
    /\ deletions < MaxDeletions
    /\ deletions' = deletions + 1
    /\ bound' = FALSE
    /\ tampered' = TRUE
    /\ \/ exchange /\ exchange' = FALSE /\ UNCHANGED dlq
       \/ dlq /\ dlq' = FALSE /\ UNCHANGED exchange
    /\ UNCHANGED << reachable, work, step, backoff, failures, consumed >>

\* Someone removes the queue that has the wrong arguments.
RemovePlainQueue ==
    /\ work = "plain"
    /\ work' = "none"
    /\ UNCHANGED << reachable, exchange, dlq, bound, step, backoff, connHist >>

HandshakeStep ==
    \/ ConnectBroker \/ DeclareExchange \/ DeclareDlq \/ BindDlq
    \/ DeclareQueue \/ BasicConsume

TaskStep == HandshakeStep \/ Fails \/ Awake

BrokerStep == BrokerFlips \/ Delete \/ RemovePlainQueue

-----------------------------------------------------------------------------
(* Properties.                                                             *)

\* Whenever the task consumes, what it nacks goes to the dead-letter queue:
\* the work queue names the exchange, and exchange, queue and binding are
\* there, unless someone has deleted one of them after it was bound.  This
\* holds over all interrupted, repeated and interfered-with handshakes.
DeadLetterReady ==
    step = "consuming" =>
        /\ work = "dead_letter"
        /\ tampered \/ (exchange /\ dlq /\ bound)

\* What run_consumer waits depends on how often it has failed since the
\* process was started and on nothing else: a connection that has worked for
\* hours in between does not shorten it, and it stays below a minute.
Delays == << 1, 2, 4, 8, 16, 32, 60, 60 >>

BackoffCounts ==
    backoff = Delays[IF step = "sleep" THEN failures ELSE failures + 1]

\* "Consumer disconnected, reconnecting in 5s": a connection that was in use
\* is opened again soon after it is lost.
ReconnectsSoon == step = "sleep" /\ consumed => backoff <= 5
=============================================================================
