------------------------------ MODULE Pipeline ------------------------------
(***************************************************************************)
(* The way of a transaction through fraud-guard: pushed by the broker,     *)
(* taken by the AMQP task (crates/api/src/amqp/amqp_consumer.rs), noted by *)
(* the consumer actor, evaluated by the engine actor, stored by the sink   *)
(* actor (crates/app/src/actors), and settled with the broker on the way   *)
(* back.  main.rs starts the process and shuts it down.                    *)
(*                                                                         *)
(* Four things run concurrently: the AMQP task and the three actors.  They *)
(* share nothing but bounded queues, so one action is what one of them     *)
(* does between two awaits.  What the engine decides, and how the sink     *)
(* stores it, are left to other modules: here storing succeeds or fails.   *)
(***************************************************************************)
EXTENDS Broker, Mailboxes, FiniteSets

CONSTANTS
    Parsable,           \* the messages parse_delivery accepts
    CommandCap,         \* capacity of the ack command channel (code: 100)
    MaxConn,            \* bound: connections one process opens
    Faults              \* what may go wrong: see FaultKinds

FaultKinds == {"insert", "lost", "cancel", "crash", "ctrl_c"}

ASSUME MsgsAssumption == Parsable \subseteq Msgs
ASSUME BoundsAssumption ==
    /\ MailboxCap \in Nat \ {0}
    /\ CommandCap \in Nat \ {0}
    /\ MaxConn \in Nat
ASSUME FaultsAssumption == Faults \subseteq FaultKinds

VARIABLES
    task,               \* where the AMQP task is
    hand,               \* the delivery it is handing over, or NoJob
    taken,              \* deliveries it has taken from the consumer stream
    commands,           \* the ack command channel
    abort,              \* AmqpConsumer::stop has asked for it to be aborted
    conn,               \* connections this process has opened so far
    pending,            \* ConsumerActor.pending
    db,                 \* messages whose transaction and decision are stored
    main                \* how far main has come

VARIABLES               \* history, read by no guard
    crossed,            \* settled by a command meant for another message
    erred               \* messages whose handling or storing returned Err

taskVars == << task, hand, taken, commands, abort, conn >>
histVars == << crossed, erred >>
vars == << brokerVars, actorVars, taskVars, pending, db, main, histVars >>

TaskStates == {"none", "connecting", "select", "store", "evaluate", "sleep",
               "aborted"}

TaskTypeOK ==
    /\ task \in TaskStates
    /\ hand \in Jobs \cup {NoJob}
    /\ taken \in Nat
    /\ commands \in Seq(JobMail)
    /\ abort \in BOOLEAN
    /\ conn \in 0 .. MaxConn

TypeOK ==
    /\ BrokerTypeOK
    /\ ActorsTypeOK
    /\ TaskTypeOK
    /\ pending \in SUBSET Nat
    /\ db \in SUBSET Msgs
    /\ main \in [at : {"serving", "stop", "join", "exited"}, who : Actors]
    /\ crossed \in SUBSET Msgs
    /\ erred \in SUBSET Msgs

Init ==
    /\ BrokerInit
    /\ ActorsInit
    /\ task = "none"
    /\ hand = NoJob
    /\ taken = 0
    /\ commands = << >>
    /\ abort = FALSE
    /\ conn = 0
    /\ pending = {}
    /\ db = {}
    /\ main = [at |-> "serving", who |-> "consumer"]
    /\ crossed = {}
    /\ erred = {}

-----------------------------------------------------------------------------
(* The consumer actor.                                                     *)

\* StartConsuming: make the command channel and spawn the AMQP task.
HandleStart ==
    /\ Handles("consumer", "Start")
    /\ box' = Popped("consumer")
    /\ task' = "connecting"
    /\ UNCHANGED << brokerVars, hold, actor, hand, taken, commands, abort,
                    conn, pending, db, main, histVars >>

\* StoreDelivery: remember the tag.
HandleStore ==
    /\ Handles("consumer", "Store")
    /\ box' = Popped("consumer")
    /\ pending' = pending \cup {Head(box["consumer"]).job.tag}
    /\ UNCHANGED << brokerVars, hold, actor, taskVars, db, main, histVars >>

\* Mutant: the arm of a failed store only logs.
HandleAckMessageLogsErr ==
    /\ Handles("consumer", "Ok") \/ Handles("consumer", "Err")
    /\ box' = Popped("consumer")
    /\ LET mail == Head(box["consumer"])
       IN  /\ pending' = pending \ {mail.job.tag}
           /\ hold' = IF mail.job.tag \in pending /\ mail.kind = "Ok"
                      THEN [hold EXCEPT !["consumer"] = MailOf("Ack", mail.job)]
                      ELSE hold
    /\ UNCHANGED << brokerVars, actor, taskVars, db, main, histVars >>

\* Mutant: the two arms are swapped.
HandleAckMessageSwapped ==
    /\ Handles("consumer", "Ok") \/ Handles("consumer", "Err")
    /\ box' = Popped("consumer")
    /\ LET mail == Head(box["consumer"])
           kind == IF mail.kind = "Ok" THEN "Nack" ELSE "Ack"
       IN  /\ pending' = pending \ {mail.job.tag}
           /\ hold' = IF mail.job.tag \in pending
                      THEN [hold EXCEPT !["consumer"] = MailOf(kind, mail.job)]
                      ELSE hold
    /\ UNCHANGED << brokerVars, actor, taskVars, db, main, histVars >>

\* AckMessage: forget the tag and pick the command.  A tag that is not
\* pending is ignored.
HandleAckMessage ==
    /\ Handles("consumer", "Ok") \/ Handles("consumer", "Err")
    /\ box' = Popped("consumer")
    /\ LET mail == Head(box["consumer"])
           kind == IF mail.kind = "Ok" THEN "Ack" ELSE "Nack"
       IN  /\ pending' = pending \ {mail.job.tag}
           /\ hold' = IF mail.job.tag \in pending
                      THEN [hold EXCEPT !["consumer"] = MailOf(kind, mail.job)]
                      ELSE hold
    /\ UNCHANGED << brokerVars, actor, taskVars, db, main, histVars >>

\* ack, nack: command_tx.send(..).await, waiting for room in the channel.
SendCommand ==
    /\ hold["consumer"] # NoMail
    /\ Len(commands) < CommandCap
    /\ commands' = Append(commands, hold["consumer"])
    /\ hold' = [hold EXCEPT !["consumer"] = NoMail]
    /\ UNCHANGED << brokerVars, box, actor, task, hand, taken, abort, conn,
                    pending, db, main, histVars >>

-----------------------------------------------------------------------------
(* The engine actor: decide, then tell the sink.                           *)

HandleEvaluate ==
    /\ Handles("engine", "Evaluate")
    /\ box' = Popped("engine")
    /\ hold' = [hold EXCEPT
                    !["engine"] = MailOf("Persist", Head(box["engine"]).job)]
    /\ UNCHANGED << brokerVars, actor, taskVars, pending, db, main, histVars >>

\* The sink outlives the engine (see Join), so this tell does not fail.
TellPersist ==
    /\ hold["engine"] # NoMail
    /\ CanTell("sink")
    /\ box' = Posted("sink", hold["engine"])
    /\ hold' = [hold EXCEPT !["engine"] = NoMail]
    /\ UNCHANGED << brokerVars, actor, taskVars, pending, db, main, histVars >>

-----------------------------------------------------------------------------
(* The sink actor: store, then tell the consumer how it went.              *)

HandlePersist ==
    /\ Handles("sink", "Persist")
    /\ box' = Popped("sink")
    /\ hold' = [hold EXCEPT !["sink"] = Head(box["sink"])]
    /\ UNCHANGED << brokerVars, actor, taskVars, pending, db, main, histVars >>

\* insert_transaction_and_decision returns Ok.
InsertSucceeds ==
    /\ hold["sink"].kind = "Persist"
    /\ hold' = [hold EXCEPT !["sink"] = MailOf("Ok", hold["sink"].job)]
    /\ db' = db \cup {hold["sink"].job.msg}
    /\ UNCHANGED << brokerVars, box, actor, taskVars, pending, main, histVars >>

\* Mutant: the error is swallowed and reported as success.
InsertFailsUnnoticed ==
    /\ "insert" \in Faults
    /\ hold["sink"].kind = "Persist"
    /\ hold' = [hold EXCEPT !["sink"] = MailOf("Ok", hold["sink"].job)]
    /\ db' \in {db, db \cup {hold["sink"].job.msg}}
    /\ erred' = erred \cup {hold["sink"].job.msg}
    /\ UNCHANGED << brokerVars, box, actor, taskVars, pending, main, crossed >>

\* It returns Err, after its retries.  When the connection broke at the
\* commit the rows may be there nevertheless.
InsertFails ==
    /\ "insert" \in Faults
    /\ hold["sink"].kind = "Persist"
    /\ hold' = [hold EXCEPT !["sink"] = MailOf("Err", hold["sink"].job)]
    /\ db' \in {db, db \cup {hold["sink"].job.msg}}
    /\ erred' = erred \cup {hold["sink"].job.msg}
    /\ UNCHANGED << brokerVars, box, actor, taskVars, pending, main, crossed >>

TellAck ==
    /\ hold["sink"].kind \in {"Ok", "Err"}
    /\ \/ CanTell("consumer") /\ box' = Posted("consumer", hold["sink"])
       \/ TellErr("consumer") /\ UNCHANGED box      \* the error is ignored
    /\ hold' = [hold EXCEPT !["sink"] = NoMail]
    /\ UNCHANGED << brokerVars, actor, taskVars, pending, db, main, histVars >>

-----------------------------------------------------------------------------
(* The AMQP task.                                                          *)

\* connect_and_consume up to basic_consume.
Connect ==
    /\ task = "connecting"
    /\ conn < MaxConn
    /\ OpenChannel
    /\ task' = "select"
    /\ conn' = conn + 1
    /\ taken' = 0
    /\ UNCHANGED << actorVars, hand, commands, abort, pending, db, main,
                    histVars >>

\* One of the calls up to basic_consume fails.
ConnectFails ==
    /\ "lost" \in Faults
    /\ task = "connecting"
    /\ task' = "sleep"
    /\ UNCHANGED << brokerVars, actorVars, hand, taken, commands, abort, conn,
                    pending, db, main, histVars >>

\* The end of the sleep in run_consumer.
Wake ==
    /\ task = "sleep"
    /\ task' = "connecting"
    /\ UNCHANGED << brokerVars, actorVars, hand, taken, commands, abort, conn,
                    pending, db, main, histVars >>

\* Mutant: basic_consume with no_ack, a delivery is settled as it is taken.
TakeDeliveryAutoAcked ==
    /\ task = "select"
    /\ taken < Len(sent)
    /\ sent[taken + 1] \in Parsable
    /\ Settle("Ack", taken + 1)
    /\ taken' = taken + 1
    /\ hand' = [tag |-> taken + 1, msg |-> sent[taken + 1], conn |-> conn]
    /\ task' = "store"
    /\ UNCHANGED << actorVars, commands, abort, conn, pending, db, main,
                    histVars >>

\* The stream yields a delivery, also one that was buffered before the
\* channel died, and it parses: the handler runs.
TakeDelivery ==
    /\ task = "select"
    /\ taken < Len(sent)
    /\ sent[taken + 1] \in Parsable
    /\ taken' = taken + 1
    /\ hand' = [tag |-> taken + 1, msg |-> sent[taken + 1], conn |-> conn]
    /\ task' = "store"
    /\ UNCHANGED << brokerVars, actorVars, commands, abort, conn, pending, db,
                    main, histVars >>

\* Mutant: after the nack the handler runs as well (no `continue').
RejectDeliveryFallsThrough ==
    /\ task = "select"
    /\ taken < Len(sent)
    /\ sent[taken + 1] \notin Parsable
    /\ taken' = taken + 1
    /\ Settle("Nack", taken + 1)
    /\ hand' = [tag |-> taken + 1, msg |-> sent[taken + 1], conn |-> conn]
    /\ task' = "store"
    /\ UNCHANGED << actorVars, commands, abort, conn, pending, db, main,
                    histVars >>

\* The delivery does not parse and is nacked here.
RejectDelivery ==
    /\ task = "select"
    /\ taken < Len(sent)
    /\ sent[taken + 1] \notin Parsable
    /\ taken' = taken + 1
    /\ Settle("Nack", taken + 1)
    /\ UNCHANGED << actorVars, task, hand, commands, abort, conn, pending, db,
                    main, histVars >>

\* Mutant: try_send instead of send, the tag is lost when the mailbox is full.
TellStoreNoWait ==
    /\ task = "store"
    /\ actor["consumer"] # "stopped"
    /\ box' = IF CanTell("consumer")
              THEN Posted("consumer", MailOf("Store", hand)) ELSE box
    /\ task' = "evaluate"
    /\ UNCHANGED << brokerVars, hold, actor, hand, taken, commands, abort,
                    conn, pending, db, main, histVars >>

\* handle_transaction: the consumer actor is told of the tag ...
TellStore ==
    /\ task = "store"
    /\ CanTell("consumer")
    /\ box' = Posted("consumer", MailOf("Store", hand))
    /\ task' = "evaluate"
    /\ UNCHANGED << brokerVars, hold, actor, hand, taken, commands, abort,
                    conn, pending, db, main, histVars >>

\* Mutant: the task does not go back to its select loop.
TellEvaluateStays ==
    /\ task = "evaluate"
    /\ CanTell("engine")
    /\ box' = Posted("engine", MailOf("Evaluate", hand))
    /\ hand' = NoJob
    /\ UNCHANGED << brokerVars, hold, actor, task, taken, commands, abort,
                    conn, pending, db, main, histVars >>

\* ... before the engine is given the transaction.
TellEvaluate ==
    /\ task = "evaluate"
    /\ CanTell("engine")
    /\ box' = Posted("engine", MailOf("Evaluate", hand))
    /\ task' = "select"
    /\ hand' = NoJob
    /\ UNCHANGED << brokerVars, hold, actor, taken, commands, abort, conn,
                    pending, db, main, histVars >>

\* Mutant: the error is logged and the delivery acked.
HandlerFailsAcks ==
    /\ \/ task = "store" /\ TellErr("consumer")
       \/ task = "evaluate" /\ TellErr("engine")
    /\ Settle("Ack", hand.tag)
    /\ erred' = erred \cup {hand.msg}
    /\ task' = "select"
    /\ hand' = NoJob
    /\ UNCHANGED << actorVars, taken, commands, abort, conn, pending, db, main,
                    crossed >>

\* Mutant: the handler does not wait for room in a mailbox (try_send), and a
\* full one is an error as well.
HandlerFailsWhenFull ==
    /\ \/ task = "store" /\ ~ CanTell("consumer")
       \/ task = "evaluate" /\ ~ CanTell("engine")
    /\ Settle("Nack", hand.tag)
    /\ erred' = erred \cup {hand.msg}
    /\ task' = "select"
    /\ hand' = NoJob
    /\ UNCHANGED << actorVars, taken, commands, abort, conn, pending, db, main,
                    crossed >>

\* handle_transaction returns Err: the delivery is nacked.
HandlerFails ==
    /\ \/ task = "store" /\ TellErr("consumer")
       \/ task = "evaluate" /\ TellErr("engine")
    /\ Settle("Nack", hand.tag)
    /\ erred' = erred \cup {hand.msg}
    /\ task' = "select"
    /\ hand' = NoJob
    /\ UNCHANGED << actorVars, taken, commands, abort, conn, pending, db, main,
                    crossed >>

\* The select loop carries out a command on the channel it has now.
DrainCommand ==
    /\ task = "select"
    /\ commands # << >>
    /\ commands' = Tail(commands)
    /\ LET cmd == Head(commands)
       IN  /\ Settle(cmd.kind, cmd.job.tag)
           /\ crossed' = IF /\ cmd.job.tag \in Unsettled
                            /\ sent[cmd.job.tag] # cmd.job.msg
                         THEN crossed \cup {sent[cmd.job.tag]}
                         ELSE crossed
    /\ UNCHANGED << actorVars, task, hand, taken, abort, conn, pending, db,
                    main, erred >>

\* The stream yields an error: connect_and_consume returns and drops the
\* channel with everything still in the stream; run_consumer sleeps.
StreamError ==
    /\ task = "select"
    /\ link = "closed"
    /\ DropChannel
    /\ task' = "sleep"
    /\ taken' = 0
    /\ UNCHANGED << actorVars, hand, commands, abort, conn, pending, db, main,
                    histVars >>

\* The abort takes effect at an await of the task, some time after stop():
\* until then the task goes on.
TaskDies ==
    /\ abort
    /\ task # "aborted"
    /\ task' = "aborted"
    /\ hand' = NoJob
    /\ taken' = 0
    /\ DropChannel
    /\ UNCHANGED << actorVars, commands, abort, conn, pending, db, main,
                    histVars >>

-----------------------------------------------------------------------------
(* Shutdown (main.rs).                                                     *)

CtrlC ==
    /\ "ctrl_c" \in Faults
    /\ main.at = "serving"
    /\ main' = [at |-> "stop", who |-> "consumer"]
    /\ UNCHANGED << brokerVars, actorVars, taskVars, pending, db, histVars >>

\* stop_gracefully: the stop signal goes to the end of the mailbox.
SendStop ==
    /\ main.at = "stop"
    /\ CanTell(main.who)
    /\ box' = Posted(main.who, Stop)
    /\ main' = [main EXCEPT !.at = "join"]
    /\ UNCHANGED << brokerVars, hold, actor, taskVars, pending, db, histVars >>

\* Mutant: the stop signal is taken from the mailbox and the loop goes on.
HandleStopIgnored(a) ==
    /\ Handles(a, "Stop")
    /\ box' = Popped(a)
    /\ UNCHANGED << brokerVars, hold, actor, taskVars, pending, db, main,
                    histVars >>

HandleStop(a) ==
    /\ TakeStop(a)
    /\ UNCHANGED << brokerVars, taskVars, pending, db, main, histVars >>

\* on_stop: the consumer's stops the AMQP task, the others only log.
OnStop(a) ==
    /\ FinishStop(a)
    /\ abort' = (abort \/ a = "consumer")
    /\ UNCHANGED << brokerVars, task, hand, taken, commands, conn, pending, db,
                    main, histVars >>

\* Mutant: the sink is stopped before the engine.
JoinSinkFirst ==
    /\ main.at = "join"
    /\ main.who \in {"consumer", "engine"}
    /\ actor[main.who] = "stopped"
    /\ main' = [at |-> "stop",
                who |-> IF main.who = "consumer" THEN "sink" ELSE "engine"]
    /\ UNCHANGED << brokerVars, actorVars, taskVars, pending, db, histVars >>

\* wait_for_shutdown returns: the next actor's turn.
Join ==
    /\ main.at = "join"
    /\ main.who \in {"consumer", "engine"}
    /\ actor[main.who] = "stopped"
    /\ main' = [at |-> "stop",
                who |-> IF main.who = "consumer" THEN "engine" ELSE "sink"]
    /\ UNCHANGED << brokerVars, actorVars, taskVars, pending, db, histVars >>

\* The last one has stopped: main returns, and the runtime with whatever is
\* left of the AMQP task goes away.
Exit ==
    /\ main.at = "join"
    /\ main.who = "sink"
    /\ actor["sink"] = "stopped"
    /\ main' = [main EXCEPT !.at = "exited"]
    /\ task' = "aborted"
    /\ hand' = NoJob
    /\ taken' = 0
    /\ DropChannel
    /\ UNCHANGED << actorVars, commands, abort, conn, pending, db, histVars >>

-----------------------------------------------------------------------------
(* What happens around the process.                                        *)

BrokerPushes ==
    /\ \E m \in Msgs : Push(m)
    /\ UNCHANGED << actorVars, taskVars, pending, db, main, histVars >>

LoseConnection ==
    /\ "lost" \in Faults
    /\ Open
    /\ CloseChannel
    /\ UNCHANGED << actorVars, taskVars, pending, db, main, histVars >>

BrokerCancels ==
    /\ "cancel" \in Faults
    /\ CancelConsumer
    /\ UNCHANGED << actorVars, taskVars, pending, db, main, histVars >>

\* The process dies, or had exited, and is started again.  Only the broker
\* and the database remember.
CrashRestart ==
    /\ "crash" \in Faults
    /\ DropChannel
    /\ box' = [a \in Actors |-> IF a = "consumer" THEN << Start >> ELSE << >>]
    /\ hold' = [a \in Actors |-> NoMail]
    /\ actor' = [a \in Actors |-> "running"]
    /\ task' = "none"
    /\ hand' = NoJob
    /\ taken' = 0
    /\ commands' = << >>
    /\ abort' = FALSE
    /\ conn' = 0
    /\ pending' = {}
    /\ main' = [at |-> "serving", who |-> "consumer"]
    /\ UNCHANGED << db, histVars >>

\* Nothing left to do: main has exited, or every queue is empty and the task
\* waits for a delivery or (bound) for a connection it will not get.  Any
\* other state without a step is a deadlock.
AtRest ==
    \/ main.at = "exited"
    \/ /\ \A a \in Actors : box[a] = << >> /\ hold[a] = NoMail
       /\ \/ task = "select" /\ taken = Len(sent) /\ commands = << >>
          \/ task = "connecting" /\ conn = MaxConn

Idle == AtRest /\ UNCHANGED vars

-----------------------------------------------------------------------------

ConsumerStep == HandleStart \/ HandleStore \/ HandleAckMessage \/ SendCommand
EngineStep == HandleEvaluate \/ TellPersist
InsertStep == InsertSucceeds \/ InsertFails
SinkStep == HandlePersist \/ InsertStep \/ TellAck
HandOver == TellStore \/ TellEvaluate \/ HandlerFails
StreamStep == TakeDelivery \/ RejectDelivery \/ StreamError
MainStep == SendStop \/ Join \/ Exit
StopStep(a) == HandleStop(a) \/ OnStop(a)

Next ==
    \/ ConsumerStep \/ EngineStep \/ SinkStep
    \/ \E a \in Actors : StopStep(a)
    \/ Connect \/ ConnectFails \/ Wake
    \/ StreamStep \/ HandOver \/ DrainCommand \/ TaskDies
    \/ CtrlC \/ MainStep
    \/ BrokerPushes \/ LoseConnection \/ BrokerCancels \/ CrashRestart
    \/ Idle

Spec == Init /\ [][Next]_vars

(***************************************************************************)
(* Fairness.  tokio runs every task that can make progress, so each of the *)
(* four is weakly fair; select! polls its branches in random order, so     *)
(* neither the stream nor the commands can starve the other.  The broker   *)
(* is assumed to push what it has and to let the process connect in the    *)
(* end.  No fault is fair.                                                 *)
(***************************************************************************)
Fairness ==
    /\ WF_vars(ConsumerStep)
    /\ WF_vars(EngineStep)
    /\ WF_vars(SinkStep)
    /\ \A a \in Actors : WF_vars(StopStep(a))
    /\ SF_vars(Connect)
    /\ WF_vars(Wake)
    /\ WF_vars(StreamStep)
    /\ WF_vars(HandOver)
    /\ WF_vars(DrainCommand)
    /\ WF_vars(TaskDies)
    /\ WF_vars(MainStep)
    /\ WF_vars(BrokerPushes)

FairSpec == Spec /\ Fairness

-----------------------------------------------------------------------------
(* Properties.                                                             *)

\* A message the broker was told to forget is in the database: acking comes
\* after the commit on every path (SinkActor, ConsumerActor, AMQP task).
AckedIsPersisted == acked \subseteq db

\* What goes to the dead-letter queue did not parse, or its own handling or
\* storing returned an error.
DeadLetteredForCause == dlq \subseteq (Msgs \ Parsable) \cup erred

\* The AMQP task dead-letters a delivery that parses, for want of an actor to
\* hand it to, only during the shutdown.  Until ctrl-c both actors are there and
\* a full mailbox makes the task wait; after it, what the task still takes is
\* not requeued but dead-lettered, with nothing wrong with it.
RefusesOnlyWhenStopping ==
    [][dlq' # dlq /\ hand' # hand => main.at # "serving"]_vars

\* Over any number of connections: a message is acked or dead-lettered on its
\* own result, except for those that a command left over from an earlier
\* channel settled because it carried a tag that had been given out again.
SettledOnOwnResult ==
    /\ acked \ crossed \subseteq db
    /\ dlq \ crossed \subseteq (Msgs \ Parsable) \cup erred

\* Over any number of connections and processes: the pipeline implements
\* Delivery.  A message that was acked or dead-lettered is never settled again,
\* so it is in no queue and with no channel any more; what was settled by
\* mistake is exactly what is recorded in `crossed'.
D == INSTANCE Delivery
        WITH stored <- db, failed <- erred, dead <- dlq, stray <- crossed

KeepsDelivery == D!DeliverySpec

\* Over any number of connections: a delivery the task has taken and the open
\* channel still waits for has something on its way to settle it, so none
\* stays unsettled for as long as the channel lives.  The results of an older
\* channel take tags out of `pending', but each leaves a command behind.
InFlight ==
    { hold[a] : a \in Actors } \cup { commands[i] : i \in 1 .. Len(commands) }
        \cup UNION { { box[a][i] : i \in 1 .. Len(box[a]) } : a \in Actors }

NoDeliveryForgotten ==
    Open /\ main.at = "serving" =>
        \A tag \in Unsettled \cap 1 .. taken :
            \/ hand.tag = tag
            \/ \E mail \in InFlight : mail.kind \in JobKinds \ {"Store"}
                                      /\ mail.job.tag = tag

\* The Store mail of a delivery is handled before the AckMessage about it, so
\* the result of a stored transaction is never ignored for want of the tag.
AckNeverIgnored ==
    \A i \in 1 .. Len(box["consumer"]) :
        LET mail == box["consumer"][i]
            StoredBefore(tag) ==
                \E k \in 1 .. i - 1 : /\ box["consumer"][k].kind = "Store"
                                      /\ box["consumer"][k].job.tag = tag
        IN  mail.kind \in {"Ok", "Err"} =>
                mail.job.tag \in pending \/ StoredBefore(mail.job.tag)

\* A command never carries a tag the open channel does not know or has settled
\* before, which would close the channel under every delivery in flight.
CommandsAreSettleable ==
    Open => \A i \in 1 .. Len(commands) :
                /\ commands[i].job.tag \in Unsettled
                /\ \A k \in 1 .. i - 1 :
                       commands[k].job.tag # commands[i].job.tag

\* The order in which main stops the actors: when the sink has taken its stop
\* signal, no decision is left in the engine or in front of the sink, so every
\* transaction that was evaluated has been stored or has failed to be.
DecisionsStoredAtExit ==
    actor["sink"] # "running" =>
        /\ hold["engine"] = NoMail
        /\ box["sink"] = << >>
        /\ hold["sink"] = NoMail

\* Who cannot go on before whom: a full mailbox, or the full command channel,
\* which the AMQP task empties only in its select loop.
Processes == Actors \cup {"task"}

WaitsFor(p, q) ==
    \/ /\ q \in Actors
       /\ actor[q] = "running"
       /\ Len(box[q]) = MailboxCap
       /\ \/ p = "task" /\ task = "store" /\ q = "consumer"
          \/ p = "task" /\ task = "evaluate" /\ q = "engine"
          \/ p = "engine" /\ hold[p] # NoMail /\ q = "sink"
          \/ p = "sink" /\ hold[p].kind \in {"Ok", "Err"} /\ q = "consumer"
    \/ /\ p = "consumer" /\ q = "task"
       /\ hold[p] # NoMail
       /\ Len(commands) = CommandCap
       /\ task \in {"store", "evaluate"}

\* No set of processes in which everyone waits for another one of the set.
NoWaitCycle ==
    \A S \in (SUBSET Processes) \ {{}} :
        ~ \A p \in S : \E q \in S : WaitsFor(p, q)

\* What it takes for such a cycle: more deliveries taken from the stream and not
\* settled yet than the command channel has places, by two at least.  A broker
\* told to prefetch no more than CommandCap + 1 deliveries would exclude it.
Outstanding == (1 .. taken) \ settled

BlocksOnlyUnderBacklog ==
    ~ NoWaitCycle => Cardinality(Outstanding) >= CommandCap + 2

\* Nothing but such a cycle holds a message up: each one is acked or
\* dead-lettered in the end, unless the process is told to stop.
EverySettled ==
    \A m \in Msgs :
        <>(m \in acked \cup dlq \/ main.at # "serving" \/ ~ NoWaitCycle)

\* Nor holds anything else up main after ctrl-c.
ShutdownCompletes == main.at = "stop" ~> main.at = "exited" \/ ~ NoWaitCycle

\* After the broker has cancelled the consumer, the task consumes again.
Reconnects == link = "cancelled" ~> link = "up"
=============================================================================
