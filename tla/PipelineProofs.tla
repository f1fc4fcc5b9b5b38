--------------------------- MODULE PipelineProofs ---------------------------
(***************************************************************************)
(* Theorems about Pipeline, for every set of messages, every capacity and  *)
(* every set of faults.                                                    *)
(***************************************************************************)
EXTENDS Pipeline, SequenceTheorems, TLAPS

-----------------------------------------------------------------------------
(* Type correctness.                                                       *)

\* What the types of the next state rest on: while the handler runs it has a
\* delivery in hand, and it has it from an open connection.
HandInv ==
    /\ task \in {"select", "store", "evaluate"} => conn # 0
    /\ task \in {"store", "evaluate"} => hand \in Jobs

TypeInv == TypeOK /\ HandInv

\* The types of the broker's variables survive everything the broker does.
LEMMA BrokerTypes ==
    ASSUME BrokerTypeOK,
           \/ \E m \in Msgs : Push(m)
           \/ CloseChannel \/ CancelConsumer \/ OpenChannel \/ DropChannel
           \/ \E k \in {"Ack", "Nack"}, t \in Nat : Settle(k, t)
           \/ UNCHANGED brokerVars
    PROVE  BrokerTypeOK'
<1> USE DEF BrokerTypeOK, Links
<1>1. ASSUME NEW m \in Msgs, Push(m) PROVE BrokerTypeOK'
  BY <1>1 DEF Push
<1>2. Requeued \in SUBSET Msgs
  BY DEF Requeued, Unsettled
<1>3. CASE CloseChannel
  BY <1>2, <1>3 DEF CloseChannel
<1>4. CASE CancelConsumer
  BY <1>4 DEF CancelConsumer
<1>5. CASE OpenChannel
  BY <1>5 DEF OpenChannel
<1>6. CASE DropChannel
  BY <1>2, <1>6 DEF DropChannel
<1>7. ASSUME NEW k \in {"Ack", "Nack"}, NEW t \in Nat, Settle(k, t)
      PROVE  BrokerTypeOK'
  <2>1. CASE SettleTag(k, t)
    BY <2>1 DEF SettleTag, Unsettled
  <2>2. CASE CloseChannel
    BY <1>3, <2>2
  <2>3. CASE UNCHANGED brokerVars
    BY <2>3 DEF brokerVars
  <2> QED BY <1>7, <2>1, <2>2, <2>3 DEF Settle
<1>8. CASE UNCHANGED brokerVars
  BY <1>8 DEF brokerVars
<1> QED BY <1>1, <1>3, <1>4, <1>5, <1>6, <1>7, <1>8

\* Mail of a job kind carries a job.
LEMMA MailTypes ==
    /\ \A mail \in Mail : mail.kind \in JobKinds => mail \in JobMail
    /\ \A mail \in JobMail \cup {NoMail} :
           mail # NoMail \/ mail.kind # "None" => mail \in JobMail
    /\ \A mail \in JobMail : mail.kind \in JobKinds /\ mail.job \in Jobs
    /\ \A kind \in JobKinds, job \in Jobs : MailOf(kind, job) \in JobMail
    /\ JobMail \subseteq Mail
    /\ Start \in Mail /\ Stop \in Mail
BY DEF Mail, JobMail, JobKinds, Signals, NoMail, MailOf, Start, Stop

\* Putting a message into a mailbox, taking one out and setting what a handler
\* holds keep their types.
LEMMA MailboxTypes ==
    ASSUME ActorsTypeOK, NEW a \in Actors
    PROVE  /\ \A mail \in Mail : Posted(a, mail) \in [Actors -> Seq(Mail)]
           /\ box[a] # << >> => /\ Popped(a) \in [Actors -> Seq(Mail)]
                                /\ Head(box[a]) \in Mail
           /\ \A h \in JobMail \cup {NoMail} :
                  [hold EXCEPT ![a] = h] \in [Actors -> JobMail \cup {NoMail}]
BY DEF ActorsTypeOK, Posted, Popped

\* Facts about the constants and the empty channel that many steps need.
LEMMA ConstantTypes ==
    /\ MaxConn \in Nat
    /\ 0 \in 0 .. MaxConn
    /\ << >> \in Seq(JobMail)
<1>1. MaxConn \in Nat
  BY BoundsAssumption DEF BoundsAssumption
<1> QED BY <1>1

\* The initial state is well typed.
LEMMA TypeInit == Init => TypeInv
<1> SUFFICES ASSUME Init PROVE TypeInv
  OBVIOUS
<1>1. BrokerTypeOK
  BY DEF Init, BrokerInit, BrokerTypeOK, Links
<1>2. ActorsTypeOK
  <2>1. Start \in Mail /\ << >> \in Seq(Mail) /\ << Start >> \in Seq(Mail)
    BY MailTypes
  <2> QED BY <2>1 DEF Init, ActorsInit, ActorsTypeOK, Actors
<1>3. TaskTypeOK /\ HandInv
  BY ConstantTypes DEF Init, TaskTypeOK, HandInv, TaskStates
<1> QED BY <1>1, <1>2, <1>3 DEF Init, TypeInv, TypeOK, Actors

\* A part of the state a step leaves alone keeps its type.
LEMMA UnchangedTypes ==
    ASSUME TypeInv
    PROVE  /\ UNCHANGED brokerVars => BrokerTypeOK'
           /\ UNCHANGED actorVars => ActorsTypeOK'
           /\ UNCHANGED taskVars => (TaskTypeOK /\ HandInv)'
           /\ UNCHANGED histVars => (crossed \subseteq Msgs /\ erred \subseteq Msgs)'
<1>1. UNCHANGED brokerVars => BrokerTypeOK'
  BY DEF TypeInv, TypeOK, BrokerTypeOK, brokerVars
<1>2. UNCHANGED actorVars => ActorsTypeOK'
  BY DEF TypeInv, TypeOK, ActorsTypeOK, actorVars
<1>3. UNCHANGED taskVars => (TaskTypeOK /\ HandInv)'
  BY DEF TypeInv, TypeOK, TaskTypeOK, HandInv, taskVars
<1>4. UNCHANGED histVars => (crossed \subseteq Msgs /\ erred \subseteq Msgs)'
  BY DEF TypeInv, TypeOK, histVars
<1> QED BY <1>1, <1>2, <1>3, <1>4

\* A step of the consumer actor.
LEMMA ConsumerTypes == TypeInv /\ ConsumerStep => TypeInv'
<1> SUFFICES ASSUME TypeInv, ConsumerStep PROVE TypeInv'
  OBVIOUS
<1>0. /\ ActorsTypeOK /\ TaskTypeOK /\ HandInv /\ "consumer" \in Actors
      /\ pending \in SUBSET Nat
  BY DEF TypeInv, TypeOK, Actors
<1>1. \A kind \in JobKinds :
          Handles("consumer", kind) => /\ box["consumer"] # << >>
                                       /\ Head(box["consumer"]) \in JobMail
                                       /\ Head(box["consumer"]).job \in Jobs
  BY <1>0, MailTypes, MailboxTypes DEF Handles
<1>2. CASE HandleStart
  <2>1. ActorsTypeOK'
    BY <1>0, <1>2, MailboxTypes DEF HandleStart, Handles, ActorsTypeOK
  <2>2. TaskTypeOK' /\ HandInv'
    BY <1>0, <1>2 DEF HandleStart, TaskTypeOK, HandInv, TaskStates
  <2> QED BY <1>2, <2>1, <2>2, UnchangedTypes DEF HandleStart, TypeInv, TypeOK
<1>3. CASE HandleStore
  <2>1. ActorsTypeOK'
    BY <1>0, <1>3, MailboxTypes DEF HandleStore, Handles, ActorsTypeOK
  <2>2. pending' \in SUBSET Nat
    BY <1>0, <1>1, <1>3 DEF HandleStore, JobKinds, Jobs
  <2> QED BY <1>3, <2>1, <2>2, UnchangedTypes DEF HandleStore, TypeInv, TypeOK
<1>4. CASE HandleAckMessage
  <2> DEFINE mail == Head(box["consumer"])
             kind == IF mail.kind = "Ok" THEN "Ack" ELSE "Nack"
  <2>1. /\ mail.job \in Jobs /\ box["consumer"] # << >>
        /\ MailOf(kind, mail.job) \in JobMail
    BY <1>1, <1>4, MailTypes DEF HandleAckMessage, JobKinds
  <2>2. ActorsTypeOK'
    BY <1>0, <1>4, <2>1, MailboxTypes DEF HandleAckMessage, ActorsTypeOK
  <2>3. pending' \in SUBSET Nat
    BY <1>0, <1>4 DEF HandleAckMessage
  <2> QED BY <1>4, <2>2, <2>3, UnchangedTypes
          DEF HandleAckMessage, TypeInv, TypeOK
<1>5. CASE SendCommand
  <2>1. ActorsTypeOK'
    BY <1>0, <1>5, MailboxTypes DEF SendCommand, ActorsTypeOK
  <2>2. hold["consumer"] \in JobMail
    BY <1>0, <1>5, MailTypes DEF SendCommand, ActorsTypeOK
  <2>3. TaskTypeOK' /\ HandInv'
    BY <1>0, <1>5, <2>2 DEF SendCommand, TaskTypeOK, HandInv
  <2> QED BY <1>5, <2>1, <2>3, UnchangedTypes DEF SendCommand, TypeInv, TypeOK
<1> QED BY <1>2, <1>3, <1>4, <1>5 DEF ConsumerStep

\* A step of the engine or the sink actor.
LEMMA EngineSinkTypes == TypeInv /\ (EngineStep \/ SinkStep) => TypeInv'
<1> SUFFICES ASSUME TypeInv, EngineStep \/ SinkStep PROVE TypeInv'
  OBVIOUS
<1>0. /\ ActorsTypeOK /\ Actors = {"consumer", "engine", "sink"}
      /\ db \in SUBSET Msgs /\ crossed \in SUBSET Msgs /\ erred \in SUBSET Msgs
  BY DEF TypeInv, TypeOK, Actors
<1>1. \A a \in Actors, kind \in JobKinds :
          Handles(a, kind) => /\ box[a] # << >>
                              /\ Head(box[a]) \in JobMail
                              /\ Head(box[a]).job \in Jobs
  <2> SUFFICES ASSUME NEW a \in Actors, NEW kind \in JobKinds,
                      Handles(a, kind)
               PROVE  /\ box[a] # << >>
                      /\ Head(box[a]) \in JobMail
                      /\ Head(box[a]).job \in Jobs
    OBVIOUS
  <2>1. box[a] # << >> /\ Head(box[a]).kind \in JobKinds
    BY DEF Handles
  <2>2. Head(box[a]) \in Mail
    BY <1>0, <2>1, MailboxTypes
  <2> QED BY <2>1, <2>2, MailTypes
<1>2. \A a \in Actors : hold[a] # NoMail \/ hold[a].kind # "None" =>
          /\ hold[a] \in JobMail
          /\ hold[a].job \in Jobs
          /\ hold[a].job.msg \in Msgs
  BY <1>0, MailTypes DEF ActorsTypeOK, Jobs
<1>3. CASE HandleEvaluate
  <2>1. /\ box["engine"] # << >>
        /\ MailOf("Persist", Head(box["engine"]).job) \in JobMail
    BY <1>0, <1>1, <1>3, MailTypes DEF HandleEvaluate, JobKinds
  <2>2. ActorsTypeOK'
    BY <1>0, <1>3, <2>1, MailboxTypes DEF HandleEvaluate, ActorsTypeOK
  <2> QED BY <1>3, <2>2, UnchangedTypes DEF HandleEvaluate, TypeInv, TypeOK
<1>4. CASE TellPersist
  <2>1. hold["engine"] \in Mail
    BY <1>0, <1>2, <1>4, MailTypes DEF TellPersist
  <2>2. ActorsTypeOK'
    BY <1>0, <1>4, <2>1, MailboxTypes DEF TellPersist, ActorsTypeOK
  <2> QED BY <1>4, <2>2, UnchangedTypes DEF TellPersist, TypeInv, TypeOK
<1>5. CASE HandlePersist
  <2>1. box["sink"] # << >> /\ Head(box["sink"]) \in JobMail
    BY <1>0, <1>1, <1>5 DEF HandlePersist, JobKinds
  <2>2. ActorsTypeOK'
    BY <1>0, <1>5, <2>1, MailboxTypes DEF HandlePersist, ActorsTypeOK
  <2> QED BY <1>5, <2>2, UnchangedTypes DEF HandlePersist, TypeInv, TypeOK
<1>6. CASE InsertSucceeds
  <2>1. /\ hold["sink"].job.msg \in Msgs
        /\ MailOf("Ok", hold["sink"].job) \in JobMail
    BY <1>0, <1>2, <1>6, MailTypes DEF InsertSucceeds, JobKinds
  <2>2. ActorsTypeOK'
    BY <1>0, <1>6, <2>1, MailboxTypes DEF InsertSucceeds, ActorsTypeOK
  <2> QED BY <1>0, <1>6, <2>1, <2>2, UnchangedTypes
          DEF InsertSucceeds, TypeInv, TypeOK
<1>7. CASE InsertFails
  <2>1. /\ hold["sink"].job.msg \in Msgs
        /\ MailOf("Err", hold["sink"].job) \in JobMail
    BY <1>0, <1>2, <1>7, MailTypes DEF InsertFails, JobKinds
  <2>2. ActorsTypeOK'
    BY <1>0, <1>7, <2>1, MailboxTypes DEF InsertFails, ActorsTypeOK
  <2>3. db' \in SUBSET Msgs /\ erred' \in SUBSET Msgs
    BY <1>0, <1>7, <2>1 DEF InsertFails
  <2> QED BY <1>0, <1>7, <2>2, <2>3, UnchangedTypes
          DEF InsertFails, TypeInv, TypeOK
<1>8. CASE TellAck
  <2>1. hold["sink"] \in Mail
    BY <1>0, <1>2, <1>8, MailTypes DEF TellAck
  <2>2. box' \in [Actors -> Seq(Mail)]
    <3>1. "consumer" \in Actors
      BY <1>0
    <3>2. CASE box' = Posted("consumer", hold["sink"])
      BY <1>0, <2>1, <3>1, <3>2, MailboxTypes
    <3>3. CASE UNCHANGED box
      BY <1>0, <3>3 DEF ActorsTypeOK
    <3> QED BY <1>8, <3>2, <3>3 DEF TellAck
  <2>3. ActorsTypeOK'
    BY <1>0, <1>8, <2>2, MailboxTypes DEF TellAck, ActorsTypeOK
  <2> QED BY <1>8, <2>3, UnchangedTypes DEF TellAck, TypeInv, TypeOK
<1> QED BY <1>3, <1>4, <1>5, <1>6, <1>7, <1>8
        DEF EngineStep, SinkStep, InsertStep

\* A step of the AMQP task.
TaskStep ==
    \/ Connect \/ ConnectFails \/ Wake
    \/ StreamStep \/ HandOver \/ DrainCommand \/ TaskDies

\* So do the steps of the AMQP task: it hands over a delivery of the stream.
LEMMA TaskTypes == TypeInv /\ TaskStep => TypeInv'
<1> SUFFICES ASSUME TypeInv, TaskStep PROVE TypeInv'
  OBVIOUS
<1>0. /\ BrokerTypeOK /\ ActorsTypeOK /\ TaskTypeOK /\ HandInv
      /\ Actors = {"consumer", "engine", "sink"}
      /\ crossed \in SUBSET Msgs /\ erred \in SUBSET Msgs
  BY DEF TypeInv, TypeOK, Actors
<1>1. task = "select" /\ taken < Len(sent) =>
          /\ sent[taken + 1] \in Msgs
          /\ [tag |-> taken + 1, msg |-> sent[taken + 1], conn |-> conn] \in Jobs
  BY <1>0, ConstantTypes DEF BrokerTypeOK, TaskTypeOK, HandInv, Jobs
<1>2. task \in {"store", "evaluate"} =>
          /\ hand \in Jobs
          /\ hand.tag \in Nat /\ hand.msg \in Msgs
          /\ MailOf("Store", hand) \in Mail
          /\ MailOf("Evaluate", hand) \in Mail
  BY <1>0, MailTypes DEF HandInv, Jobs, JobKinds
<1>3. CASE Connect
  <2>1. BrokerTypeOK'
    BY <1>0, <1>3, BrokerTypes DEF Connect
  <2>2. TaskTypeOK' /\ HandInv'
    BY <1>0, <1>3, ConstantTypes DEF Connect, TaskTypeOK, HandInv, TaskStates
  <2> QED BY <1>3, <2>1, <2>2, UnchangedTypes DEF Connect, TypeInv, TypeOK
<1>4. CASE ConnectFails
  <2>1. TaskTypeOK' /\ HandInv'
    BY <1>0, <1>4 DEF ConnectFails, TaskTypeOK, HandInv, TaskStates
  <2> QED BY <1>4, <2>1, UnchangedTypes DEF ConnectFails, TypeInv, TypeOK
<1>5. CASE Wake
  <2>1. TaskTypeOK' /\ HandInv'
    BY <1>0, <1>5 DEF Wake, TaskTypeOK, HandInv, TaskStates
  <2> QED BY <1>5, <2>1, UnchangedTypes DEF Wake, TypeInv, TypeOK
<1>6. CASE TakeDelivery
  <2>1. TaskTypeOK' /\ HandInv'
    BY <1>0, <1>1, <1>6 DEF TakeDelivery, TaskTypeOK, HandInv, TaskStates
  <2> QED BY <1>6, <2>1, UnchangedTypes DEF TakeDelivery, TypeInv, TypeOK
<1>7. CASE RejectDelivery
  <2>1. BrokerTypeOK'
    BY <1>0, <1>7, BrokerTypes DEF RejectDelivery, TaskTypeOK
  <2>2. TaskTypeOK' /\ HandInv'
    BY <1>0, <1>7 DEF RejectDelivery, TaskTypeOK, HandInv
  <2> QED BY <1>7, <2>1, <2>2, UnchangedTypes
          DEF RejectDelivery, TypeInv, TypeOK
<1>8. CASE TellStore
  <2>1. ActorsTypeOK'
    BY <1>0, <1>2, <1>8, MailboxTypes DEF TellStore, ActorsTypeOK
  <2>2. TaskTypeOK' /\ HandInv'
    BY <1>0, <1>2, <1>8 DEF TellStore, TaskTypeOK, HandInv, TaskStates
  <2> QED BY <1>8, <2>1, <2>2, UnchangedTypes DEF TellStore, TypeInv, TypeOK
<1>9. CASE TellEvaluate
  <2>1. ActorsTypeOK'
    BY <1>0, <1>2, <1>9, MailboxTypes DEF TellEvaluate, ActorsTypeOK
  <2>2. TaskTypeOK' /\ HandInv'
    BY <1>0, <1>9 DEF TellEvaluate, TaskTypeOK, HandInv, TaskStates
  <2> QED BY <1>9, <2>1, <2>2, UnchangedTypes DEF TellEvaluate, TypeInv, TypeOK
<1>10. CASE HandlerFails
  <2>1. task \in {"store", "evaluate"}
    BY <1>10 DEF HandlerFails
  <2>2. BrokerTypeOK'
    BY <1>0, <1>2, <1>10, <2>1, BrokerTypes DEF HandlerFails
  <2>3. TaskTypeOK' /\ HandInv'
    BY <1>0, <1>10, <2>1 DEF HandlerFails, TaskTypeOK, HandInv, TaskStates
  <2>4. erred' \in SUBSET Msgs
    BY <1>0, <1>2, <1>10, <2>1 DEF HandlerFails
  <2> QED BY <1>10, <2>2, <2>3, <2>4, UnchangedTypes
          DEF HandlerFails, TypeInv, TypeOK
<1>11. CASE DrainCommand
  <2> DEFINE cmd == Head(commands)
  <2>1. /\ cmd \in JobMail /\ Tail(commands) \in Seq(JobMail)
        /\ cmd.job.tag \in Nat
    BY <1>0, <1>11, MailTypes DEF DrainCommand, TaskTypeOK, Jobs
  <2>2. BrokerTypeOK'
    <3>1. CASE SettleTag(cmd.kind, cmd.job.tag)
      <4>1. cmd.job.tag \in 1 .. Len(sent) /\ sent[cmd.job.tag] \in Msgs
        BY <1>0, <3>1 DEF SettleTag, BrokerTypeOK, Unsettled
      <4> HIDE DEF cmd
      <4> QED BY <1>0, <2>1, <3>1, <4>1 DEF SettleTag, BrokerTypeOK
    <3>2. CASE CloseChannel
      BY <1>0, <3>2, BrokerTypes
    <3>3. CASE UNCHANGED brokerVars
      BY <1>0, <3>3, BrokerTypes
    <3> QED BY <1>11, <3>1, <3>2, <3>3 DEF DrainCommand, Settle
  <2>3. TaskTypeOK' /\ HandInv'
    BY <1>0, <1>11, <2>1 DEF DrainCommand, TaskTypeOK, HandInv
  <2>4. crossed' \in SUBSET Msgs
    BY <1>0, <1>11, <2>1 DEF DrainCommand, BrokerTypeOK, Unsettled
  <2> QED BY <1>11, <2>2, <2>3, <2>4, UnchangedTypes
          DEF DrainCommand, TypeInv, TypeOK
<1>12. CASE StreamError
  <2>1. BrokerTypeOK'
    BY <1>0, <1>12, BrokerTypes DEF StreamError
  <2>2. TaskTypeOK' /\ HandInv'
    BY <1>0, <1>12 DEF StreamError, TaskTypeOK, HandInv, TaskStates
  <2> QED BY <1>12, <2>1, <2>2, UnchangedTypes DEF StreamError, TypeInv, TypeOK
<1>13. CASE TaskDies
  <2>1. BrokerTypeOK'
    BY <1>0, <1>13, BrokerTypes DEF TaskDies
  <2>2. TaskTypeOK' /\ HandInv'
    BY <1>0, <1>13 DEF TaskDies, TaskTypeOK, HandInv, TaskStates
  <2> QED BY <1>13, <2>1, <2>2, UnchangedTypes DEF TaskDies, TypeInv, TypeOK
<1> QED BY <1>3, <1>4, <1>5, <1>6, <1>7, <1>8, <1>9, <1>10, <1>11, <1>12, <1>13
        DEF TaskStep, StreamStep, HandOver

\* A step of the shutdown: of main, or of an actor that stops.
ShutdownStep == CtrlC \/ MainStep \/ \E a \in Actors : StopStep(a)

\* So do the steps of main and of the actors that stop.
LEMMA ShutdownTypes == TypeInv /\ ShutdownStep => TypeInv'
<1> SUFFICES ASSUME TypeInv, ShutdownStep PROVE TypeInv'
  OBVIOUS
<1>0. /\ BrokerTypeOK /\ ActorsTypeOK /\ TaskTypeOK /\ HandInv
      /\ Actors = {"consumer", "engine", "sink"}
      /\ main \in [at : {"serving", "stop", "join", "exited"}, who : Actors]
  BY DEF TypeInv, TypeOK, Actors
<1>1. CASE CtrlC
  BY <1>0, <1>1, UnchangedTypes DEF CtrlC, TypeInv, TypeOK
<1>2. CASE SendStop
  <2>1. main.who \in Actors
    BY <1>0
  <2>2. ActorsTypeOK'
    BY <1>0, <1>2, <2>1, MailTypes, MailboxTypes DEF SendStop, ActorsTypeOK
  <2> QED BY <1>0, <1>2, <2>2, UnchangedTypes DEF SendStop, TypeInv, TypeOK
<1>3. CASE Join
  BY <1>0, <1>3, UnchangedTypes DEF Join, TypeInv, TypeOK
<1>4. CASE Exit
  <2>1. BrokerTypeOK'
    BY <1>0, <1>4, BrokerTypes DEF Exit
  <2>2. TaskTypeOK' /\ HandInv'
    BY <1>0, <1>4 DEF Exit, TaskTypeOK, HandInv, TaskStates
  <2> QED BY <1>0, <1>4, <2>1, <2>2, UnchangedTypes DEF Exit, TypeInv, TypeOK
<1>5. ASSUME NEW a \in Actors, HandleStop(a) PROVE TypeInv'
  <2>1. ActorsTypeOK'
    BY <1>0, <1>5, MailboxTypes DEF HandleStop, TakeStop, Handles, ActorsTypeOK
  <2> QED BY <1>5, <2>1, UnchangedTypes DEF HandleStop, TypeInv, TypeOK
<1>6. ASSUME NEW a \in Actors, OnStop(a) PROVE TypeInv'
  <2>1. << >> \in Seq(Mail)
    OBVIOUS
  <2>2. ActorsTypeOK'
    BY <1>0, <1>6, <2>1 DEF OnStop, FinishStop, ActorsTypeOK
  <2>3. TaskTypeOK' /\ HandInv'
    BY <1>0, <1>6 DEF OnStop, TaskTypeOK, HandInv
  <2> QED BY <1>6, <2>2, <2>3, UnchangedTypes DEF OnStop, TypeInv, TypeOK
<1> QED BY <1>1, <1>2, <1>3, <1>4, <1>5, <1>6
        DEF ShutdownStep, MainStep, StopStep

\* A step of the world around the process.
WorldStep == BrokerPushes \/ LoseConnection \/ BrokerCancels \/ CrashRestart

\* So do the broker, a lost connection, and a crash with its restart.
LEMMA WorldTypes == TypeInv /\ WorldStep => TypeInv'
<1> SUFFICES ASSUME TypeInv, WorldStep PROVE TypeInv'
  OBVIOUS
<1>0. BrokerTypeOK
  BY DEF TypeInv, TypeOK
<1>1. CASE BrokerPushes
  <2>1. BrokerTypeOK'
    BY <1>0, <1>1, BrokerTypes DEF BrokerPushes
  <2> QED BY <1>1, <2>1, UnchangedTypes DEF BrokerPushes, TypeInv, TypeOK
<1>2. CASE LoseConnection
  <2>1. BrokerTypeOK'
    BY <1>0, <1>2, BrokerTypes DEF LoseConnection
  <2> QED BY <1>2, <2>1, UnchangedTypes DEF LoseConnection, TypeInv, TypeOK
<1>3. CASE BrokerCancels
  <2>1. BrokerTypeOK'
    BY <1>0, <1>3, BrokerTypes DEF BrokerCancels
  <2> QED BY <1>3, <2>1, UnchangedTypes DEF BrokerCancels, TypeInv, TypeOK
<1>4. CASE CrashRestart
  <2>1. BrokerTypeOK'
    BY <1>0, <1>4, BrokerTypes DEF CrashRestart
  <2>2. << >> \in Seq(Mail) /\ << Start >> \in Seq(Mail)
    BY MailTypes
  <2>3. ActorsTypeOK'
    BY <1>4, <2>2 DEF CrashRestart, ActorsTypeOK
  <2>4. TaskTypeOK' /\ HandInv'
    BY <1>4, ConstantTypes DEF CrashRestart, TaskTypeOK, HandInv, TaskStates
  <2> QED BY <1>4, <2>1, <2>3, <2>4, UnchangedTypes
          DEF CrashRestart, TypeInv, TypeOK, Actors
<1> QED BY <1>1, <1>2, <1>3, <1>4 DEF WorldStep

\* The next-state relation, by who takes the step.
LEMMA NextByActor ==
    Next <=> \/ ConsumerStep \/ EngineStep \/ SinkStep
             \/ TaskStep \/ ShutdownStep \/ WorldStep \/ Idle
BY DEF Next, TaskStep, ShutdownStep, WorldStep

\* Doing nothing keeps the types.
LEMMA TypeStutter == TypeInv /\ (Idle \/ UNCHANGED vars) => TypeInv'
<1> SUFFICES ASSUME TypeInv, UNCHANGED vars PROVE TypeInv'
  BY DEF Idle
<1> QED BY UnchangedTypes DEF vars, TypeInv, TypeOK

\* The inductive invariant: well typed, and in `store' and `evaluate' the AMQP
\* task has a delivery in hand.
THEOREM TypeInvariant == Spec => []TypeInv
<1>1. TypeInv /\ [Next]_vars => TypeInv'
  BY ConsumerTypes, EngineSinkTypes, TaskTypes, ShutdownTypes, WorldTypes,
     NextByActor, TypeStutter
<1> QED BY TypeInit, <1>1, PTL DEF Spec

\* Every reachable state of the pipeline, on whatever schedule, with whatever
\* faults, has well-typed queues and a delivery in hand where the code has one.
THEOREM TypeCorrect == Spec => []TypeOK
<1>1. TypeInv => TypeOK
  BY DEF TypeInv
<1> QED BY TypeInvariant, <1>1, PTL

-----------------------------------------------------------------------------
(* Queues.                                                                 *)

\* A queue with one more message.
LEMMA AppendFacts ==
    ASSUME NEW S, NEW s \in Seq(S), NEW e \in S
    PROVE  /\ Len(Append(s, e)) = Len(s) + 1 /\ Len(s) \in Nat
           /\ Append(s, e)[Len(s) + 1] = e
           /\ \A i \in 1 .. Len(s) : Append(s, e)[i] = s[i]
OBVIOUS

\* A queue without its first message.
LEMMA TailFacts ==
    ASSUME NEW S, NEW s \in Seq(S), s # << >>
    PROVE  /\ Len(Tail(s)) = Len(s) - 1 /\ Len(s) \in Nat \ {0}
           /\ \A i \in 1 .. Len(Tail(s)) :
                  i + 1 \in 1 .. Len(s) /\ Tail(s)[i] = s[i + 1]
           /\ Head(s) = s[1]
           /\ Len(s) = 1 => Tail(s) = << >>
<1>1. Tail(s) \in Seq(S) /\ Len(Tail(s)) = Len(s) - 1 /\ Len(s) \in Nat
  BY HeadTailProperties
<1>2. Len(s) # 0 /\ Head(s) = s[1]
  OBVIOUS
<1>3. \A i \in 1 .. Len(Tail(s)) :
          i + 1 \in 1 .. Len(s) /\ Tail(s)[i] = s[i + 1]
  BY <1>1, HeadTailProperties
<1>4. Len(s) = 1 => Tail(s) = << >>
  <2>1. Tail(s) # << >> => Len(Tail(s)) \in Nat \ {0}
    BY <1>1, EmptySeq, Zenon
  <2> QED BY <1>1, <2>1
<1> QED BY <1>1, <1>2, <1>3, <1>4

-----------------------------------------------------------------------------
(* Why no decision is lost in a shutdown.  main asks the sink to stop only *)
(* after it has joined the engine.  The engine told its last decision      *)
(* before it took its own stop signal, so nothing comes into the sink's    *)
(* mailbox behind the sink's.                                              *)

\* An actor that has taken its stop signal was not in the middle of anything.
NoneHeld == \A a \in Actors : actor[a] # "running" => hold[a] = NoMail

\* The sink is main's last, after the engine.
SinkLast ==
    /\ main.at = "serving" => main.who = "consumer"
    /\ main.who = "sink" => actor["engine"] = "stopped"
    /\ actor["sink"] # "running" =>
           /\ main.who = "sink" /\ main.at \in {"join", "exited"}
           /\ box["sink"] = << >>

IsStop(i) == i \in 1 .. Len(box["sink"]) /\ box["sink"][i].kind = "Stop"

\* The sink's stop signal is the last message of its mailbox.
StopLast ==
    \A i \in Nat : IsStop(i) => /\ main.who = "sink" /\ main.at = "join"
                                /\ i = Len(box["sink"])

ShutdownInv == NoneHeld /\ SinkLast /\ StopLast

-----------------------------------------------------------------------------

\* A step that leaves main, the life cycles and the sink's mailbox alone.
LEMMA NotTheSink ==
    ASSUME ShutdownInv, UNCHANGED << actor, main >>, box'["sink"] = box["sink"],
           \A a \in Actors : hold'[a] = hold[a] \/ actor[a] = "running"
    PROVE  ShutdownInv'
BY DEF ShutdownInv, NoneHeld, SinkLast, StopLast, IsStop

\* Posting to another mailbox, and taking from one.
LEMMA OtherBox ==
    ASSUME ActorsTypeOK, NEW a \in Actors \ {"sink"}
    PROVE  /\ \A mail : box' = Posted(a, mail) => box'["sink"] = box["sink"]
           /\ box' = Popped(a) => box'["sink"] = box["sink"]
BY DEF ActorsTypeOK, Posted, Popped, Actors

\* Only a handler of a running actor changes what it holds, except that it may
\* let go of it.
LEMMA HoldChange ==
    ASSUME ActorsTypeOK, NEW a \in Actors, NEW h,
           hold' = [hold EXCEPT ![a] = h],
           NoneHeld, actor[a] = "running" \/ hold[a] # NoMail
    PROVE  \A b \in Actors : hold'[b] = hold[b] \/ actor[b] = "running"
BY DEF ActorsTypeOK, NoneHeld

\* The sink's mailbox one message shorter.
LEMMA SinkTakes ==
    ASSUME ActorsTypeOK, ShutdownInv, UNCHANGED << actor, main >>,
           actor["sink"] = "running", box["sink"] # << >>, box' = Popped("sink"),
           \A a \in Actors : hold'[a] = hold[a] \/ actor[a] = "running"
    PROVE  ShutdownInv'
<1>1. box["sink"] \in Seq(Mail) /\ box'["sink"] = Tail(box["sink"])
  BY DEF ActorsTypeOK, Popped, Actors
<1>2. \A i \in Nat : IsStop(i)' => IsStop(i + 1) /\ i + 1 \in Nat
  <2> SUFFICES ASSUME NEW i \in Nat, IsStop(i)' PROVE IsStop(i + 1)
    OBVIOUS
  <2>1. /\ i \in 1 .. Len(Tail(box["sink"]))
        /\ Tail(box["sink"])[i].kind = "Stop"
    BY <1>1 DEF IsStop
  <2> QED BY <1>1, <2>1, TailFacts DEF IsStop
<1>3. Len(box'["sink"]) = Len(box["sink"]) - 1
  BY <1>1, TailFacts
<1>4. StopLast'
  BY <1>1, <1>2, <1>3 DEF ShutdownInv, StopLast
<1> QED BY <1>4 DEF ShutdownInv, NoneHeld, SinkLast

\* What the actors do with their messages.
LEMMA ActorSteps ==
    ASSUME TypeInv, ShutdownInv, ConsumerStep \/ EngineStep \/ SinkStep
    PROVE  ShutdownInv'
<1>0. /\ ActorsTypeOK /\ Actors = {"consumer", "engine", "sink"}
      /\ NoneHeld
  BY DEF TypeInv, TypeOK, Actors, ShutdownInv
<1>1. CASE ConsumerStep
  <2>1. UNCHANGED << actor, main >> /\ box'["sink"] = box["sink"]
    BY <1>0, <1>1, OtherBox
       DEF ConsumerStep, HandleStart, HandleStore, HandleAckMessage, SendCommand
  <2>2. \A a \in Actors : hold'[a] = hold[a] \/ actor[a] = "running"
    BY <1>0, <1>1, HoldChange
       DEF ConsumerStep, HandleStart, HandleStore, HandleAckMessage,
           SendCommand, Handles
  <2> QED BY <2>1, <2>2, NotTheSink
<1>2. CASE HandleEvaluate
  <2>1. UNCHANGED << actor, main >> /\ box'["sink"] = box["sink"]
    BY <1>0, <1>2, OtherBox DEF HandleEvaluate
  <2>2. \A a \in Actors : hold'[a] = hold[a] \/ actor[a] = "running"
    BY <1>0, <1>2, HoldChange DEF HandleEvaluate, Handles
  <2> QED BY <2>1, <2>2, NotTheSink
<1>3. CASE TellPersist
  <2>1. /\ actor["engine"] = "running" /\ UNCHANGED << actor, main >>
        /\ hold["engine"].kind \in JobKinds
    BY <1>0, <1>3, MailTypes DEF TellPersist, NoneHeld, ActorsTypeOK
  <2>2. main.who # "sink" /\ actor["sink"] = "running"
    BY <2>1 DEF ShutdownInv, SinkLast
  <2>3. \A i \in Nat : ~ IsStop(i)
    BY <2>2 DEF ShutdownInv, StopLast
  <2>4. box["sink"] \in Seq(Mail)
        /\ box'["sink"] = Append(box["sink"], hold["engine"])
    BY <1>0, <1>3 DEF TellPersist, Posted, ActorsTypeOK
  <2>5. hold["engine"].kind # "Stop"
    BY <2>1 DEF JobKinds
  <2>6. \A i \in Nat : ~ IsStop(i)'
    BY <2>3, <2>4, <2>5 DEF IsStop
  <2>7. NoneHeld'
    BY <1>0, <1>3, <2>1 DEF TellPersist, NoneHeld, ActorsTypeOK
  <2> QED BY <2>1, <2>2, <2>6, <2>7 DEF ShutdownInv, SinkLast, StopLast
<1>4. CASE HandlePersist
  <2>1. \A a \in Actors : hold'[a] = hold[a] \/ actor[a] = "running"
    BY <1>0, <1>4, HoldChange DEF HandlePersist, Handles
  <2> QED BY <1>0, <1>4, <2>1, SinkTakes DEF HandlePersist, Handles
<1>5. CASE InsertStep \/ TellAck
  <2>1. UNCHANGED << actor, main >> /\ box'["sink"] = box["sink"]
    BY <1>0, <1>5, OtherBox DEF InsertStep, InsertSucceeds, InsertFails, TellAck
  <2>2. hold["sink"] # NoMail /\ \E h : hold' = [hold EXCEPT !["sink"] = h]
    BY <1>5 DEF InsertStep, InsertSucceeds, InsertFails, TellAck, NoMail
  <2>3. \A a \in Actors : hold'[a] = hold[a] \/ actor[a] = "running"
    BY <1>0, <2>2, HoldChange
  <2> QED BY <2>1, <2>3, NotTheSink
<1> QED BY <1>1, <1>2, <1>3, <1>4, <1>5 DEF EngineStep, SinkStep

\* What the AMQP task and the world do; a restart begins from the start.
LEMMA OtherSteps ==
    ASSUME TypeInv, ShutdownInv, TaskStep \/ WorldStep \/ UNCHANGED vars
    PROVE  ShutdownInv'
<1>0. ActorsTypeOK /\ Actors = {"consumer", "engine", "sink"}
  BY DEF TypeInv, TypeOK, Actors
<1>1. CASE UNCHANGED << actorVars, main >>
  BY <1>1, NotTheSink DEF actorVars
<1>2. CASE TellStore \/ TellEvaluate
  <2>1. /\ UNCHANGED << actor, hold, main >>
        /\ box'["sink"] = box["sink"]
    BY <1>0, <1>2, OtherBox DEF TellStore, TellEvaluate
  <2> QED BY <2>1, NotTheSink
<1>3. CASE CrashRestart
  BY <1>3 DEF CrashRestart, Actors, ShutdownInv, NoneHeld, SinkLast, StopLast,
              IsStop
<1> QED BY <1>1, <1>2, <1>3
        DEF TaskStep, StreamStep, HandOver, Connect, ConnectFails, Wake,
            TakeDelivery, RejectDelivery, StreamError, HandlerFails,
            DrainCommand, TaskDies, WorldStep, BrokerPushes, LoseConnection,
            BrokerCancels, vars

\* main stops one actor after the other.
LEMMA StopSteps ==
    ASSUME TypeInv, ShutdownInv, ShutdownStep PROVE ShutdownInv'
<1>0. /\ ActorsTypeOK /\ Actors = {"consumer", "engine", "sink"}
      /\ main \in [at : {"serving", "stop", "join", "exited"}, who : Actors]
  BY DEF TypeInv, TypeOK, Actors
<1> USE DEF ShutdownInv
<1>1. CASE CtrlC
  BY <1>1 DEF CtrlC, actorVars, NoneHeld, SinkLast, StopLast, IsStop
<1>2. CASE SendStop
  <2>1. /\ main.at = "stop" /\ main' = [at |-> "join", who |-> main.who]
        /\ UNCHANGED << actor, hold >>
        /\ box' = Posted(main.who, Stop)
    BY <1>0, <1>2 DEF SendStop
  <2>2. actor["sink"] = "running" /\ \A i \in Nat : ~ IsStop(i)
    BY <2>1 DEF SinkLast, StopLast
  <2>3. CASE main.who = "sink"
    <3>1. /\ box["sink"] \in Seq(Mail)
          /\ box'["sink"] = Append(box["sink"], Stop)
      BY <1>0, <2>1, <2>3 DEF Posted, ActorsTypeOK
    <3>2. \A i \in Nat : IsStop(i)' => IsStop(i) \/ i = Len(box["sink"]) + 1
      BY <3>1 DEF IsStop
    <3>3. Len(box'["sink"]) = Len(box["sink"]) + 1
      BY <3>1
    <3> QED BY <2>1, <2>2, <2>3, <3>2, <3>3 DEF NoneHeld, SinkLast, StopLast
  <2>4. CASE main.who # "sink"
    <3>1. box'["sink"] = box["sink"]
      BY <1>0, <2>1, <2>4, OtherBox
    <3> QED BY <2>1, <2>2, <2>4, <3>1 DEF NoneHeld, SinkLast, StopLast, IsStop
  <2> QED BY <2>3, <2>4
<1>3. CASE Join
  <2>1. /\ UNCHANGED << actor, hold, box >>
        /\ main.who # "sink" /\ main'.at = "stop"
        /\ main'.who = "sink" => actor["engine"] = "stopped"
    BY <1>3 DEF Join, actorVars
  <2>2. actor["sink"] = "running" /\ \A i \in Nat : ~ IsStop(i)
    BY <2>1 DEF SinkLast, StopLast
  <2> QED BY <2>1, <2>2 DEF NoneHeld, SinkLast, StopLast, IsStop
<1>4. CASE Exit
  <2>1. /\ main' = [at |-> "exited", who |-> main.who] /\ main.who = "sink"
        /\ actor["sink"] = "stopped"
        /\ UNCHANGED << actor, hold, box >>
    BY <1>0, <1>4 DEF Exit, actorVars
  <2>2. box["sink"] = << >>
    BY <2>1 DEF SinkLast
  <2> QED BY <2>1, <2>2 DEF NoneHeld, SinkLast, StopLast, IsStop
<1>5. ASSUME NEW a \in Actors, HandleStop(a) PROVE ShutdownInv'
  <2>1. /\ actor[a] = "running" /\ hold[a] = NoMail /\ box[a] # << >>
        /\ Head(box[a]).kind = "Stop" /\ box' = Popped(a)
        /\ actor' = [actor EXCEPT ![a] = "stopping"]
        /\ UNCHANGED << hold, main >>
    BY <1>5 DEF HandleStop, TakeStop, Handles
  <2>2. NoneHeld'
    BY <1>0, <2>1 DEF NoneHeld, ActorsTypeOK
  <2>3. CASE a = "sink"
    <3>1. box["sink"] \in Seq(Mail) /\ box["sink"] # << >>
      BY <1>0, <2>1, <2>3 DEF ActorsTypeOK
    <3>2. box["sink"][1].kind = "Stop"
      BY <2>1, <2>3, <3>1
    <3>3. IsStop(1)
      BY <3>1, <3>2 DEF IsStop
    <3>4. main.who = "sink" /\ main.at = "join" /\ Len(box["sink"]) = 1
      BY <3>3 DEF StopLast
    <3>5. box'["sink"] = << >>
      <4>1. box'["sink"] = Tail(box["sink"])
        BY <1>0, <2>1, <2>3 DEF Popped, ActorsTypeOK
      <4> QED BY <3>1, <3>4, <4>1, TailFacts
    <3>6. actor'["engine"] = actor["engine"]
      BY <1>0, <2>1, <2>3 DEF ActorsTypeOK
    <3> QED BY <2>1, <2>2, <3>4, <3>5, <3>6 DEF SinkLast, StopLast, IsStop
  <2>4. CASE a # "sink"
    <3>1. box'["sink"] = box["sink"] /\ actor'["sink"] = actor["sink"]
      BY <1>0, <2>1, <2>4, OtherBox DEF ActorsTypeOK
    <3>2. actor["engine"] = "stopped" => actor'["engine"] = "stopped"
      BY <1>0, <2>1 DEF ActorsTypeOK
    <3> QED BY <2>1, <2>2, <3>1, <3>2 DEF SinkLast, StopLast, IsStop
  <2> QED BY <2>3, <2>4
<1>6. ASSUME NEW a \in Actors, OnStop(a) PROVE ShutdownInv'
  <2>1. /\ actor[a] = "stopping"
        /\ actor' = [actor EXCEPT ![a] = "stopped"]
        /\ box' = [box EXCEPT ![a] = << >>]
        /\ UNCHANGED << hold, main >>
    BY <1>6 DEF OnStop, FinishStop
  <2>2. NoneHeld'
    BY <1>0, <2>1 DEF NoneHeld, ActorsTypeOK
  <2>3. box'["sink"] = << >> \/ box'["sink"] = box["sink"]
    BY <1>0, <2>1 DEF ActorsTypeOK
  <2>4. actor'["sink"] # "running" => actor["sink"] # "running"
    BY <1>0, <2>1 DEF ActorsTypeOK
  <2>5. actor["engine"] = "stopped" => actor'["engine"] = "stopped"
    BY <1>0, <2>1 DEF ActorsTypeOK
  <2> QED BY <2>1, <2>2, <2>3, <2>4, <2>5 DEF SinkLast, StopLast, IsStop
<1> QED BY <1>1, <1>2, <1>3, <1>4, <1>5, <1>6
        DEF ShutdownStep, MainStep, StopStep

\* The inductive invariant of the shutdown.
THEOREM ShutdownInvariant == Spec => []ShutdownInv
<1>1. Init => ShutdownInv
  BY DEF Init, ActorsInit, Actors, ShutdownInv, NoneHeld, SinkLast, StopLast,
         IsStop
<1>2. TypeInv /\ ShutdownInv /\ [Next]_vars => ShutdownInv'
  BY ActorSteps, OtherSteps, StopSteps, NextByActor DEF Idle
<1> QED BY <1>1, <1>2, TypeInvariant, PTL DEF Spec

\* When the sink takes its stop signal, every decision that was made has been
\* stored or has failed to be: none is left with the engine or before the sink.
THEOREM NoDecisionLost == Spec => []DecisionsStoredAtExit
<1>1. ShutdownInv => DecisionsStoredAtExit
  BY DEF ShutdownInv, NoneHeld, SinkLast, DecisionsStoredAtExit, Actors
<1> QED BY <1>1, ShutdownInvariant, PTL
=============================================================================
