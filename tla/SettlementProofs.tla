-------------------------- MODULE SettlementProofs --------------------------
(***************************************************************************)
(* Why a message is settled once and on its own result.                    *)
(*                                                                         *)
(* Two things are true of every mail on its way through the pipeline.  It  *)
(* is justified: an Ok or Ack speaks of a stored message, an Err or Nack   *)
(* of one whose handling or storing failed.  And its tag is placed: on the *)
(* channel the delivery came from, the tag names the mail's own message,   *)
(* which did parse.                                                        *)
(* A command drained on the channel of its delivery therefore settles the  *)
(* right message; only one left over from an older channel can do harm.    *)
(***************************************************************************)
EXTENDS PipelineProofs

Justified(mail) ==
    /\ mail.kind \in {"Ok", "Ack"} => mail.job.msg \in db
    /\ mail.kind \in {"Err", "Nack"} => mail.job.msg \in erred

Placed(job) ==
    /\ job.msg \in Parsable
    /\ job.conn <= conn
    /\ job.conn = conn /\ Open => /\ job.tag \in 1 .. Len(sent)
                                  /\ sent[job.tag] = job.msg

MailInv ==
    \A mail \in JobMail : mail \in InFlight => /\ Justified(mail)
                                               /\ Placed(mail.job)

HandPlaced ==
    task \in {"store", "evaluate"} => hand.conn = conn /\ Placed(hand)

\* Only a command of an older connection crosses.
CrossedInv == MaxConn \in {0, 1} => crossed = {}

SettledInv == SettledOnOwnResult /\ CrossedInv

-----------------------------------------------------------------------------
(* Where mail comes from.                                                  *)

Held(mail) == \E a \in Actors : hold[a] = mail
Mailed(mail) == \E a \in Actors : \E i \in 1 .. Len(box[a]) : box[a][i] = mail
Queued(mail) == \E i \in 1 .. Len(commands) : commands[i] = mail

\* What is in flight is held by a handler, in a mailbox, or queued as a command.
LEMMA InFlightIs ==
    ASSUME NEW mail
    PROVE  /\ mail \in InFlight <=> Held(mail) \/ Mailed(mail) \/ Queued(mail)
           /\ (mail \in InFlight)' <=>
                  Held(mail)' \/ Mailed(mail)' \/ Queued(mail)'
BY DEF InFlight, Held, Mailed, Queued

\* Posting a message brings nothing but that message into the mailboxes.
LEMMA PostedMail ==
    ASSUME ActorsTypeOK, NEW a \in Actors, NEW new \in Mail,
           box' = Posted(a, new), NEW mail
    PROVE  Mailed(mail)' => Mailed(mail) \/ mail = new
<1> SUFFICES ASSUME NEW b \in Actors, NEW i \in 1 .. Len(box'[b]),
                    box'[b][i] = mail
             PROVE  Mailed(mail) \/ mail = new
  BY DEF Mailed
<1>1. box[b] \in Seq(Mail)
  BY DEF ActorsTypeOK
<1>2. CASE b = a
  <2>1. box'[b] = Append(box[b], new)
    BY <1>2 DEF Posted, ActorsTypeOK
  <2>2. CASE i = Len(box[b]) + 1
    BY <1>1, <2>1, <2>2
  <2>3. CASE i # Len(box[b]) + 1
    <3>1. i \in 1 .. Len(box[b]) /\ box[b][i] = mail
      BY <1>1, <2>1, <2>3
    <3> QED BY <3>1 DEF Mailed
  <2> QED BY <2>2, <2>3
<1>3. CASE b # a
  <2>1. box'[b] = box[b]
    BY <1>3 DEF Posted, ActorsTypeOK
  <2> QED BY <2>1 DEF Mailed
<1> QED BY <1>2, <1>3

\* Taking a message out brings nothing in, and the message taken was there.
LEMMA PoppedMail ==
    ASSUME ActorsTypeOK, NEW a \in Actors, box[a] # << >>, box' = Popped(a)
    PROVE  /\ \A mail : Mailed(mail)' => Mailed(mail)
           /\ Mailed(Head(box[a]))
<1>1. box[a] \in Seq(Mail)
  BY DEF ActorsTypeOK
<1>2. Mailed(Head(box[a]))
  <2>1. 1 \in 1 .. Len(box[a]) /\ box[a][1] = Head(box[a])
    BY <1>1
  <2> QED BY <2>1 DEF Mailed
<1>3. ASSUME NEW mail, NEW b \in Actors, NEW i \in 1 .. Len(box'[b]),
             box'[b][i] = mail
      PROVE  Mailed(mail)
  <2>1. CASE b = a
    <3>1. box'[b] = Tail(box[b])
      BY <2>1 DEF Popped, ActorsTypeOK
    <3>2. i + 1 \in 1 .. Len(box[b]) /\ box[b][i + 1] = mail
      BY <1>1, <1>3, <2>1, <3>1
    <3> QED BY <3>2 DEF Mailed
  <2>2. CASE b # a
    <3>1. box'[b] = box[b]
      BY <2>2 DEF Popped, ActorsTypeOK
    <3> QED BY <1>3, <3>1 DEF Mailed
  <2> QED BY <2>1, <2>2
<1> QED BY <1>2, <1>3 DEF Mailed

\* A handler that takes up a message holds nothing else that is new.
LEMMA HeldMail ==
    ASSUME ActorsTypeOK, NEW a \in Actors, NEW new,
           hold' = [hold EXCEPT ![a] = new], NEW mail
    PROVE  Held(mail)' => Held(mail) \/ mail = new
BY DEF Held, ActorsTypeOK

\* Queues that do not change carry nothing new.
LEMMA UnchangedMail ==
    /\ UNCHANGED box => \A mail : Mailed(mail)' => Mailed(mail)
    /\ UNCHANGED hold => \A mail : Held(mail)' => Held(mail)
    /\ UNCHANGED commands => \A mail : Queued(mail)' => Queued(mail)
BY DEF Mailed, Held, Queued

-----------------------------------------------------------------------------
(* What a step keeps.  Every step but Connect and CrashRestart keeps the   *)
(* connection, lets deliveries be added to an open channel only at its     *)
(* end, and never opens one.                                               *)

ChannelKept ==
    Open' => /\ Open
             /\ Len(sent) <= Len(sent')
             /\ \A t \in 1 .. Len(sent) : sent'[t] = sent[t]

Kept ==
    /\ db \subseteq db'
    /\ erred \subseteq erred'
    /\ conn' = conn
    /\ ChannelKept

\* No step of the broker, and no settling, gives a tag of the open channel to
\* another message.
LEMMA BrokerKeeps ==
    ASSUME BrokerTypeOK,
           \/ \E m \in Msgs : Push(m)
           \/ CloseChannel \/ CancelConsumer \/ DropChannel
           \/ \E k, t : Settle(k, t)
           \/ UNCHANGED brokerVars
    PROVE  ChannelKept
<1> USE DEF ChannelKept, Open
<1>0. sent \in Seq(Msgs)
  BY DEF BrokerTypeOK
<1>1. ASSUME NEW m \in Msgs, Push(m) PROVE ChannelKept
  BY <1>0, <1>1 DEF Push
<1>2. CASE CloseChannel
  BY <1>2 DEF CloseChannel
<1>3. CASE CancelConsumer
  BY <1>0, <1>3 DEF CancelConsumer
<1>4. CASE DropChannel
  BY <1>4 DEF DropChannel
<1>5. CASE UNCHANGED brokerVars
  BY <1>0, <1>5 DEF brokerVars
<1>6. ASSUME NEW k, NEW t, Settle(k, t) PROVE ChannelKept
  <2>1. CASE SettleTag(k, t)
    BY <1>0, <2>1 DEF SettleTag
  <2> QED BY <1>2, <1>5, <1>6, <2>1 DEF Settle
<1> QED BY <1>1, <1>2, <1>3, <1>4, <1>5, <1>6

QuietTask == ConnectFails \/ Wake \/ StreamStep \/ HandOver \/ DrainCommand \/ TaskDies
QuietWorld == BrokerPushes \/ LoseConnection \/ BrokerCancels

\* Nor does any step of the program, save opening a channel and a restart.
LEMMA StepKeeps ==
    ASSUME TypeInv,
           \/ ConsumerStep \/ EngineStep \/ SinkStep \/ QuietTask
           \/ ShutdownStep \/ QuietWorld \/ UNCHANGED vars
    PROVE  Kept
<1>0. BrokerTypeOK
  BY DEF TypeInv, TypeOK
<1> USE DEF Kept
<1>1. CASE ConsumerStep
  BY <1>0, <1>1, BrokerKeeps
     DEF ConsumerStep, HandleStart, HandleStore, HandleAckMessage, SendCommand,
         taskVars, histVars
<1>2. CASE EngineStep
  BY <1>0, <1>2, BrokerKeeps
     DEF EngineStep, HandleEvaluate, TellPersist, taskVars, histVars
<1>3. CASE SinkStep
  BY <1>0, <1>3, BrokerKeeps
     DEF SinkStep, InsertStep, HandlePersist, InsertSucceeds, InsertFails,
         TellAck, taskVars, histVars
<1>4. CASE QuietTask
  BY <1>0, <1>4, BrokerKeeps
     DEF QuietTask, StreamStep, HandOver, ConnectFails, Wake, TakeDelivery,
         RejectDelivery, StreamError, TellStore, TellEvaluate, HandlerFails,
         DrainCommand, TaskDies, taskVars, histVars
<1>5. CASE ShutdownStep
  BY <1>0, <1>5, BrokerKeeps
     DEF ShutdownStep, MainStep, StopStep, CtrlC, SendStop, Join, Exit,
         HandleStop, OnStop, taskVars, histVars
<1>6. CASE QuietWorld
  BY <1>0, <1>6, BrokerKeeps
     DEF QuietWorld, BrokerPushes, LoseConnection, BrokerCancels, taskVars,
         histVars
<1>7. CASE UNCHANGED vars
  BY <1>0, <1>7, BrokerKeeps DEF vars, taskVars, histVars
<1> QED BY <1>1, <1>2, <1>3, <1>4, <1>5, <1>6, <1>7

\* What is justified and placed stays so; a new connection makes every older
\* job harmless to Placed, since it is no longer of the current connection.
LEMMA MailStays ==
    ASSUME TypeInv, NEW mail \in JobMail, Kept \/ Connect
    PROVE  /\ Justified(mail) => Justified(mail)'
           /\ Placed(mail.job) => Placed(mail.job)'
<1>0. /\ conn \in Nat /\ sent \in Seq(Msgs)
      /\ mail.job.conn \in Nat /\ mail.job.tag \in Nat
  BY ConstantTypes, MailTypes DEF TypeInv, TypeOK, TaskTypeOK, BrokerTypeOK, Jobs
<1>1. CASE Kept
  <2>1. Justified(mail) => Justified(mail)'
    BY <1>1 DEF Kept, Justified
  <2>2. Placed(mail.job) => Placed(mail.job)'
    BY <1>0, <1>1 DEF Kept, ChannelKept, Placed
  <2> QED BY <2>1, <2>2
<1>2. CASE Connect
  <2>1. Justified(mail) => Justified(mail)'
    BY <1>2 DEF Connect, histVars, Justified
  <2>2. Placed(mail.job) => Placed(mail.job)'
    BY <1>0, <1>2 DEF Connect, Placed
  <2> QED BY <2>1, <2>2
<1> QED BY <1>1, <1>2

\* The same for the delivery in hand.
LEMMA HandStays ==
    ASSUME TypeInv, NEW job \in Jobs, Kept, Placed(job)
    PROVE  Placed(job)'
BY ConstantTypes
   DEF TypeInv, TypeOK, TaskTypeOK, BrokerTypeOK, Jobs, Kept, ChannelKept, Placed

-----------------------------------------------------------------------------
(* The mail that is in flight after a step was so before, or is justified  *)
(* and placed from the start.                                              *)

Sound(mail) == Justified(mail) /\ Placed(mail.job)

NewMailSound ==
    \A mail \in JobMail :
        (mail \in InFlight)' => mail \in InFlight \/ Sound(mail)'

\* What a handler takes out of its mailbox was in flight.
LEMMA HandledMail ==
    ASSUME TypeInv, MailInv, NEW a \in Actors, NEW kind \in JobKinds,
           Handles(a, kind)
    PROVE  /\ box[a] # << >> /\ Head(box[a]).kind = kind
           /\ Head(box[a]) \in JobMail
           /\ Head(box[a]) \in InFlight
           /\ Sound(Head(box[a]))
<1>0. ActorsTypeOK
  BY DEF TypeInv, TypeOK
<1>1. box[a] # << >> /\ Head(box[a]).kind = kind
  BY DEF Handles
<1>2. Head(box[a]) \in JobMail
  BY <1>0, <1>1, MailTypes, MailboxTypes
<1>3. Mailed(Head(box[a]))
  <2>1. box[a] \in Seq(Mail)
    BY <1>0 DEF ActorsTypeOK
  <2>2. 1 \in 1 .. Len(box[a]) /\ box[a][1] = Head(box[a])
    BY <1>1, <2>1
  <2> QED BY <2>2 DEF Mailed
<1>4. Head(box[a]) \in InFlight
  BY <1>3, InFlightIs
<1> QED BY <1>1, <1>2, <1>4 DEF MailInv, Sound

\* What a handler holds is in flight.
LEMMA HeldSound ==
    ASSUME TypeInv, MailInv, NEW a \in Actors,
           hold[a] # NoMail \/ hold[a].kind # "None"
    PROVE  /\ hold[a] \in JobMail /\ hold[a] \in InFlight
           /\ Sound(hold[a])
<1>1. hold[a] \in JobMail
  BY MailTypes DEF TypeInv, TypeOK, ActorsTypeOK
<1>2. hold[a] \in InFlight
  BY InFlightIs DEF Held
<1> QED BY <1>1, <1>2 DEF MailInv, Sound

\* MailOf is a pair of its kind and its job.
LEMMA MailOfJob ==
    \A kind, job : MailOf(kind, job).kind = kind /\ MailOf(kind, job).job = job
BY DEF MailOf

\* The consumer actor: a command says what the AckMessage it answers said.
LEMMA ConsumerMail ==
    ASSUME TypeInv, MailInv, ConsumerStep PROVE NewMailSound
<1>0. ActorsTypeOK /\ "consumer" \in Actors /\ commands \in Seq(JobMail) /\ Kept
  BY StepKeeps DEF TypeInv, TypeOK, TaskTypeOK, Actors
<1> SUFFICES ASSUME NEW mail \in JobMail, (mail \in InFlight)'
             PROVE  mail \in InFlight \/ Sound(mail)'
  BY DEF NewMailSound
<1>1. CASE HandleStart
  BY <1>0, <1>1, InFlightIs, UnchangedMail, PoppedMail
     DEF HandleStart, Handles
<1>2. CASE HandleStore
  BY <1>0, <1>2, InFlightIs, UnchangedMail, PoppedMail
     DEF HandleStore, Handles, taskVars
<1>3. CASE HandleAckMessage
  <2>1. PICK old \in JobMail : /\ old = Head(box["consumer"]) /\ Sound(old)
                                /\ box["consumer"] # << >>
                                /\ old.kind \in {"Ok", "Err"}
    BY <1>0, <1>3, HandledMail DEF HandleAckMessage, JobKinds
  <2> DEFINE new == MailOf(IF old.kind = "Ok" THEN "Ack" ELSE "Nack", old.job)
  <2>2. mail \in InFlight \/ mail = new
    <3>1. Mailed(mail)' => Mailed(mail)
      BY <1>0, <1>3, <2>1, PoppedMail DEF HandleAckMessage
    <3>2. Held(mail)' => Held(mail) \/ mail = new
      <4>1. \/ hold' = [hold EXCEPT !["consumer"] = new]
            \/ UNCHANGED hold
        BY <1>3, <2>1 DEF HandleAckMessage
      <4> QED BY <1>0, <4>1, HeldMail, UnchangedMail
    <3>3. Queued(mail)' => Queued(mail)
      BY <1>3, UnchangedMail DEF HandleAckMessage, taskVars
    <3> QED BY <3>1, <3>2, <3>3, InFlightIs
  <2>3. Sound(old)'
    BY <1>0, <2>1, MailStays DEF Sound
  <2>4. Sound(new)'
    BY <2>1, <2>3, MailOfJob DEF Sound, Justified
  <2> QED BY <2>2, <2>4
<1>4. CASE SendCommand
  <2>1. Queued(mail)' => Queued(mail) \/ mail = hold["consumer"]
    BY <1>0, <1>4 DEF SendCommand, Queued
  <2>2. Mailed(mail)' => Mailed(mail)
    BY <1>4, UnchangedMail DEF SendCommand
  <2>3. Held(mail)' => Held(mail) \/ mail = NoMail
    BY <1>0, <1>4, HeldMail DEF SendCommand
  <2>4. mail # NoMail
    BY MailTypes DEF NoMail, JobKinds
  <2> QED BY <1>0, <2>1, <2>2, <2>3, <2>4, InFlightIs DEF Held
<1> QED BY <1>1, <1>2, <1>3, <1>4 DEF ConsumerStep

\* The engine passes the job on unchanged.
LEMMA EngineMail ==
    ASSUME TypeInv, MailInv, EngineStep PROVE NewMailSound
<1>0. ActorsTypeOK /\ {"engine", "sink"} \subseteq Actors /\ Kept
  BY StepKeeps DEF TypeInv, TypeOK, Actors
<1> SUFFICES ASSUME NEW mail \in JobMail, (mail \in InFlight)'
             PROVE  mail \in InFlight \/ Sound(mail)'
  BY DEF NewMailSound
<1>1. mail # NoMail
  BY MailTypes DEF NoMail, JobKinds
<1>2. CASE HandleEvaluate
  <2>1. PICK old \in JobMail : /\ old = Head(box["engine"]) /\ Sound(old)
                                /\ box["engine"] # << >>
    BY <1>0, <1>2, HandledMail DEF HandleEvaluate, JobKinds
  <2> DEFINE new == MailOf("Persist", old.job)
  <2>2. mail \in InFlight \/ mail = new
    BY <1>0, <1>2, <2>1, PoppedMail, HeldMail, UnchangedMail, InFlightIs
       DEF HandleEvaluate, taskVars
  <2>3. Sound(old)'
    BY <1>0, <2>1, MailStays DEF Sound
  <2>4. Sound(new)'
    BY <2>3, MailOfJob DEF Sound, Justified
  <2> QED BY <2>2, <2>4
<1>3. CASE TellPersist
  <2>1. hold["engine"] \in JobMail /\ hold["engine"] \in Mail
    BY <1>0, <1>3, HeldSound, MailTypes DEF TellPersist
  <2>2. Mailed(mail)' => Mailed(mail) \/ mail = hold["engine"]
    BY <1>0, <1>3, <2>1, PostedMail DEF TellPersist
  <2>3. Held(mail)' => Held(mail)
    BY <1>0, <1>1, <1>3, HeldMail DEF TellPersist
  <2> QED BY <1>0, <1>3, <2>2, <2>3, UnchangedMail, InFlightIs
          DEF TellPersist, taskVars, Held
<1> QED BY <1>2, <1>3 DEF EngineStep

\* The sink says Ok only after it has stored, Err only after a failure.
LEMMA SinkMail ==
    ASSUME TypeInv, MailInv, SinkStep PROVE NewMailSound
<1>0. ActorsTypeOK /\ {"consumer", "sink"} \subseteq Actors /\ Kept
  BY StepKeeps DEF TypeInv, TypeOK, Actors
<1> SUFFICES ASSUME NEW mail \in JobMail, (mail \in InFlight)'
             PROVE  mail \in InFlight \/ Sound(mail)'
  BY DEF NewMailSound
<1>1. mail # NoMail
  BY MailTypes DEF NoMail, JobKinds
<1>2. CASE HandlePersist
  <2>1. box["sink"] # << >> /\ Mailed(Head(box["sink"]))
    BY <1>0, <1>2, PoppedMail DEF HandlePersist, Handles
  <2>2. Mailed(mail)' => Mailed(mail)
    BY <1>0, <1>2, <2>1, PoppedMail DEF HandlePersist
  <2>3. Held(mail)' => Held(mail) \/ mail = Head(box["sink"])
    BY <1>0, <1>2, HeldMail DEF HandlePersist
  <2> QED BY <1>2, <2>1, <2>2, <2>3, UnchangedMail, InFlightIs
          DEF HandlePersist, taskVars
<1>3. ASSUME NEW kind \in {"Ok", "Err"},
             hold["sink"].kind = "Persist",
             hold' = [hold EXCEPT !["sink"] = MailOf(kind, hold["sink"].job)],
             UNCHANGED << box, taskVars >>,
             kind = "Ok" => hold["sink"].job.msg \in db',
             kind = "Err" => hold["sink"].job.msg \in erred'
      PROVE  mail \in InFlight \/ Sound(mail)'
  <2>1. PICK old \in JobMail : old = hold["sink"] /\ Sound(old)
    BY <1>0, <1>3, HeldSound
  <2> DEFINE new == MailOf(kind, old.job)
  <2>2. mail \in InFlight \/ mail = new
    BY <1>0, <1>3, <2>1, HeldMail, UnchangedMail, InFlightIs DEF taskVars
  <2>3. Placed(old.job)'
    BY <1>0, <2>1, MailStays DEF Sound
  <2>4. Sound(new)'
    BY <1>3, <2>1, <2>3, MailOfJob DEF Sound, Justified
  <2> QED BY <2>2, <2>4
<1>4. CASE InsertSucceeds
  BY <1>3, <1>4 DEF InsertSucceeds
<1>5. CASE InsertFails
  BY <1>3, <1>5 DEF InsertFails
<1>6. CASE TellAck
  <2>1. hold["sink"] \in JobMail /\ hold["sink"] \in Mail
    BY <1>0, <1>6, HeldSound, MailTypes DEF TellAck
  <2>2. Mailed(mail)' => Mailed(mail) \/ mail = hold["sink"]
    BY <1>0, <1>6, <2>1, PostedMail, UnchangedMail DEF TellAck
  <2>3. Held(mail)' => Held(mail)
    BY <1>0, <1>1, <1>6, HeldMail DEF TellAck
  <2> QED BY <1>0, <1>6, <2>2, <2>3, UnchangedMail, InFlightIs
          DEF TellAck, taskVars, Held
<1> QED BY <1>2, <1>4, <1>5, <1>6 DEF SinkStep, InsertStep

\* The AMQP task starts a job for the delivery it has in hand.
LEMMA TaskMail ==
    ASSUME TypeInv, MailInv, HandPlaced, TaskStep PROVE NewMailSound
<1>0. /\ ActorsTypeOK /\ {"consumer", "engine"} \subseteq Actors
      /\ commands \in Seq(JobMail)
  BY DEF TypeInv, TypeOK, TaskTypeOK, Actors
<1> SUFFICES ASSUME NEW mail \in JobMail, (mail \in InFlight)'
             PROVE  mail \in InFlight \/ Sound(mail)'
  BY DEF NewMailSound
<1>1. ASSUME UNCHANGED << actorVars, commands >> PROVE mail \in InFlight
  BY <1>1, UnchangedMail, InFlightIs DEF actorVars
<1>2. ASSUME NEW a \in Actors, NEW kind \in {"Store", "Evaluate"}, Kept,
             task \in {"store", "evaluate"},
             box' = Posted(a, MailOf(kind, hand)),
             UNCHANGED << hold, commands >>
      PROVE  mail \in InFlight \/ Sound(mail)'
  <2>1. PICK job \in Jobs : job = hand /\ Placed(job)
    BY <1>2 DEF TypeInv, HandInv, HandPlaced
  <2>2. MailOf(kind, job) \in Mail
    BY <2>1, MailTypes DEF JobKinds
  <2>3. mail \in InFlight \/ mail = MailOf(kind, job)
    BY <1>0, <1>2, <2>1, <2>2, PostedMail, UnchangedMail, InFlightIs
  <2>4. Placed(job)'
    BY <1>2, <2>1, HandStays
  <2>5. Sound(MailOf(kind, job))'
    BY <2>4, MailOfJob DEF Sound, Justified
  <2> QED BY <2>3, <2>5
<1>3. CASE TellStore
  <2>1. Kept
    BY <1>3, StepKeeps DEF QuietTask, HandOver
  <2> QED BY <1>0, <1>2, <1>3, <2>1 DEF TellStore
<1>4. CASE TellEvaluate
  <2>1. Kept
    BY <1>4, StepKeeps DEF QuietTask, HandOver
  <2> QED BY <1>0, <1>2, <1>4, <2>1 DEF TellEvaluate
<1>5. CASE DrainCommand
  <2>1. Queued(mail)' => Queued(mail)
    BY <1>0, <1>5 DEF DrainCommand, Queued
  <2> QED BY <1>5, <2>1, UnchangedMail, InFlightIs DEF DrainCommand, actorVars
<1> QED BY <1>1, <1>3, <1>4, <1>5
        DEF TaskStep, StreamStep, HandOver, Connect, ConnectFails, Wake,
            TakeDelivery, RejectDelivery, StreamError, HandlerFails, TaskDies

\* Stopping brings no mail but stop signals.
LEMMA ShutdownMail ==
    ASSUME TypeInv, ShutdownStep PROVE NewMailSound
<1>0. /\ ActorsTypeOK /\ Actors = {"consumer", "engine", "sink"}
      /\ main.who \in Actors
  BY DEF TypeInv, TypeOK, Actors
<1> SUFFICES ASSUME NEW mail \in JobMail, (mail \in InFlight)'
             PROVE  mail \in InFlight
  BY DEF NewMailSound
<1>1. CASE CtrlC \/ Join \/ Exit
  BY <1>1, UnchangedMail, InFlightIs DEF CtrlC, Join, Exit, actorVars, taskVars
<1>2. CASE SendStop
  <2>1. mail # Stop
    BY MailTypes DEF Stop, JobKinds
  <2>2. Mailed(mail)' => Mailed(mail)
    BY <1>0, <1>2, <2>1, MailTypes, PostedMail DEF SendStop
  <2> QED BY <1>2, <2>2, UnchangedMail, InFlightIs DEF SendStop, taskVars
<1>3. ASSUME NEW a \in Actors, HandleStop(a) PROVE mail \in InFlight
  <2>1. Mailed(mail)' => Mailed(mail)
    BY <1>0, <1>3, PoppedMail DEF HandleStop, TakeStop, Handles
  <2> QED BY <1>3, <2>1, UnchangedMail, InFlightIs
          DEF HandleStop, TakeStop, taskVars
<1>4. ASSUME NEW a \in Actors, OnStop(a) PROVE mail \in InFlight
  <2>1. box' = [box EXCEPT ![a] = << >>]
    BY <1>4 DEF OnStop, FinishStop
  <2>2. Mailed(mail)' => Mailed(mail)
    BY <1>0, <2>1 DEF Mailed, ActorsTypeOK
  <2> QED BY <1>4, <2>2, UnchangedMail, InFlightIs DEF OnStop, FinishStop
<1> QED BY <1>1, <1>2, <1>3, <1>4 DEF ShutdownStep, MainStep, StopStep

\* A process that has just started has no job.
LEMMA CrashMail ==
    ASSUME CrashRestart, NEW mail \in JobMail PROVE (mail \notin InFlight)'
<1>1. mail # NoMail /\ mail # Start
  BY MailTypes DEF NoMail, Start, JobKinds
<1>2. ~ Held(mail)' /\ ~ Queued(mail)'
  BY <1>1 DEF CrashRestart, Held, Queued
<1>3. ~ Mailed(mail)'
  BY <1>1 DEF CrashRestart, Mailed
<1> QED BY <1>2, <1>3, InFlightIs

\* Neither the broker nor a fault brings mail.
LEMMA WorldMail ==
    ASSUME TypeInv, WorldStep \/ UNCHANGED vars PROVE NewMailSound
<1> SUFFICES ASSUME NEW mail \in JobMail, (mail \in InFlight)'
             PROVE  mail \in InFlight
  BY DEF NewMailSound
<1>1. CASE QuietWorld \/ UNCHANGED vars
  BY <1>1, UnchangedMail, InFlightIs
     DEF QuietWorld, BrokerPushes, LoseConnection, BrokerCancels, vars,
         actorVars, taskVars
<1>2. CASE CrashRestart
  BY <1>2, CrashMail
<1> QED BY <1>1, <1>2 DEF WorldStep, QuietWorld

\* So every mail in flight stays sound, whatever the step.
LEMMA MailInductive ==
    ASSUME TypeInv, MailInv, HandPlaced, [Next]_vars PROVE MailInv'
<1> SUFFICES ASSUME NEW mail \in JobMail, (mail \in InFlight)'
             PROVE  Sound(mail)'
  BY DEF MailInv, Sound
<1>1. CASE CrashRestart
  BY <1>1, CrashMail
<1>2. CASE ~ CrashRestart
  <2>1. NewMailSound
    BY ConsumerMail, EngineMail, SinkMail, TaskMail, ShutdownMail, WorldMail,
       NextByActor DEF Idle
  <2>2. Kept \/ Connect
    BY <1>2, StepKeeps, NextByActor
       DEF TaskStep, QuietTask, WorldStep, QuietWorld, Idle
  <2>3. Sound(mail) => Sound(mail)'
    BY <2>2, MailStays DEF Sound
  <2> QED BY <2>1, <2>3 DEF NewMailSound, MailInv, Sound
<1> QED BY <1>1, <1>2

-----------------------------------------------------------------------------
(* The delivery in hand, and what is settled.                              *)

\* What the AMQP task takes from the stream it takes with its own tag.
LEMMA HandInductive ==
    ASSUME TypeInv, HandPlaced, [Next]_vars PROVE HandPlaced'
<1>0. /\ BrokerTypeOK /\ TaskTypeOK /\ HandInv
  BY DEF TypeInv, TypeOK
<1>1. CASE TakeDelivery
  <2>1. hand' = [tag |-> taken + 1, msg |-> sent[taken + 1], conn |-> conn]
        /\ conn' = conn /\ UNCHANGED << sent, link >>
        /\ taken + 1 \in 1 .. Len(sent) /\ conn \in Nat
        /\ sent[taken + 1] \in Parsable
    BY <1>0, <1>1, ConstantTypes
       DEF TakeDelivery, brokerVars, BrokerTypeOK, TaskTypeOK
  <2> QED BY <2>1 DEF HandPlaced, Placed, Open
<1>2. CASE task' \notin {"store", "evaluate"}
  BY <1>2 DEF HandPlaced
<1>3. ASSUME task \in {"store", "evaluate"}, UNCHANGED hand, Kept
      PROVE  HandPlaced'
  <2>1. PICK job \in Jobs : job = hand /\ job.conn = conn /\ Placed(job)
    BY <1>0, <1>3 DEF HandInv, HandPlaced
  <2>2. Placed(job)' /\ hand' = job /\ conn' = conn
    BY <1>3, <2>1, HandStays DEF Kept
  <2> QED BY <2>1, <2>2 DEF HandPlaced, Placed
<1>4. ASSUME task' = task, UNCHANGED hand, Kept PROVE HandPlaced'
  BY <1>2, <1>3, <1>4
<1>5. CASE ConsumerStep
  <2>1. Kept
    BY <1>5, StepKeeps
  <2> QED BY <1>2, <1>4, <1>5, <2>1
          DEF ConsumerStep, HandleStart, HandleStore, HandleAckMessage,
              SendCommand, taskVars
<1>6. CASE EngineStep \/ SinkStep
  <2>1. Kept
    BY <1>6, StepKeeps
  <2> QED BY <1>4, <1>6, <2>1
          DEF EngineStep, SinkStep, InsertStep, HandleEvaluate, TellPersist,
              HandlePersist, InsertSucceeds, InsertFails, TellAck, taskVars
<1>7. CASE TaskStep
  <2>1. CASE TellStore
    <3>1. Kept
      BY <2>1, StepKeeps DEF QuietTask, HandOver
    <3> QED BY <1>3, <2>1, <3>1 DEF TellStore
  <2> QED BY <1>1, <1>2, <1>7, <2>1
          DEF TaskStep, StreamStep, HandOver, Connect, ConnectFails, Wake,
              RejectDelivery, StreamError, TellEvaluate, HandlerFails,
              DrainCommand, TaskDies
<1>8. CASE ShutdownStep
  <2>1. Kept
    BY <1>8, StepKeeps
  <2> QED BY <1>2, <1>4, <1>8, <2>1
          DEF ShutdownStep, MainStep, StopStep, CtrlC, SendStop, Join, Exit,
              HandleStop, OnStop, taskVars
<1>9. CASE QuietWorld \/ UNCHANGED vars
  <2>1. Kept
    BY <1>9, StepKeeps
  <2> QED BY <1>4, <1>9, <2>1
          DEF QuietWorld, BrokerPushes, LoseConnection, BrokerCancels, vars,
              taskVars
<1>10. CASE CrashRestart
  BY <1>2, <1>10 DEF CrashRestart
<1> QED BY <1>5, <1>6, <1>7, <1>8, <1>9, <1>10, NextByActor
        DEF WorldStep, QuietWorld, Idle

\* A step that settles nothing: db and the history only grow.
LEMMA NothingSettled ==
    ASSUME SettledInv, db \subseteq db', erred \subseteq erred',
           UNCHANGED << acked, dlq, crossed >>
    PROVE  SettledInv'
BY DEF SettledInv, SettledOnOwnResult, CrossedInv

\* basic_ack and basic_nack: what a Settle may do to acked and dlq.
LEMMA SettleEffect ==
    ASSUME NEW kind, NEW tag, Settle(kind, tag)
    PROVE  \/ UNCHANGED << acked, dlq >>
           \/ /\ tag \in Unsettled
              /\ \/ kind = "Ack" /\ acked' = acked \cup {sent[tag]} /\ dlq' = dlq
                 \/ kind = "Nack" /\ acked' = acked /\ dlq' = dlq \cup {sent[tag]}
                 \/ kind \notin {"Ack", "Nack"} /\ UNCHANGED << acked, dlq >>
BY DEF Settle, SettleTag, CloseChannel, brokerVars

\* A command of this connection settles its own message; one of an older
\* connection may hit another, which is then in `crossed'.
LEMMA DrainSettles ==
    ASSUME TypeInv, MailInv, SettledInv, DrainCommand PROVE SettledInv'
<1>1. PICK cmd \in JobMail : cmd = Head(commands) /\ Sound(cmd)
  <2>1. Head(commands) \in JobMail /\ Queued(Head(commands))
    BY DEF TypeInv, TypeOK, TaskTypeOK, DrainCommand, Queued
  <2> QED BY <2>1, InFlightIs DEF MailInv, Sound
<1>2. /\ Settle(cmd.kind, cmd.job.tag)
      /\ UNCHANGED << db, erred >>
      /\ crossed' = IF /\ cmd.job.tag \in Unsettled
                       /\ sent[cmd.job.tag] # cmd.job.msg
                    THEN crossed \cup {sent[cmd.job.tag]} ELSE crossed
  BY <1>1 DEF DrainCommand
<1>3. SettledOnOwnResult'
  <2>1. CASE UNCHANGED << acked, dlq >>
    BY <1>2, <2>1 DEF SettledInv, SettledOnOwnResult
  <2>2. CASE cmd.kind = "Ack" /\ cmd.job.tag \in Unsettled
             /\ acked' = acked \cup {sent[cmd.job.tag]} /\ dlq' = dlq
    BY <1>1, <1>2, <2>2 DEF SettledInv, SettledOnOwnResult, Sound, Justified
  <2>3. CASE cmd.kind = "Nack" /\ cmd.job.tag \in Unsettled
             /\ acked' = acked /\ dlq' = dlq \cup {sent[cmd.job.tag]}
    BY <1>1, <1>2, <2>3 DEF SettledInv, SettledOnOwnResult, Sound, Justified
  <2> QED BY <1>2, <2>1, <2>2, <2>3, SettleEffect
<1>4. CrossedInv'
  <2> SUFFICES ASSUME MaxConn \in {0, 1} PROVE crossed' = crossed
    BY DEF SettledInv, CrossedInv
  <2>1. cmd.job.conn \in Nat \ {0} /\ conn \in 0 .. MaxConn
    BY MailTypes DEF TypeInv, TypeOK, TaskTypeOK, Jobs
  <2>2. cmd.job.conn = conn
    BY <1>1, <2>1 DEF Sound, Placed
  <2>3. cmd.job.tag \in Unsettled => sent[cmd.job.tag] = cmd.job.msg
    BY <1>1, <2>2 DEF Sound, Placed, Unsettled
  <2> QED BY <1>2, <2>3
<1> QED BY <1>3, <1>4 DEF SettledInv

\* Every step settles a message on its own result or records the crossing.
LEMMA SettledInductive ==
    ASSUME TypeInv, MailInv, HandPlaced, SettledInv, [Next]_vars
    PROVE  SettledInv'
<1>1. CASE DrainCommand
  BY <1>1, DrainSettles
<1>2. CASE RejectDelivery
  <2>1. PICK tag \in Nat : /\ Settle("Nack", tag)
                           /\ sent[tag] \notin Parsable
                           /\ UNCHANGED << db, erred, crossed >>
    BY <1>2 DEF RejectDelivery, histVars, TypeInv, TypeOK, TaskTypeOK
  <2>2. /\ acked' = acked
        /\ \/ dlq' = dlq
           \/ tag \in Unsettled /\ dlq' = dlq \cup {sent[tag]}
    <3>1. Settle("Nack", tag)
      BY <2>1
    <3> QED BY <3>1, SettleEffect
  <2>3. tag \in Unsettled => sent[tag] \in Msgs
    BY DEF TypeInv, TypeOK, BrokerTypeOK, Unsettled
  <2> QED BY <2>1, <2>2, <2>3 DEF SettledInv, SettledOnOwnResult, CrossedInv
<1>3. CASE HandlerFails
  <2>1. /\ Settle("Nack", hand.tag)
        /\ task \in {"store", "evaluate"}
        /\ erred' = erred \cup {hand.msg}
        /\ UNCHANGED << db, crossed >>
    BY <1>3 DEF HandlerFails
  <2>2. hand.tag \in Unsettled => sent[hand.tag] = hand.msg
    BY <2>1 DEF HandPlaced, Placed, Unsettled
  <2>3. acked' = acked /\ (dlq' = dlq \/ dlq' = dlq \cup {hand.msg})
    BY <2>1, <2>2, SettleEffect
  <2> QED BY <2>1, <2>3 DEF SettledInv, SettledOnOwnResult, CrossedInv
<1>4. CASE ConsumerStep
  BY <1>4, NothingSettled
     DEF ConsumerStep, HandleStart, HandleStore, HandleAckMessage, SendCommand,
         brokerVars, histVars
<1>5. CASE EngineStep
  BY <1>5, NothingSettled
     DEF EngineStep, HandleEvaluate, TellPersist, brokerVars, histVars
<1>6. CASE SinkStep
  BY <1>6, NothingSettled
     DEF SinkStep, InsertStep, HandlePersist, InsertSucceeds, InsertFails,
         TellAck, brokerVars, histVars
<1>7. CASE TaskStep
  BY <1>1, <1>2, <1>3, <1>7, NothingSettled
     DEF TaskStep, StreamStep, HandOver, Connect, ConnectFails, Wake,
         TakeDelivery, StreamError, TellStore, TellEvaluate, TaskDies,
         OpenChannel, DropChannel, brokerVars, histVars
<1>8. CASE ShutdownStep
  BY <1>8, NothingSettled
     DEF ShutdownStep, MainStep, StopStep, CtrlC, SendStop, Join, Exit,
         HandleStop, OnStop, DropChannel, brokerVars, histVars
<1>9. CASE WorldStep
  BY <1>9, NothingSettled
     DEF WorldStep, BrokerPushes, LoseConnection, BrokerCancels, CrashRestart,
         Push, CloseChannel, CancelConsumer, DropChannel, histVars
<1>10. CASE UNCHANGED vars
  BY <1>10, NothingSettled DEF vars, brokerVars, histVars
<1> QED BY <1>4, <1>5, <1>6, <1>7, <1>8, <1>9, <1>10, NextByActor DEF Idle

\* Initially nothing is in flight and nothing is settled.
LEMMA SettlementInit == Init => MailInv /\ HandPlaced /\ SettledInv
<1> SUFFICES ASSUME Init PROVE MailInv /\ HandPlaced /\ SettledInv
  OBVIOUS
<1>1. ASSUME NEW mail \in JobMail PROVE mail \notin InFlight
  <2>1. mail # NoMail /\ mail # Start
    BY MailTypes DEF NoMail, Start, JobKinds
  <2>2. ~ Held(mail) /\ ~ Queued(mail) /\ ~ Mailed(mail)
    BY <2>1 DEF Init, ActorsInit, Held, Queued, Mailed
  <2> QED BY <2>2, InFlightIs
<1>2. MailInv
  BY <1>1 DEF MailInv
<1>3. HandPlaced /\ SettledInv
  BY DEF Init, BrokerInit, HandPlaced, SettledInv, SettledOnOwnResult, CrossedInv
<1> QED BY <1>2, <1>3

\* The inductive invariant: whatever is in flight is justified and placed, the
\* delivery in hand is placed, and what was settled was settled on its result.
THEOREM SettlementInvariant == Spec => [](MailInv /\ HandPlaced /\ SettledInv)
<1>1. /\ TypeInv /\ MailInv /\ HandPlaced /\ SettledInv /\ [Next]_vars
      => (MailInv /\ HandPlaced /\ SettledInv)'
  BY MailInductive, HandInductive, SettledInductive
<1> QED BY SettlementInit, TypeInvariant, <1>1, PTL DEF Spec

-----------------------------------------------------------------------------
(* The results.                                                            *)

\* Whatever is lost, retried, cancelled, crashed or shut down, and however
\* often the task reconnects: a message is acked only if it is stored, and
\* dead-lettered only if it did not parse or failed, unless a command left
\* over from an older channel settled it.
THEOREM OwnResult == Spec => []SettledOnOwnResult
<1>1. SettledInv => SettledOnOwnResult
  BY DEF SettledInv
<1> QED BY SettlementInvariant, <1>1, PTL

\* For as long as the process connects only once, no command can be left over:
\* acked messages are in the database without exception.
THEOREM AckAfterCommit ==
    ASSUME MaxConn = 1
    PROVE  Spec => []AckedIsPersisted
<1>1. SettledInv => AckedIsPersisted
  BY DEF SettledInv, SettledOnOwnResult, CrossedInv, AckedIsPersisted
<1> QED BY SettlementInvariant, <1>1, PTL

\* And nothing is dead-lettered without a cause of its own.
THEOREM DeadLetterCause ==
    ASSUME MaxConn = 1
    PROVE  Spec => []DeadLetteredForCause
<1>1. SettledInv => DeadLetteredForCause
  BY DEF SettledInv, SettledOnOwnResult, CrossedInv, DeadLetteredForCause
<1> QED BY SettlementInvariant, <1>1, PTL

-----------------------------------------------------------------------------
(* The pipeline implements Delivery.  What is added here is that a message *)
(* is settled for the first time: it is in one place only, in the work     *)
(* queue, under one unsettled tag of the open channel, or gone; and that   *)
(* the commands are acks and nacks and nothing else.                       *)

Gone == acked \cup dlq

OnePlace ==
    /\ ready \cap Gone = {}
    /\ \A t \in Unsettled : sent[t] \notin ready \cup Gone
    /\ \A t, u \in Unsettled : sent[t] = sent[u] => t = u

IsCommand(mail) == mail.kind \in {"Ack", "Nack"}

CommandsOnly ==
    /\ hold["consumer"] # NoMail => IsCommand(hold["consumer"])
    /\ \A i \in 1 .. Len(commands) : IsCommand(commands[i])

-----------------------------------------------------------------------------
(* A message is in one place.                                              *)

\* What the broker does in a step of the program.
BrokerStep ==
    \/ \E m \in Msgs : Push(m)
    \/ CloseChannel \/ CancelConsumer \/ OpenChannel \/ DropChannel
    \/ \E kind, tag : Settle(kind, tag)
    \/ UNCHANGED brokerVars

\* Every step of the program is one of them for the broker.
LEMMA BrokerSteps == [Next]_vars => BrokerStep
<1> USE DEF BrokerStep
<1>1. ConsumerStep \/ EngineStep \/ SinkStep => BrokerStep
  BY DEF ConsumerStep, HandleStart, HandleStore, HandleAckMessage, SendCommand,
         EngineStep, HandleEvaluate, TellPersist, SinkStep, InsertStep,
         HandlePersist, InsertSucceeds, InsertFails, TellAck
<1>2. TaskStep => BrokerStep
  BY DEF TaskStep, StreamStep, HandOver, Connect, ConnectFails, Wake,
         TakeDelivery, RejectDelivery, StreamError, TellStore, TellEvaluate,
         HandlerFails, DrainCommand, TaskDies
<1>3. ShutdownStep => BrokerStep
  BY DEF ShutdownStep, MainStep, StopStep, CtrlC, SendStop, Join, Exit,
         HandleStop, OnStop
<1>4. WorldStep => BrokerStep
  BY DEF WorldStep, BrokerPushes, LoseConnection, BrokerCancels, CrashRestart
<1>5. UNCHANGED vars => BrokerStep
  BY DEF vars
<1> QED BY <1>1, <1>2, <1>3, <1>4, <1>5, NextByActor DEF Idle

\* And none of them copies a message or brings back one that is gone.
LEMMA OnePlaceInductive ==
    ASSUME BrokerTypeOK, OnePlace, BrokerStep PROVE OnePlace'
<1> USE DEF OnePlace, Gone
<1>0. sent \in Seq(Msgs) /\ Unsettled \subseteq 1 .. Len(sent)
  BY DEF BrokerTypeOK, Unsettled
<1>1. ASSUME NEW m \in Msgs, Push(m) PROVE OnePlace'
  <2>1. /\ link = "up" /\ m \in ready
        /\ ready' = ready \ {m} /\ sent' = Append(sent, m)
        /\ UNCHANGED << link, settled, acked, dlq >>
    BY <1>1 DEF Push
  <2>2. \A t \in Unsettled' : t \in Unsettled \/ t = Len(sent) + 1
    BY <1>0, <2>1 DEF Unsettled, Open
  <2>3. /\ sent'[Len(sent) + 1] = m
        /\ \A t \in Unsettled : sent'[t] = sent[t] /\ sent[t] # m
    BY <1>0, <2>1
  <2> QED BY <2>1, <2>2, <2>3
<1>2. ASSUME ready' = ready \/ ready' = Requeued, Unsettled' = {},
             UNCHANGED << acked, dlq >>
      PROVE  OnePlace'
  BY <1>2 DEF Requeued
<1>3. CASE CloseChannel \/ OpenChannel \/ DropChannel
  <2>1. Unsettled' = {}
    BY <1>3 DEF CloseChannel, OpenChannel, DropChannel, Unsettled, Open
  <2> QED BY <1>2, <1>3, <2>1 DEF CloseChannel, OpenChannel, DropChannel
<1>4. CASE CancelConsumer
  BY <1>4 DEF CancelConsumer, Unsettled, Open
<1>5. CASE UNCHANGED brokerVars
  BY <1>5 DEF brokerVars, Unsettled, Open
<1>6. ASSUME NEW kind, NEW tag, SettleTag(kind, tag) PROVE OnePlace'
  <2>1. /\ tag \in Unsettled
        /\ Unsettled' = Unsettled \ {tag}
        /\ Gone' \subseteq Gone \cup {sent[tag]}
        /\ UNCHANGED << ready, sent >>
    BY <1>6 DEF SettleTag, Unsettled, Open
  <2> QED BY <2>1
<1> QED BY <1>1, <1>3, <1>4, <1>5, <1>6 DEF BrokerStep, Settle

-----------------------------------------------------------------------------
(* What waits for the AMQP task is acks and nacks.                         *)

\* The consumer actor is the only one to hold a command or to send one, and
\* what it holds it made from an AckMessage.
LEMMA CommandsInductive ==
    ASSUME TypeInv, CommandsOnly, [Next]_vars PROVE CommandsOnly'
<1> USE DEF CommandsOnly
<1>0. /\ ActorsTypeOK /\ commands \in Seq(JobMail)
      /\ Actors = {"consumer", "engine", "sink"}
  BY DEF TypeInv, TypeOK, TaskTypeOK, Actors
<1>1. ASSUME UNCHANGED commands, hold'["consumer"] = hold["consumer"]
      PROVE  CommandsOnly'
  BY <1>1 DEF IsCommand
<1>2. ASSUME NEW a \in Actors \ {"consumer"}, NEW h,
             hold' = [hold EXCEPT ![a] = h]
      PROVE  hold'["consumer"] = hold["consumer"]
  BY <1>0, <1>2 DEF ActorsTypeOK
<1>3. CASE ConsumerStep
  <2>1. CASE HandleStart \/ HandleStore
    BY <1>1, <2>1 DEF HandleStart, HandleStore, taskVars
  <2>2. CASE HandleAckMessage
    <3>1. UNCHANGED commands
      BY <2>2 DEF HandleAckMessage, taskVars
    <3>2. \/ UNCHANGED hold
          \/ \E kind \in {"Ack", "Nack"} : \E job :
                 hold' = [hold EXCEPT !["consumer"] = MailOf(kind, job)]
      BY <2>2 DEF HandleAckMessage
    <3>3. ASSUME NEW kind \in {"Ack", "Nack"}, NEW job,
                 hold' = [hold EXCEPT !["consumer"] = MailOf(kind, job)]
          PROVE  CommandsOnly'
      <4>1. hold'["consumer"] = MailOf(kind, job)
        BY <1>0, <3>3 DEF ActorsTypeOK
      <4>2. IsCommand(MailOf(kind, job))
        BY MailOfJob DEF IsCommand
      <4> QED BY <3>1, <4>1, <4>2 DEF IsCommand
    <3> QED BY <1>1, <3>1, <3>2, <3>3
  <2>3. CASE SendCommand
    <3>1. /\ IsCommand(hold["consumer"])
          /\ commands' = Append(commands, hold["consumer"])
          /\ hold' = [hold EXCEPT !["consumer"] = NoMail]
          /\ hold["consumer"] \in JobMail
      BY <1>0, <2>3, MailTypes DEF SendCommand, ActorsTypeOK
    <3>2. hold'["consumer"] = NoMail
      BY <1>0, <3>1 DEF ActorsTypeOK
    <3>3. \A i \in 1 .. Len(commands') :
              \/ commands'[i] = hold["consumer"]
              \/ i \in 1 .. Len(commands) /\ commands'[i] = commands[i]
      BY <1>0, <3>1
    <3> QED BY <3>1, <3>2, <3>3 DEF IsCommand
  <2> QED BY <1>3, <2>1, <2>2, <2>3 DEF ConsumerStep
<1>4. CASE EngineStep \/ SinkStep
  <2>1. UNCHANGED commands
    BY <1>4 DEF EngineStep, SinkStep, InsertStep, HandleEvaluate, TellPersist,
                HandlePersist, InsertSucceeds, InsertFails, TellAck, taskVars
  <2>2. \E a \in {"engine", "sink"} : \E h : hold' = [hold EXCEPT ![a] = h]
    BY <1>4 DEF EngineStep, SinkStep, InsertStep, HandleEvaluate, TellPersist,
                HandlePersist, InsertSucceeds, InsertFails, TellAck
  <2> QED BY <1>0, <1>1, <1>2, <2>1, <2>2
<1>5. CASE DrainCommand
  <2>1. hold' = hold /\ commands # << >> /\ commands' = Tail(commands)
    BY <1>5 DEF DrainCommand, actorVars
  <2>2. \A i \in 1 .. Len(commands') :
            i + 1 \in 1 .. Len(commands) /\ commands'[i] = commands[i + 1]
    BY <1>0, <2>1
  <2> QED BY <2>1, <2>2 DEF IsCommand
<1>6. CASE TaskStep
  BY <1>1, <1>5, <1>6
     DEF TaskStep, StreamStep, HandOver, Connect, ConnectFails, Wake,
         TakeDelivery, RejectDelivery, StreamError, TellStore, TellEvaluate,
         HandlerFails, TaskDies, actorVars
<1>7. CASE ShutdownStep
  BY <1>1, <1>7
     DEF ShutdownStep, MainStep, StopStep, CtrlC, SendStop, Join, Exit,
         HandleStop, TakeStop, OnStop, FinishStop, actorVars, taskVars
<1>8. CASE CrashRestart
  BY <1>8 DEF CrashRestart, Actors
<1>9. CASE WorldStep
  BY <1>1, <1>8, <1>9
     DEF WorldStep, BrokerPushes, LoseConnection, BrokerCancels, actorVars,
         taskVars
<1>10. CASE UNCHANGED vars
  BY <1>1, <1>10 DEF vars, actorVars, taskVars
<1> QED BY <1>3, <1>4, <1>6, <1>7, <1>9, <1>10, NextByActor DEF Idle

-----------------------------------------------------------------------------
(* The refinement.                                                         *)

AbstractStep == D!DeliveryNext \/ UNCHANGED D!deliveryVars

\* Settling without a job: the delivery that does not parse, or whose handler
\* has failed just now, is dead-lettered for the first time.
LEMMA NackRefines ==
    ASSUME TypeInv, OnePlace, NEW tag, Settle("Nack", tag)
    PROVE  /\ acked' = acked
           /\ \/ dlq' = dlq
              \/ /\ tag \in Unsettled
                 /\ sent[tag] \in Msgs \ Gone
                 /\ dlq' = dlq \cup {sent[tag]}
<1>1. tag \in Unsettled => sent[tag] \in Msgs \ Gone
  BY DEF TypeInv, TypeOK, BrokerTypeOK, Unsettled, OnePlace
<1> QED BY <1>1, SettleEffect

\* A drained command is an ack of what is stored, a dead-lettering of what has
\* failed, a recorded mistake, or has no effect.
LEMMA DrainRefines ==
    ASSUME TypeInv, MailInv, OnePlace, CommandsOnly, DrainCommand
    PROVE  AbstractStep
<1>1. PICK cmd \in JobMail : /\ cmd = Head(commands) /\ Sound(cmd)
                             /\ IsCommand(cmd)
  <2>1. Head(commands) \in JobMail /\ Queued(Head(commands))
        /\ IsCommand(Head(commands))
    BY DEF TypeInv, TypeOK, TaskTypeOK, DrainCommand, Queued, CommandsOnly
  <2> QED BY <2>1, InFlightIs DEF MailInv, Sound
<1> DEFINE tag == cmd.job.tag
           m == sent[tag]
<1>2. /\ Settle(cmd.kind, tag)
      /\ UNCHANGED << db, erred >>
      /\ crossed' = IF tag \in Unsettled /\ m # cmd.job.msg
                    THEN crossed \cup {m} ELSE crossed
  BY <1>1 DEF DrainCommand
<1>3. CASE tag \notin Unsettled
  <2>1. UNCHANGED << acked, dlq, crossed >>
    BY <1>2, <1>3, SettleEffect
  <2> QED BY <1>2, <2>1 DEF AbstractStep, D!deliveryVars
<1>4. CASE tag \in Unsettled
  <2>1. m \in Msgs \ Gone
    BY <1>4 DEF TypeInv, TypeOK, BrokerTypeOK, Unsettled, OnePlace
  <2>2. \/ cmd.kind = "Ack" /\ acked' = acked \cup {m} /\ dlq' = dlq
        \/ cmd.kind = "Nack" /\ dlq' = dlq \cup {m} /\ acked' = acked
    <3>1. SettleTag(cmd.kind, tag)
      BY <1>1, <1>2, <1>4
         DEF Settle, Unsettled, CommandsOnly
    <3> QED BY <1>1, <3>1 DEF SettleTag, IsCommand
  <2>3. CASE m = cmd.job.msg
    <3>1. CASE cmd.kind = "Ack"
      <4>1. D!Ack(m)
        BY <1>1, <1>2, <2>1, <2>2, <2>3, <3>1
           DEF Sound, Justified, D!Ack, D!Unsettled, Gone
      <4> QED BY <2>1, <4>1 DEF AbstractStep, D!DeliveryNext
    <3>2. CASE cmd.kind = "Nack"
      <4>1. D!DeadLetter(m)
        BY <1>1, <1>2, <2>1, <2>2, <2>3, <3>2
           DEF Sound, Justified, D!DeadLetter, D!Unsettled, Gone
      <4> QED BY <2>1, <4>1 DEF AbstractStep, D!DeliveryNext
    <3> QED BY <2>2, <3>1, <3>2
  <2>4. CASE m # cmd.job.msg
    <3>1. D!Mistake(m)
      BY <1>2, <1>4, <2>1, <2>2, <2>4 DEF D!Mistake, D!Unsettled, Gone
    <3> QED BY <2>1, <3>1 DEF AbstractStep, D!DeliveryNext
  <2> QED BY <2>3, <2>4
<1> QED BY <1>3, <1>4

\* A delivery that does not parse is dead-lettered unread.
LEMMA RejectRefines ==
    ASSUME TypeInv, OnePlace, RejectDelivery PROVE AbstractStep
<1>1. PICK tag \in Nat : /\ Settle("Nack", tag)
                         /\ sent[tag] \notin Parsable
                         /\ UNCHANGED << db, erred, crossed >>
  BY DEF RejectDelivery, histVars, TypeInv, TypeOK, TaskTypeOK
<1>2. CASE UNCHANGED << acked, dlq >>
  BY <1>1, <1>2 DEF AbstractStep, D!deliveryVars
<1>3. CASE /\ sent[tag] \in Msgs \ Gone
           /\ dlq' = dlq \cup {sent[tag]} /\ acked' = acked
  <2>1. D!DeadLetter(sent[tag])
    BY <1>1, <1>3 DEF D!DeadLetter, D!Unsettled, Gone
  <2> QED BY <1>3, <2>1 DEF AbstractStep, D!DeliveryNext
<1>4. Settle("Nack", tag)
  BY <1>1
<1> QED BY <1>2, <1>3, <1>4, NackRefines

\* A handler that fails has its delivery dead-lettered at once, if the channel
\* it came from is still there.
LEMMA HandlerFailsRefines ==
    ASSUME TypeInv, HandPlaced, OnePlace, HandlerFails PROVE AbstractStep
<1>1. /\ Settle("Nack", hand.tag)
      /\ task \in {"store", "evaluate"}
      /\ erred' = erred \cup {hand.msg}
      /\ UNCHANGED << db, crossed >>
  BY DEF HandlerFails
<1>2. /\ hand.msg \in Parsable /\ hand.msg \in Msgs
      /\ hand.tag \in Unsettled => sent[hand.tag] = hand.msg
  BY <1>1, MsgsAssumption DEF HandPlaced, Placed, Unsettled
<1>3. CASE UNCHANGED << acked, dlq >>
  <2>1. D!Fail(hand.msg)
    BY <1>1, <1>2, <1>3 DEF D!Fail
  <2> QED BY <1>2, <2>1 DEF AbstractStep, D!DeliveryNext
<1>4. CASE /\ hand.msg \notin Gone
           /\ dlq' = dlq \cup {hand.msg} /\ acked' = acked
  <2>1. D!Refuse(hand.msg)
    BY <1>1, <1>2, <1>4 DEF D!Refuse, D!Unsettled, Gone
  <2> QED BY <1>2, <2>1 DEF AbstractStep, D!DeliveryNext
<1> QED BY <1>1, <1>2, <1>3, <1>4, NackRefines

\* Storing, with or without success, is of a message that did parse.
LEMMA InsertRefines ==
    ASSUME TypeInv, MailInv, InsertStep PROVE AbstractStep
<1>1. hold["sink"].kind = "Persist"
  BY DEF InsertStep, InsertSucceeds, InsertFails
<1>2. PICK job \in Jobs : job = hold["sink"].job /\ job.msg \in Parsable
  BY <1>1, HeldSound, MailTypes DEF Sound, Placed, Actors
<1>3. UNCHANGED << acked, dlq, crossed >>
  BY DEF InsertStep, InsertSucceeds, InsertFails, brokerVars, histVars
<1>4. \/ db' = db \cup {job.msg} /\ erred' = erred
      \/ db' \in {db, db \cup {job.msg}} /\ erred' = erred \cup {job.msg}
  BY <1>2 DEF InsertStep, InsertSucceeds, InsertFails, histVars
<1>5. D!Store(job.msg) \/ D!Fail(job.msg)
  BY <1>2, <1>3, <1>4 DEF D!Store, D!Fail
<1> QED BY <1>2, <1>5, MsgsAssumption DEF AbstractStep, D!DeliveryNext

\* A step that touches neither the database nor what is settled.
LEMMA StutterRefines ==
    UNCHANGED << db, erred, acked, dlq, crossed >> => AbstractStep
BY DEF AbstractStep, D!deliveryVars

\* Every step of the pipeline is a step of Delivery or leaves it alone.
LEMMA StepRefines ==
    ASSUME TypeInv, MailInv, HandPlaced, OnePlace, CommandsOnly, [Next]_vars
    PROVE  AbstractStep
<1>1. CASE ConsumerStep \/ EngineStep
  BY <1>1, StutterRefines
     DEF ConsumerStep, HandleStart, HandleStore, HandleAckMessage, SendCommand,
         EngineStep, HandleEvaluate, TellPersist, brokerVars, histVars
<1>2. CASE SinkStep
  BY <1>2, InsertRefines, StutterRefines
     DEF SinkStep, HandlePersist, TellAck, brokerVars, histVars
<1>3. CASE TaskStep
  BY <1>3, RejectRefines, HandlerFailsRefines, DrainRefines, StutterRefines
     DEF TaskStep, StreamStep, HandOver, Connect, ConnectFails, Wake,
         TakeDelivery, StreamError, TellStore, TellEvaluate, TaskDies,
         OpenChannel, DropChannel, brokerVars, histVars
<1>4. CASE ShutdownStep
  BY <1>4, StutterRefines
     DEF ShutdownStep, MainStep, StopStep, CtrlC, SendStop, Join, Exit,
         HandleStop, OnStop, DropChannel, brokerVars, histVars
<1>5. CASE WorldStep
  BY <1>5, StutterRefines
     DEF WorldStep, BrokerPushes, LoseConnection, BrokerCancels, CrashRestart,
         Push, CloseChannel, CancelConsumer, DropChannel, histVars
<1>6. CASE UNCHANGED vars
  BY <1>6, StutterRefines DEF vars, brokerVars, histVars
<1> QED BY <1>1, <1>2, <1>3, <1>4, <1>5, <1>6, NextByActor DEF Idle

\* A message is in one place at any time, and every command is an ack or a
\* nack.
THEOREM OnePlaceInvariant == Spec => [](OnePlace /\ CommandsOnly)
<1>1. Init => OnePlace /\ CommandsOnly
  BY DEF Init, BrokerInit, ActorsInit, Actors, OnePlace, Gone, Unsettled, Open,
         CommandsOnly
<1>2. TypeInv /\ OnePlace /\ CommandsOnly /\ [Next]_vars
      => (OnePlace /\ CommandsOnly)'
  BY OnePlaceInductive, CommandsInductive, BrokerSteps DEF TypeInv, TypeOK
<1> QED BY <1>1, <1>2, TypeInvariant, PTL DEF Spec

\* Over any number of connections, crashes and restarts: a message is settled
\* at most once; acked only when it is stored, and dead-lettered only when it
\* does not parse or has failed, or else it was settled on the result of
\* another message and is recorded as such.
THEOREM PipelineKeepsDelivery == Spec => KeepsDelivery
<1>1. Init => D!DeliveryInit
  BY DEF Init, BrokerInit, D!DeliveryInit
<1>2. /\ TypeInv /\ MailInv /\ HandPlaced /\ OnePlace /\ CommandsOnly
      /\ [Next]_vars
      => [D!DeliveryNext]_(D!deliveryVars)
  BY StepRefines DEF AbstractStep
<1> QED BY <1>1, <1>2, TypeInvariant, SettlementInvariant, OnePlaceInvariant, PTL
        DEF Spec, KeepsDelivery, D!DeliverySpec
=============================================================================
