--------------------------- MODULE TrackingProofs ---------------------------
(***************************************************************************)
(* Why no delivery is forgotten, for every set of messages, every capacity *)
(* and any number of connections.                                          *)
(*                                                                         *)
(* A delivery that the open channel waits for is followed all the way      *)
(* round: it is in the hands of the AMQP task, with the engine or the      *)
(* sink, in an AckMessage, or in a command.  The consumer drops an         *)
(* AckMessage whose tag is not pending, and the results of an older        *)
(* channel take tags out of `pending' that were given out again; so up to  *)
(* the AckMessage the delivery is followed only as long as its tag will be *)
(* known when the AckMessage is handled: it is pending, or its Store mail  *)
(* is on the way before it.  Whoever takes the tag out of `pending' leaves *)
(* a command with that tag, and that settles the delivery as well.         *)
(***************************************************************************)
EXTENDS SettlementProofs

OnItsWay(mail) == mail.kind \in JobKinds \ {"Store"}
About(mail, tag) == OnItsWay(mail) /\ mail.job.tag = tag
Stores(mail, tag) == mail.kind = "Store" /\ mail.job.tag = tag
Answers(mail, tag) == mail.kind \in {"Ok", "Err"} /\ mail.job.tag = tag

\* Some message of a queue is about the tag.
In(queue, tag) == \E i \in 1 .. Len(queue) : About(queue[i], tag)

\* With these tags pending and this mailbox, the tag will be pending when the
\* i-th message is handled, unless an AckMessage takes it out before.
Known(tags, queue, i, tag) ==
    tag \in tags \/ \E k \in 1 .. i - 1 : Stores(queue[k], tag)

KnownAtEnd(tags, queue, tag) == Known(tags, queue, Len(queue) + 1, tag)

Answered(tags, queue, tag) ==
    \E i \in 1 .. Len(queue) :
        Answers(queue[i], tag) /\ Known(tags, queue, i, tag)

InHand(tag) == hand.tag = tag

\* Between the AMQP task and the sink's AckMessage.
Evaluated(tag) ==
    \/ task = "evaluate" /\ InHand(tag)
    \/ \E a \in {"engine", "sink"} : In(box[a], tag) \/ About(hold[a], tag)

Commanded(tag) == About(hold["consumer"], tag) \/ In(commands, tag)

Followed(tag) ==
    \/ task = "store" /\ InHand(tag)
    \/ Evaluated(tag) /\ KnownAtEnd(pending, box["consumer"], tag)
    \/ Answered(pending, box["consumer"], tag)
    \/ Commanded(tag)

\* The tags the open channel waits for, of those the task has taken.
Awaited == Unsettled \cap 1 .. taken

AllFollowed == main.at = "serving" => \A tag \in Awaited : Followed(tag)

\* The task has taken no more than was pushed.
TakenInv == taken <= Len(sent)

\* Until ctrl-c no actor stops or has been asked to.
NoStops ==
    main.at = "serving" =>
        (\A a \in Actors : actor[a] = "running") /\ ~ Mailed(Stop)

\* StartConsuming is the first message there is: it finds the task not started.
StartFirst ==
    \A i \in 1 .. Len(box["consumer"]) :
        box["consumer"][i].kind = "Start" => i = 1 /\ task \in {"none", "aborted"}

TrackInv == AllFollowed /\ TakenInv /\ NoStops /\ StartFirst

-----------------------------------------------------------------------------
(* Queues.                                                                 *)

\* What a queue says about a tag stays, but for its first message.
LEMMA InFacts ==
    ASSUME NEW S, NEW s \in Seq(S), NEW tag
    PROVE  /\ \A e \in S : In(s, tag) \/ About(e, tag) => In(Append(s, e), tag)
           /\ s # << >> /\ In(s, tag) => About(Head(s), tag) \/ In(Tail(s), tag)
<1>1. ASSUME NEW e \in S, In(s, tag) \/ About(e, tag)
      PROVE  In(Append(s, e), tag)
  BY <1>1, AppendFacts DEF In
<1>2. ASSUME s # << >>, In(s, tag), ~ About(Head(s), tag)
      PROVE  In(Tail(s), tag)
  <2>1. PICK i \in 1 .. Len(s) : About(s[i], tag)
    BY <1>2 DEF In
  <2>2. i # 1
    BY <1>2, <2>1, TailFacts
  <2>3. i - 1 \in 1 .. Len(Tail(s)) /\ Tail(s)[i - 1] = s[i]
    BY <1>2, <2>2, TailFacts
  <2> QED BY <2>1, <2>3 DEF In
<1> QED BY <1>1, <1>2

\* A message behind the others changes nothing for them, and an AckMessage
\* that comes when its tag is known will be heeded.
LEMMA PostKeeps ==
    ASSUME NEW S, NEW s \in Seq(S), NEW e \in S, NEW tags, NEW tag
    PROVE  /\ KnownAtEnd(tags, s, tag) => KnownAtEnd(tags, Append(s, e), tag)
           /\ Stores(e, tag) => KnownAtEnd(tags, Append(s, e), tag)
           /\ Answered(tags, s, tag) => Answered(tags, Append(s, e), tag)
           /\ Answers(e, tag) /\ KnownAtEnd(tags, s, tag)
                  => Answered(tags, Append(s, e), tag)
<1> DEFINE t == Append(s, e)
<1>0. /\ Len(t) = Len(s) + 1 /\ Len(s) \in Nat /\ t[Len(s) + 1] = e
      /\ \A i \in 1 .. Len(s) : t[i] = s[i]
  BY AppendFacts
<1> HIDE DEF t
<1>1. \A i \in 1 .. Len(s) + 1 : Known(tags, s, i, tag) => Known(tags, t, i, tag)
  BY <1>0 DEF Known
<1>2. KnownAtEnd(tags, s, tag) => KnownAtEnd(tags, t, tag)
  BY <1>0 DEF Known, KnownAtEnd
<1>3. Stores(e, tag) => KnownAtEnd(tags, t, tag)
  BY <1>0 DEF Known, KnownAtEnd
<1>4. Answered(tags, s, tag) => Answered(tags, t, tag)
  BY <1>0, <1>1 DEF Answered
<1>5. Answers(e, tag) /\ KnownAtEnd(tags, s, tag) => Answered(tags, t, tag)
  BY <1>0, <1>1 DEF Answered, KnownAtEnd
<1> QED BY <1>2, <1>3, <1>4, <1>5 DEF t

\* Handling the first message: a Store makes its tag pending, and what is not
\* the AckMessage of a pending tag takes nothing away.
LEMMA TakeKeeps ==
    ASSUME NEW S, NEW s \in Seq(S), s # << >>, NEW tags, NEW left, NEW tag,
           Stores(Head(s), tag) => tag \in left,
           tag \in tags => tag \in left,
           ~ (Answers(Head(s), tag) /\ tag \in tags)
    PROVE  /\ KnownAtEnd(tags, s, tag) => KnownAtEnd(left, Tail(s), tag)
           /\ Answered(tags, s, tag) => Answered(left, Tail(s), tag)
<1> DEFINE t == Tail(s)
<1>0. /\ Len(t) = Len(s) - 1 /\ Len(s) \in Nat \ {0} /\ Head(s) = s[1]
      /\ \A i \in 1 .. Len(t) : i + 1 \in 1 .. Len(s) /\ t[i] = s[i + 1]
  BY TailFacts
<1> HIDE DEF t
<1>1. ASSUME NEW i \in 1 .. Len(s), Known(tags, s, i + 1, tag)
      PROVE  Known(left, t, i, tag)
  <2>1. CASE tag \in tags
    BY <2>1 DEF Known
  <2>2. ASSUME NEW k \in 1 .. i, Stores(s[k], tag) PROVE Known(left, t, i, tag)
    <3>1. CASE k = 1
      BY <1>0, <2>2, <3>1 DEF Known
    <3>2. CASE k # 1
      <4>1. k - 1 \in 1 .. i - 1 /\ t[k - 1] = s[k]
        BY <1>0, <3>2
      <4> QED BY <2>2, <4>1 DEF Known
    <3> QED BY <3>1, <3>2
  <2> QED BY <1>1, <2>1, <2>2 DEF Known
<1>2. KnownAtEnd(tags, s, tag) => KnownAtEnd(left, t, tag)
  BY <1>0, <1>1 DEF KnownAtEnd
<1>3. ASSUME NEW i \in 1 .. Len(s), Answers(s[i], tag), Known(tags, s, i, tag)
      PROVE  Answered(left, t, tag)
  <2>1. i # 1
    BY <1>0, <1>3 DEF Known
  <2>2. i - 1 \in 1 .. Len(t) /\ t[i - 1] = s[i]
    BY <1>0, <2>1
  <2>3. Known(left, t, i - 1, tag)
    BY <1>0, <1>1, <1>3, <2>2
  <2> QED BY <1>3, <2>2, <2>3 DEF Answered
<1> QED BY <1>2, <1>3 DEF Answered, t

-----------------------------------------------------------------------------
(* A step keeps following every tag it does not settle.                    *)

\* What a handler takes out of its mailbox is a message of that kind.
LEMMA Handled ==
    ASSUME ActorsTypeOK, NEW a \in Actors, NEW kind \in JobKinds, Handles(a, kind)
    PROVE  /\ box[a] # << >> /\ box[a] \in Seq(Mail)
           /\ Head(box[a]) \in JobMail /\ Head(box[a]).kind = kind
           /\ actor[a] = "running" /\ hold[a] = NoMail
<1>1. /\ box[a] # << >> /\ Head(box[a]).kind = kind
      /\ actor[a] = "running" /\ hold[a] = NoMail
  BY DEF Handles
<1>2. Head(box[a]) \in Mail
  BY <1>1, MailboxTypes
<1>3. box[a] \in Seq(Mail)
  BY DEF ActorsTypeOK
<1> QED BY <1>1, <1>2, <1>3, MailTypes

\* Nothing is about any tag in a handler that holds nothing.
LEMMA NothingHeld == \A tag : ~ About(NoMail, tag)
BY DEF About, OnItsWay, NoMail, JobKinds

\* The consumer actor: it forgets a tag only for a command that carries it.
LEMMA ConsumerFollows ==
    ASSUME TypeInv, StartFirst, ConsumerStep, NEW tag, Followed(tag)
    PROVE  Followed(tag)'
<1>0. /\ ActorsTypeOK /\ commands \in Seq(JobMail)
      /\ Actors = {"consumer", "engine", "sink"} /\ JobMail \subseteq Mail
      /\ \A b \in Actors : box[b] \in Seq(Mail)
  BY MailTypes DEF TypeInv, TypeOK, TaskTypeOK, ActorsTypeOK, Actors
<1> DEFINE queue == box["consumer"]
<1>1. ASSUME box' = Popped("consumer"), queue # << >>, queue \in Seq(Mail),
             UNCHANGED << hold, hand, commands >>,
             task' = task \/ task \notin {"store", "evaluate"},
             Stores(Head(queue), tag) => tag \in pending',
             tag \in pending => tag \in pending',
             ~ Answers(Head(queue), tag)
      PROVE  Followed(tag)'
  <2>1. /\ box'["consumer"] = Tail(queue)
        /\ box'["engine"] = box["engine"] /\ box'["sink"] = box["sink"]
    BY <1>0, <1>1 DEF Popped, ActorsTypeOK
  <2>2. /\ KnownAtEnd(pending, queue, tag) => KnownAtEnd(pending', Tail(queue), tag)
        /\ Answered(pending, queue, tag) => Answered(pending', Tail(queue), tag)
    BY <1>1, TakeKeeps
  <2>3. Commanded(tag) => Commanded(tag)'
    BY <1>1 DEF Commanded
  <2>4. Evaluated(tag) => Evaluated(tag)'
    BY <1>1, <2>1 DEF Evaluated, InHand
  <2> HIDE DEF queue
  <2> QED BY <1>1, <2>1, <2>2, <2>3, <2>4 DEF Followed, InHand, queue
<1>2. CASE HandleStart
  <2>1. queue # << >> /\ Head(queue).kind = "Start" /\ queue \in Seq(Mail)
    BY <1>0, <1>2 DEF HandleStart, Handles
  <2>2. task \notin {"store", "evaluate"}
    BY <2>1, TailFacts DEF StartFirst
  <2> QED BY <1>1, <1>2, <2>1, <2>2 DEF HandleStart, Stores, Answers
<1>3. CASE HandleStore
  <2>1. /\ queue # << >> /\ queue \in Seq(Mail)
        /\ Head(queue).kind = "Store" /\ pending' = pending \cup {Head(queue).job.tag}
    BY <1>0, <1>3, Handled DEF HandleStore, JobKinds
  <2> QED BY <1>1, <1>3, <2>1 DEF HandleStore, taskVars, Stores, Answers
<1>4. CASE HandleAckMessage
  <2> DEFINE mail == Head(queue)
             kind == IF mail.kind = "Ok" THEN "Ack" ELSE "Nack"
  <2>1. /\ queue # << >> /\ queue \in Seq(Mail)
        /\ mail \in JobMail /\ mail.kind \in {"Ok", "Err"}
        /\ hold["consumer"] = NoMail
    BY <1>0, <1>4, Handled DEF HandleAckMessage, JobKinds
  <2>2. /\ box' = Popped("consumer") /\ UNCHANGED << task, hand, commands >>
        /\ pending' = pending \ {mail.job.tag}
        /\ hold' = IF mail.job.tag \in pending
                   THEN [hold EXCEPT !["consumer"] = MailOf(kind, mail.job)]
                   ELSE hold
    BY <1>4 DEF HandleAckMessage, taskVars
  <2>3. CASE mail.job.tag = tag /\ tag \in pending
    <3>1. hold'["consumer"] = MailOf(kind, mail.job)
      BY <1>0, <2>2, <2>3 DEF ActorsTypeOK
    <3>2. About(MailOf(kind, mail.job), tag)
      BY <2>3 DEF About, OnItsWay, MailOf, JobKinds
    <3> QED BY <3>1, <3>2 DEF Followed, Commanded
  <2>4. CASE ~ (mail.job.tag = tag /\ tag \in pending)
    <3>1. /\ box'["consumer"] = Tail(queue)
          /\ box'["engine"] = box["engine"] /\ box'["sink"] = box["sink"]
      BY <1>0, <2>2 DEF Popped, ActorsTypeOK
    <3>2. hold'["engine"] = hold["engine"] /\ hold'["sink"] = hold["sink"]
      BY <1>0, <2>2 DEF ActorsTypeOK
    <3>3. /\ ~ Stores(mail, tag) /\ ~ (Answers(mail, tag) /\ tag \in pending)
          /\ tag \in pending => tag \in pending'
      BY <2>1, <2>2, <2>4 DEF Stores, Answers
    <3>4. /\ KnownAtEnd(pending, queue, tag) => KnownAtEnd(pending', Tail(queue), tag)
          /\ Answered(pending, queue, tag) => Answered(pending', Tail(queue), tag)
      BY <2>1, <3>3, TakeKeeps
    <3>5. Commanded(tag) => In(commands, tag)
      BY <2>1, NothingHeld DEF Commanded
    <3>6. In(commands, tag) => Commanded(tag)'
      BY <2>2 DEF Commanded
    <3>7. Evaluated(tag) => Evaluated(tag)'
      BY <2>2, <3>1, <3>2 DEF Evaluated, InHand
    <3> HIDE DEF queue, mail
    <3> QED BY <2>2, <3>1, <3>4, <3>5, <3>6, <3>7 DEF Followed, InHand, queue
  <2> QED BY <2>3, <2>4
<1>5. CASE SendCommand
  <2>1. /\ hold["consumer"] \in JobMail
        /\ commands' = Append(commands, hold["consumer"])
        /\ hold'["engine"] = hold["engine"] /\ hold'["sink"] = hold["sink"]
        /\ UNCHANGED << box, task, hand, pending >>
    BY <1>0, <1>5, MailTypes DEF SendCommand, ActorsTypeOK
  <2>2. Commanded(tag) => In(commands', tag)
    BY <1>0, <2>1, InFacts DEF Commanded
  <2>3. Evaluated(tag) => Evaluated(tag)'
    BY <2>1 DEF Evaluated, InHand
  <2>4. In(commands', tag) => Commanded(tag)'
    BY DEF Commanded
  <2> QED BY <2>1, <2>2, <2>3, <2>4 DEF Followed, InHand
<1> QED BY <1>2, <1>3, <1>4, <1>5 DEF ConsumerStep

\* The engine and the sink pass on what they take, and the sink's AckMessage
\* finds the consumer, which knows the tag by then.
LEMMA EngineSinkFollows ==
    ASSUME TypeInv, NoStops, main.at = "serving", EngineStep \/ SinkStep,
           NEW tag, Followed(tag)
    PROVE  Followed(tag)'
<1>0. /\ ActorsTypeOK /\ "consumer" \in Actors
      /\ Actors = {"consumer", "engine", "sink"} /\ JobMail \subseteq Mail
      /\ \A b \in Actors : /\ box[b] \in Seq(Mail)
                           /\ hold[b] # NoMail => hold[b] \in JobMail
                           /\ actor[b] = "running"
  BY MailTypes DEF TypeInv, TypeOK, ActorsTypeOK, Actors, NoStops
<1>1. ASSUME UNCHANGED << task, hand, pending, commands >>,
             hold'["consumer"] = hold["consumer"],
             box'["consumer"] = box["consumer"],
             Evaluated(tag) => Evaluated(tag)'
      PROVE  Followed(tag)'
  <2>1. Commanded(tag) => Commanded(tag)'
    BY <1>1 DEF Commanded
  <2> QED BY <1>1, <2>1 DEF Followed, InHand
<1>2. \A mail \in JobMail, kind \in JobKinds \ {"Store"} :
          About(mail, tag) => About(MailOf(kind, mail.job), tag)
  BY DEF About, OnItsWay, MailOf
<1>3. CASE HandleEvaluate
  <2> DEFINE queue == box["engine"]
  <2>1. /\ queue # << >> /\ queue \in Seq(Mail) /\ Head(queue) \in JobMail
        /\ hold["engine"] = NoMail
    BY <1>0, <1>3, Handled DEF HandleEvaluate, JobKinds
  <2>2. /\ hold'["engine"] = MailOf("Persist", Head(queue).job)
        /\ hold'["sink"] = hold["sink"] /\ hold'["consumer"] = hold["consumer"]
        /\ box'["engine"] = Tail(queue)
        /\ box'["sink"] = box["sink"] /\ box'["consumer"] = box["consumer"]
        /\ UNCHANGED << task, hand, pending, commands >>
    BY <1>0, <1>3 DEF HandleEvaluate, Popped, ActorsTypeOK, taskVars
  <2>3. In(queue, tag) => About(hold'["engine"], tag) \/ In(box'["engine"], tag)
    BY <1>2, <2>1, <2>2, InFacts DEF JobKinds
  <2>4. Evaluated(tag) => Evaluated(tag)'
    BY <2>1, <2>2, <2>3, NothingHeld DEF Evaluated, InHand
  <2> QED BY <1>1, <2>2, <2>4
<1>4. CASE TellPersist
  <2>1. /\ hold["engine"] \in JobMail
        /\ box'["sink"] = Append(box["sink"], hold["engine"])
        /\ box'["engine"] = box["engine"] /\ box'["consumer"] = box["consumer"]
        /\ hold'["sink"] = hold["sink"] /\ hold'["consumer"] = hold["consumer"]
        /\ UNCHANGED << task, hand, pending, commands >>
    BY <1>0, <1>4 DEF TellPersist, Posted, ActorsTypeOK, taskVars
  <2>2. In(box["sink"], tag) \/ About(hold["engine"], tag) => In(box'["sink"], tag)
    BY <1>0, <2>1, InFacts
  <2>3. Evaluated(tag) => Evaluated(tag)'
    BY <2>1, <2>2 DEF Evaluated, InHand
  <2> QED BY <1>1, <2>1, <2>3
<1>5. CASE HandlePersist
  <2> DEFINE queue == box["sink"]
  <2>1. /\ queue # << >> /\ queue \in Seq(Mail) /\ hold["sink"] = NoMail
    BY <1>0, <1>5, Handled DEF HandlePersist, JobKinds
  <2>2. /\ hold'["sink"] = Head(queue)
        /\ hold'["engine"] = hold["engine"] /\ hold'["consumer"] = hold["consumer"]
        /\ box'["sink"] = Tail(queue)
        /\ box'["engine"] = box["engine"] /\ box'["consumer"] = box["consumer"]
        /\ UNCHANGED << task, hand, pending, commands >>
    BY <1>0, <1>5 DEF HandlePersist, Popped, ActorsTypeOK, taskVars
  <2>3. In(queue, tag) => About(hold'["sink"], tag) \/ In(box'["sink"], tag)
    BY <2>1, <2>2, InFacts
  <2>4. Evaluated(tag) => Evaluated(tag)'
    BY <2>1, <2>2, <2>3, NothingHeld DEF Evaluated, InHand
  <2> QED BY <1>1, <2>2, <2>4
<1>6. CASE InsertStep
  <2>1. PICK kind \in {"Ok", "Err"} :
            hold' = [hold EXCEPT !["sink"] = MailOf(kind, hold["sink"].job)]
    BY <1>6 DEF InsertStep, InsertSucceeds, InsertFails
  <2>2. /\ hold["sink"].kind = "Persist"
        /\ UNCHANGED << box, task, hand, pending, commands >>
    BY <1>6 DEF InsertStep, InsertSucceeds, InsertFails, taskVars
  <2>3. hold["sink"] \in JobMail
    BY <1>0, <2>2 DEF NoMail
  <2>4. /\ hold'["sink"] = MailOf(kind, hold["sink"].job)
        /\ hold'["engine"] = hold["engine"] /\ hold'["consumer"] = hold["consumer"]
    BY <1>0, <2>1 DEF ActorsTypeOK
  <2>5. About(hold["sink"], tag) => About(hold'["sink"], tag)
    BY <1>2, <2>3, <2>4 DEF JobKinds
  <2>6. Evaluated(tag) => Evaluated(tag)'
    BY <2>2, <2>4, <2>5 DEF Evaluated, InHand
  <2> QED BY <1>1, <2>2, <2>4, <2>6
<1>7. CASE TellAck
  <2> DEFINE queue == box["consumer"]
             mail == hold["sink"]
  <2>1. /\ mail.kind \in {"Ok", "Err"} /\ mail \in JobMail
        /\ box' = Posted("consumer", mail)
        /\ hold' = [hold EXCEPT !["sink"] = NoMail]
        /\ UNCHANGED << task, hand, pending, commands >>
    BY <1>0, <1>7 DEF TellAck, TellErr, NoMail, taskVars
  <2>2. /\ box'["consumer"] = Append(queue, mail)
        /\ box'["engine"] = box["engine"] /\ box'["sink"] = box["sink"]
        /\ hold'["engine"] = hold["engine"] /\ hold'["consumer"] = hold["consumer"]
    BY <1>0, <2>1 DEF Posted, ActorsTypeOK
  <2>3. /\ KnownAtEnd(pending, queue, tag) => KnownAtEnd(pending, Append(queue, mail), tag)
        /\ Answered(pending, queue, tag) => Answered(pending, Append(queue, mail), tag)
        /\ Answers(mail, tag) /\ KnownAtEnd(pending, queue, tag)
               => Answered(pending, Append(queue, mail), tag)
    BY <1>0, <2>1, PostKeeps
  <2>4. About(mail, tag) => Answers(mail, tag)
    BY <2>1 DEF About, Answers
  <2>5. Evaluated(tag) => Evaluated(tag)' \/ About(mail, tag)
    BY <2>1, <2>2 DEF Evaluated, InHand
  <2>6. Commanded(tag) => Commanded(tag)'
    BY <2>1, <2>2 DEF Commanded
  <2> HIDE DEF queue, mail
  <2> QED BY <2>1, <2>2, <2>3, <2>4, <2>5, <2>6 DEF Followed, InHand, queue
<1> QED BY <1>3, <1>4, <1>5, <1>6, <1>7 DEF EngineStep, SinkStep

\* The AMQP task hands the delivery over: the tag first, the transaction then.
LEMMA TellFollows ==
    ASSUME TypeInv, TellStore \/ TellEvaluate, NEW tag, Followed(tag)
    PROVE  Followed(tag)'
<1>0. /\ ActorsTypeOK /\ Actors = {"consumer", "engine", "sink"}
      /\ \A b \in Actors : box[b] \in Seq(Mail)
      /\ hand \in Jobs /\ MailOf("Store", hand) \in Mail
      /\ MailOf("Evaluate", hand) \in Mail
  <2>1. hand \in Jobs
    BY DEF TypeInv, HandInv, TellStore, TellEvaluate
  <2> QED BY <2>1, MailTypes
          DEF TypeInv, TypeOK, ActorsTypeOK, Actors, JobKinds
<1>1. CASE TellStore
  <2> DEFINE queue == box["consumer"]
             mail == MailOf("Store", hand)
  <2>1. /\ task = "store" /\ task' = "evaluate"
        /\ box'["consumer"] = Append(queue, mail)
        /\ box'["engine"] = box["engine"] /\ box'["sink"] = box["sink"]
        /\ UNCHANGED << hold, hand, pending, commands >>
    BY <1>0, <1>1 DEF TellStore, Posted, ActorsTypeOK
  <2>2. /\ KnownAtEnd(pending, queue, tag) => KnownAtEnd(pending, Append(queue, mail), tag)
        /\ Stores(mail, tag) => KnownAtEnd(pending, Append(queue, mail), tag)
        /\ Answered(pending, queue, tag) => Answered(pending, Append(queue, mail), tag)
    BY <1>0, PostKeeps
  <2>3. InHand(tag) => Stores(mail, tag)
    BY DEF InHand, Stores, MailOf
  <2>4. Evaluated(tag) => Evaluated(tag)'
    BY <2>1 DEF Evaluated
  <2>5. InHand(tag) => Evaluated(tag)'
    BY <2>1 DEF Evaluated, InHand
  <2>6. Commanded(tag) => Commanded(tag)'
    BY <2>1 DEF Commanded
  <2> HIDE DEF queue, mail
  <2> QED BY <2>1, <2>2, <2>3, <2>4, <2>5, <2>6 DEF Followed, queue
<1>2. CASE TellEvaluate
  <2> DEFINE mail == MailOf("Evaluate", hand)
  <2>1. /\ task = "evaluate"
        /\ box'["engine"] = Append(box["engine"], mail)
        /\ box'["consumer"] = box["consumer"] /\ box'["sink"] = box["sink"]
        /\ UNCHANGED << hold, pending, commands >>
    BY <1>0, <1>2 DEF TellEvaluate, Posted, ActorsTypeOK
  <2>2. InHand(tag) => About(mail, tag)
    BY DEF InHand, About, OnItsWay, MailOf, JobKinds
  <2>3. In(box["engine"], tag) \/ InHand(tag) => In(box'["engine"], tag)
    BY <1>0, <2>1, <2>2, InFacts
  <2>4. Evaluated(tag) => Evaluated(tag)'
    BY <2>1, <2>3 DEF Evaluated
  <2>5. Commanded(tag) => Commanded(tag)'
    BY <2>1 DEF Commanded
  <2> QED BY <2>1, <2>4, <2>5 DEF Followed
<1> QED BY <1>1, <1>2

\* A command that is carried out leaves the others.
LEMMA DrainFollows ==
    ASSUME TypeInv, DrainCommand, NEW tag, tag # Head(commands).job.tag,
           Followed(tag)
    PROVE  Followed(tag)'
<1>1. /\ commands \in Seq(JobMail) /\ commands # << >>
      /\ commands' = Tail(commands)
      /\ UNCHANGED << task, hand, box, hold, pending >>
  BY DEF DrainCommand, TypeInv, TypeOK, TaskTypeOK, actorVars
<1>2. In(commands, tag) => In(commands', tag)
  BY <1>1, InFacts DEF About
<1>3. Commanded(tag) => Commanded(tag)'
  BY <1>1, <1>2 DEF Commanded
<1>4. Evaluated(tag) => Evaluated(tag)'
  BY <1>1 DEF Evaluated, InHand
<1> QED BY <1>1, <1>3, <1>4 DEF Followed, InHand

\* What a settled tag leaves to wait for.
LEMMA SettleLeaves ==
    ASSUME NEW kind, NEW tag, Settle(kind, tag)
    PROVE  Unsettled' \subseteq Unsettled \ {tag} /\ Len(sent') = Len(sent)
<1>1. CASE SettleTag(kind, tag)
  BY <1>1 DEF SettleTag, Unsettled, Open
<1>2. CASE Open /\ tag \notin Unsettled /\ CloseChannel
  BY <1>2 DEF CloseChannel, Unsettled, Open
<1>3. CASE ~ Open /\ UNCHANGED brokerVars
  BY <1>3 DEF brokerVars, Unsettled, Open
<1> QED BY <1>1, <1>2, <1>3 DEF Settle

\* A state that follows every tag still awaited.
LEMMA StillFollowed ==
    ASSUME AllFollowed, main.at = "serving", Awaited' \subseteq Awaited,
           \A tag : Followed(tag) => Followed(tag)' \/ tag \notin Awaited'
    PROVE  AllFollowed'
BY DEF AllFollowed

\* What is waited for does not depend on the actors.
LEMMA AwaitedStays ==
    ASSUME UNCHANGED << brokerVars, taken >>
    PROVE  Awaited' = Awaited /\ (TakenInv => TakenInv')
BY DEF Awaited, Unsettled, Open, TakenInv, brokerVars

\* A tag is followed by nothing but the task, the queues and `pending'.
LEMMA FollowedStays ==
    ASSUME NEW tag, Followed(tag), UNCHANGED << actorVars, commands, pending >>,
           UNCHANGED << task, hand >> \/ task \notin {"store", "evaluate"}
    PROVE  Followed(tag)'
<1>1. Commanded(tag) => Commanded(tag)'
  BY DEF Commanded, actorVars
<1>2. Evaluated(tag) => Evaluated(tag)'
  BY DEF Evaluated, InHand, actorVars
<1> QED BY <1>1, <1>2 DEF Followed, InHand, actorVars

\* A step of the AMQP task: what it takes it has in hand, what it settles is
\* no longer waited for, and with a channel go all its tags.
LEMMA TaskFollows ==
    ASSUME TypeInv, TrackInv, TaskStep, main.at = "serving"
    PROVE  AllFollowed' /\ TakenInv'
<1>0. /\ BrokerTypeOK /\ TaskTypeOK /\ Len(sent) \in Nat /\ taken \in Nat
      /\ AllFollowed /\ TakenInv /\ NoStops
  BY DEF TypeInv, TypeOK, BrokerTypeOK, TaskTypeOK, TrackInv
<1>1. taken' = 0 => Awaited' = {}
  BY DEF Awaited
<1>2. CASE Connect \/ StreamError \/ TaskDies
  <2>1. taken' = 0 /\ sent' = << >>
    BY <1>2 DEF Connect, StreamError, TaskDies, OpenChannel, DropChannel
  <2> QED BY <1>1, <2>1 DEF AllFollowed, TakenInv
<1>3. CASE ConnectFails \/ Wake
  <2>1. /\ UNCHANGED << brokerVars, taken, actorVars, commands, pending >>
        /\ task \notin {"store", "evaluate"}
    BY <1>3 DEF ConnectFails, Wake
  <2>2. Awaited' = Awaited /\ TakenInv'
    BY <1>0, <2>1, AwaitedStays
  <2>3. \A tag : Followed(tag) => Followed(tag)'
    BY <2>1, FollowedStays
  <2> QED BY <1>0, <2>2, <2>3, StillFollowed
<1>4. CASE TakeDelivery
  <2>1. /\ UNCHANGED << brokerVars, actorVars, commands, pending >>
        /\ taken' = taken + 1 /\ taken < Len(sent) /\ task = "select"
        /\ task' = "store" /\ hand'.tag = taken + 1
    BY <1>4 DEF TakeDelivery
  <2>2. TakenInv'
    BY <1>0, <2>1 DEF TakenInv, brokerVars
  <2>3. Awaited' \subseteq Awaited \cup {taken + 1}
    BY <1>0, <2>1 DEF Awaited, Unsettled, Open, brokerVars
  <2>4. \A tag : tag = taken + 1 => Followed(tag)'
    BY <1>0, <2>1 DEF Followed, InHand
  <2>5. \A tag : Followed(tag) => Followed(tag)'
    BY <2>1, FollowedStays
  <2> QED BY <1>0, <2>2, <2>3, <2>4, <2>5 DEF AllFollowed
<1>5. CASE RejectDelivery
  <2>1. /\ UNCHANGED << actorVars, task, hand, commands, pending >>
        /\ taken' = taken + 1 /\ taken < Len(sent)
        /\ Settle("Nack", taken + 1)
    BY <1>5 DEF RejectDelivery
  <2>2. Unsettled' \subseteq Unsettled \ {taken + 1} /\ Len(sent') = Len(sent)
    BY <2>1, SettleLeaves
  <2>3. TakenInv' /\ Awaited' \subseteq Awaited
    BY <1>0, <2>1, <2>2 DEF TakenInv, Awaited
  <2>4. \A tag : Followed(tag) => Followed(tag)'
    BY <2>1, FollowedStays
  <2> QED BY <1>0, <2>3, <2>4, StillFollowed
<1>6. CASE TellStore \/ TellEvaluate
  <2>1. UNCHANGED << brokerVars, taken >>
    BY <1>6 DEF TellStore, TellEvaluate
  <2>2. Awaited' = Awaited /\ TakenInv'
    BY <1>0, <2>1, AwaitedStays
  <2>3. \A tag : Followed(tag) => Followed(tag)'
    BY <1>6, TellFollows
  <2> QED BY <1>0, <2>2, <2>3, StillFollowed
<1>7. CASE HandlerFails
  BY <1>0, <1>7 DEF HandlerFails, TellErr, NoStops, Actors
<1>8. CASE DrainCommand
  <2> DEFINE cmd == Head(commands)
  <2>1. Settle(cmd.kind, cmd.job.tag) /\ taken' = taken
    BY <1>8 DEF DrainCommand
  <2>2. Unsettled' \subseteq Unsettled \ {cmd.job.tag} /\ Len(sent') = Len(sent)
    BY <2>1, SettleLeaves
  <2>3. TakenInv' /\ Awaited' \subseteq Awaited /\ cmd.job.tag \notin Awaited'
    BY <1>0, <2>1, <2>2 DEF TakenInv, Awaited
  <2>4. \A tag : Followed(tag) => Followed(tag)' \/ tag = cmd.job.tag
    BY <1>8, DrainFollows
  <2> HIDE DEF cmd
  <2> QED BY <1>0, <2>3, <2>4, StillFollowed
<1> QED BY <1>2, <1>3, <1>4, <1>5, <1>6, <1>7, <1>8
        DEF TaskStep, StreamStep, HandOver

\* No actor stops before ctrl-c.
LEMMA StopsLater ==
    ASSUME TypeInv, NoStops, NEW a \in Actors, StopStep(a)
    PROVE  main.at # "serving"
<1>1. CASE HandleStop(a)
  <2>1. /\ box[a] \in Seq(Mail) /\ box[a] # << >>
        /\ Head(box[a]) \in Mail /\ Head(box[a]).kind = "Stop"
    BY <1>1, MailboxTypes
       DEF HandleStop, TakeStop, Handles, TypeInv, TypeOK, ActorsTypeOK
  <2>2. Head(box[a]) = Stop
    BY <2>1 DEF Mail, JobMail, JobKinds, Signals, Stop
  <2>3. Mailed(Stop)
    BY <2>1, <2>2, TailFacts DEF Mailed
  <2> QED BY <2>3 DEF NoStops
<1>2. CASE OnStop(a)
  BY <1>2 DEF OnStop, FinishStop, NoStops
<1> QED BY <1>1, <1>2 DEF StopStep

\* Every step follows what the channel waits for, and takes nothing that was
\* not pushed.
LEMMA FollowedInductive ==
    ASSUME TypeInv, TrackInv, [Next]_vars
    PROVE  AllFollowed' /\ TakenInv'
<1>0. /\ sent \in Seq(Msgs) /\ Len(sent) \in Nat /\ taken \in Nat
      /\ AllFollowed /\ TakenInv /\ NoStops /\ StartFirst
  BY DEF TypeInv, TypeOK, BrokerTypeOK, TaskTypeOK, TrackInv
<1>1. taken' = 0 => Awaited' = {}
  BY DEF Awaited
<1>2. CASE ConsumerStep \/ EngineStep \/ SinkStep
  <2>1. UNCHANGED << brokerVars, taken, main >>
    BY <1>2
       DEF ConsumerStep, HandleStart, HandleStore, HandleAckMessage, SendCommand,
           EngineStep, HandleEvaluate, TellPersist, SinkStep, InsertStep,
           HandlePersist, InsertSucceeds, InsertFails, TellAck, taskVars
  <2>2. Awaited' = Awaited /\ TakenInv'
    BY <1>0, <2>1, AwaitedStays
  <2>3. ASSUME main.at = "serving", NEW tag, Followed(tag) PROVE Followed(tag)'
    BY <1>0, <1>2, <2>3, ConsumerFollows, EngineSinkFollows
  <2> QED BY <1>0, <2>1, <2>2, <2>3 DEF AllFollowed
<1>3. CASE TaskStep
  <2>1. CASE main.at = "serving"
    BY <1>3, <2>1, TaskFollows
  <2>2. CASE main.at # "serving"
    <3>1. main' = main
      BY <1>3
         DEF TaskStep, StreamStep, HandOver, Connect, ConnectFails, Wake,
             TakeDelivery, RejectDelivery, StreamError, TellStore, TellEvaluate,
             HandlerFails, DrainCommand, TaskDies
    <3>2. AllFollowed'
      BY <2>2, <3>1 DEF AllFollowed
    <3>3. TakenInv'
      <4>1. CASE DrainCommand
        BY <1>0, <4>1, SettleLeaves DEF DrainCommand, TakenInv
      <4>2. CASE RejectDelivery
        BY <1>0, <4>2, SettleLeaves DEF RejectDelivery, TakenInv
      <4>3. CASE HandlerFails
        BY <1>0, <4>3, SettleLeaves DEF HandlerFails, TakenInv
      <4>4. CASE Connect \/ StreamError \/ TaskDies
        <5>1. taken' = 0 /\ sent' = << >>
          BY <4>4 DEF Connect, StreamError, TaskDies, OpenChannel, DropChannel
        <5> QED BY <5>1 DEF TakenInv
      <4> QED BY <1>0, <1>3, <4>1, <4>2, <4>3, <4>4
              DEF TaskStep, StreamStep, HandOver, ConnectFails, Wake,
                  TakeDelivery, TellStore, TellEvaluate, TakenInv, brokerVars
    <3> QED BY <3>2, <3>3
  <2> QED BY <2>1, <2>2
<1>4. CASE CtrlC \/ MainStep
  <2>1. AllFollowed'
    BY <1>4 DEF CtrlC, MainStep, SendStop, Join, Exit, AllFollowed, TypeInv, TypeOK
  <2>2. TakenInv'
    <3>1. CASE Exit
      BY <3>1 DEF Exit, DropChannel, TakenInv
    <3>2. CASE CtrlC \/ SendStop \/ Join
      BY <1>0, <3>2, AwaitedStays DEF CtrlC, SendStop, Join, taskVars
    <3> QED BY <1>4, <3>1, <3>2 DEF MainStep
  <2> QED BY <2>1, <2>2
<1>5. ASSUME NEW a \in Actors, StopStep(a) PROVE AllFollowed' /\ TakenInv'
  <2>1. UNCHANGED << brokerVars, taken, main >>
    BY <1>5 DEF StopStep, HandleStop, OnStop, taskVars
  <2>2. TakenInv'
    BY <1>0, <2>1, AwaitedStays
  <2>3. main.at # "serving"
    BY <1>0, <1>5, StopsLater
  <2> QED BY <2>1, <2>2, <2>3 DEF AllFollowed
<1>6. CASE BrokerPushes
  <2>1. PICK m \in Msgs : Push(m)
    BY <1>6 DEF BrokerPushes
  <2>2. /\ UNCHANGED << actorVars, taskVars, pending, main >>
        /\ link' = link /\ link = "up" /\ settled' = settled
        /\ Len(sent') = Len(sent) + 1
    BY <1>0, <1>6, <2>1 DEF BrokerPushes, Push
  <2>3. Awaited' \subseteq Awaited /\ TakenInv'
    BY <1>0, <2>2 DEF Awaited, Unsettled, Open, TakenInv, taskVars
  <2>4. \A tag : Followed(tag) => Followed(tag)'
    BY <2>2, FollowedStays DEF taskVars
  <2> QED BY <1>0, <2>2, <2>3, <2>4 DEF AllFollowed
<1>7. CASE LoseConnection \/ BrokerCancels
  <2>1. /\ UNCHANGED << actorVars, taskVars, pending, main, sent, settled >>
        /\ Open' => Open
    BY <1>7
       DEF LoseConnection, BrokerCancels, CloseChannel, CancelConsumer, Open
  <2>2. Awaited' \subseteq Awaited /\ TakenInv'
    BY <1>0, <2>1 DEF Awaited, Unsettled, TakenInv, taskVars
  <2>3. \A tag : Followed(tag) => Followed(tag)'
    BY <2>1, FollowedStays DEF taskVars
  <2> QED BY <1>0, <2>1, <2>2, <2>3 DEF AllFollowed
<1>8. CASE CrashRestart
  <2>1. taken' = 0 /\ sent' = << >>
    BY <1>8 DEF CrashRestart, DropChannel
  <2> QED BY <1>1, <2>1 DEF AllFollowed, TakenInv
<1>9. CASE UNCHANGED vars
  <2>1. UNCHANGED << brokerVars, taken, main, actorVars, commands, pending,
                     task, hand >>
    BY <1>9 DEF vars, taskVars
  <2>2. Awaited' = Awaited /\ TakenInv'
    BY <1>0, <2>1, AwaitedStays
  <2>3. \A tag : Followed(tag) => Followed(tag)'
    BY <2>1, FollowedStays
  <2> QED BY <1>0, <2>1, <2>2, <2>3 DEF AllFollowed
<1> QED BY <1>2, <1>3, <1>4, <1>5, <1>6, <1>7, <1>8, <1>9, NextByActor
        DEF ShutdownStep, WorldStep, Idle

\* Until ctrl-c nobody asks an actor to stop.
LEMMA NoStopsInductive ==
    ASSUME TypeInv, TrackInv, [Next]_vars
    PROVE  NoStops'
<1>0. /\ ActorsTypeOK /\ Actors = {"consumer", "engine", "sink"} /\ NoStops
      /\ JobMail \subseteq Mail /\ Stop \notin JobMail \cup {NoMail, Start}
      /\ \A a \in Actors : hold[a] # NoMail \/ hold[a].kind # "None"
                               => hold[a] \in JobMail
      /\ task \in {"store", "evaluate"} => \A kind \in JobKinds :
                                               MailOf(kind, hand) \in JobMail
  <2>1. Stop \notin JobMail \cup {NoMail, Start}
    BY MailTypes DEF Stop, NoMail, Start, JobKinds
  <2> QED BY <2>1, MailTypes
          DEF TypeInv, TypeOK, ActorsTypeOK, Actors, TrackInv, HandInv
<1>1. ASSUME UNCHANGED << actor, main >>,
             \/ \E a \in Actors : box[a] # << >> /\ box' = Popped(a)
             \/ \E a \in Actors, mail \in JobMail : box' = Posted(a, mail)
             \/ UNCHANGED box
      PROVE  NoStops'
  <2>1. Mailed(Stop)' => Mailed(Stop)
    BY <1>0, <1>1, PostedMail, PoppedMail, UnchangedMail
  <2> QED BY <1>0, <1>1, <2>1 DEF NoStops
<1>2. CASE ConsumerStep
  BY <1>0, <1>1, <1>2
     DEF ConsumerStep, HandleStart, HandleStore, HandleAckMessage, SendCommand,
         Handles
<1>3. CASE EngineStep
  BY <1>0, <1>1, <1>3 DEF EngineStep, HandleEvaluate, TellPersist, Handles
<1>4. CASE SinkStep
  BY <1>0, <1>1, <1>4
     DEF SinkStep, InsertStep, HandlePersist, InsertSucceeds, InsertFails,
         TellAck, Handles, NoMail
<1>5. CASE TaskStep
  <2>1. CASE TellStore
    BY <1>0, <1>1, <2>1 DEF TellStore, JobKinds
  <2>2. CASE TellEvaluate
    BY <1>0, <1>1, <2>2 DEF TellEvaluate, JobKinds
  <2>3. CASE UNCHANGED << actorVars, main >>
    BY <1>0, <1>1, <2>3 DEF actorVars
  <2> QED BY <1>5, <2>1, <2>2, <2>3
          DEF TaskStep, StreamStep, HandOver, Connect, ConnectFails, Wake,
              TakeDelivery, RejectDelivery, StreamError, HandlerFails,
              DrainCommand, TaskDies
<1>6. CASE CtrlC \/ MainStep
  BY <1>6 DEF CtrlC, MainStep, SendStop, Join, Exit, NoStops, TypeInv, TypeOK
<1>7. ASSUME NEW a \in Actors, StopStep(a) PROVE NoStops'
  <2>1. main' = main
    BY <1>7 DEF StopStep, HandleStop, OnStop
  <2>2. main.at # "serving"
    BY <1>7, StopsLater DEF TrackInv
  <2> QED BY <2>1, <2>2 DEF NoStops
<1>8. CASE CrashRestart
  <2>1. /\ \A a \in Actors : actor'[a] = "running"
        /\ \A a \in Actors : box'[a] = << >> \/ box'[a] = << Start >>
    BY <1>8 DEF CrashRestart
  <2>2. ~ Mailed(Stop)'
    BY <1>0, <2>1 DEF Mailed
  <2> QED BY <2>1, <2>2 DEF NoStops
<1>9. CASE QuietWorld \/ UNCHANGED vars
  BY <1>1, <1>9
     DEF QuietWorld, BrokerPushes, LoseConnection, BrokerCancels, vars, actorVars
<1> QED BY <1>2, <1>3, <1>4, <1>5, <1>6, <1>7, <1>8, <1>9, NextByActor
        DEF ShutdownStep, WorldStep, QuietWorld, Idle

\* Nor does a second StartConsuming come, or one that finds the task at work.
LEMMA StartInductive ==
    ASSUME TypeInv, TrackInv, [Next]_vars
    PROVE  StartFirst'
<1>0. /\ ActorsTypeOK /\ Actors = {"consumer", "engine", "sink"} /\ StartFirst
      /\ JobMail \subseteq Mail /\ Stop \in Mail /\ Stop.kind # "Start"
      /\ \A mail \in JobMail : mail.kind # "Start"
      /\ \A a \in Actors : hold[a] # NoMail \/ hold[a].kind # "None"
                               => hold[a] \in JobMail
      /\ task \in {"store", "evaluate"} => \A kind \in JobKinds :
                                               MailOf(kind, hand) \in JobMail
      /\ main.who \in Actors
  BY MailTypes
     DEF TypeInv, TypeOK, ActorsTypeOK, Actors, TrackInv, HandInv, Stop, JobKinds
<1> DEFINE queue == box["consumer"]
           Idles == task' = task \/ task' = "aborted" \/ task \notin {"none", "aborted"}
<1>1. queue \in Seq(Mail)
  BY <1>0 DEF ActorsTypeOK
<1>2. ASSUME Idles, box'["consumer"] \in {queue, << >>} PROVE StartFirst'
  BY <1>0, <1>2, Len(<< >>) = 0 DEF StartFirst
<1>3. ASSUME Idles, NEW mail \in Mail, mail.kind # "Start",
             box'["consumer"] = Append(queue, mail)
      PROVE  StartFirst'
  BY <1>0, <1>1, <1>3, AppendFacts DEF StartFirst
<1>4. ASSUME queue # << >>, box'["consumer"] = Tail(queue) PROVE StartFirst'
  <2> SUFFICES ASSUME NEW i \in 1 .. Len(Tail(queue)),
                      Tail(queue)[i].kind = "Start"
               PROVE  FALSE
    BY <1>4 DEF StartFirst
  <2>1. i + 1 \in 1 .. Len(queue) /\ queue[i + 1].kind = "Start"
    BY <1>1, <1>4, TailFacts
  <2>2. i + 1 = 1
    BY <1>0, <2>1 DEF StartFirst
  <2> QED BY <2>2
<1>5. \A a \in Actors :
          /\ box' = Popped(a) => box'["consumer"] = IF a = "consumer"
                                                    THEN Tail(queue) ELSE queue
          /\ \A mail : box' = Posted(a, mail) =>
                 box'["consumer"] = IF a = "consumer"
                                    THEN Append(queue, mail) ELSE queue
  BY <1>0 DEF Popped, Posted, ActorsTypeOK
<1> HIDE DEF queue
<1>6. CASE ConsumerStep
  <2>1. CASE SendCommand
    BY <1>2, <2>1 DEF SendCommand, queue
  <2> QED BY <1>0, <1>4, <1>5, <1>6, <2>1
          DEF ConsumerStep, HandleStart, HandleStore, HandleAckMessage, Handles,
              queue
<1>7. CASE EngineStep
  BY <1>0, <1>2, <1>5, <1>7 DEF EngineStep, HandleEvaluate, TellPersist, taskVars
<1>8. CASE SinkStep
  <2>1. CASE HandlePersist \/ InsertStep
    BY <1>0, <1>2, <1>5, <2>1
       DEF HandlePersist, InsertStep, InsertSucceeds, InsertFails, taskVars, queue
  <2>2. CASE TellAck
    BY <1>0, <1>2, <1>3, <1>5, <2>2 DEF TellAck, NoMail, taskVars, queue
  <2> QED BY <1>8, <2>1, <2>2 DEF SinkStep
<1>9. CASE TaskStep
  <2>1. CASE TellStore
    <3>1. MailOf("Store", hand) \in JobMail
      BY <1>0, <2>1 DEF TellStore, JobKinds
    <3> QED BY <1>0, <1>3, <1>5, <2>1, <3>1 DEF TellStore
  <2>2. CASE TellEvaluate
    BY <1>0, <1>2, <1>5, <2>2 DEF TellEvaluate
  <2>3. CASE UNCHANGED actorVars /\ Idles
    BY <1>2, <2>3 DEF actorVars, queue
  <2> QED BY <1>9, <2>1, <2>2, <2>3
          DEF TaskStep, StreamStep, HandOver, Connect, ConnectFails, Wake,
              TakeDelivery, RejectDelivery, StreamError, HandlerFails,
              DrainCommand, TaskDies
<1>10. CASE SendStop
  BY <1>0, <1>2, <1>3, <1>5, <1>10 DEF SendStop, taskVars
<1>11. CASE CtrlC \/ Join \/ Exit
  BY <1>2, <1>11 DEF CtrlC, Join, Exit, taskVars, actorVars, queue
<1>12. ASSUME NEW a \in Actors, HandleStop(a) PROVE StartFirst'
  BY <1>0, <1>2, <1>4, <1>5, <1>12
     DEF HandleStop, TakeStop, Handles, taskVars, queue
<1>13. ASSUME NEW a \in Actors, OnStop(a) PROVE StartFirst'
  <2>1. box'["consumer"] \in {queue, << >>} /\ task' = task
    BY <1>0, <1>13 DEF OnStop, FinishStop, ActorsTypeOK, queue
  <2> QED BY <1>2, <2>1
<1>14. CASE CrashRestart
  <2>1. box'["consumer"] = << Start >> /\ task' = "none"
    BY <1>0, <1>14 DEF CrashRestart
  <2> QED BY <2>1 DEF StartFirst
<1>15. CASE QuietWorld \/ UNCHANGED vars
  BY <1>2, <1>15
     DEF QuietWorld, BrokerPushes, LoseConnection, BrokerCancels, vars,
         actorVars, taskVars, queue
<1> QED BY <1>6, <1>7, <1>8, <1>9, <1>10, <1>11, <1>12, <1>13, <1>14, <1>15,
           NextByActor
        DEF ShutdownStep, MainStep, StopStep, WorldStep, QuietWorld, Idle

-----------------------------------------------------------------------------
(* The result.                                                             *)

\* Initially nothing is waited for, and StartConsuming is the only message.
LEMMA TrackInit == Init => TrackInv
<1> SUFFICES ASSUME Init PROVE TrackInv
  OBVIOUS
<1>1. /\ sent = << >> /\ taken = 0 /\ task = "none"
      /\ \A a \in Actors : actor[a] = "running"
      /\ \A a \in Actors : box[a] = << >> \/ box[a] = << Start >>
      /\ "consumer" \in Actors
  BY DEF Init, BrokerInit, ActorsInit, Actors
<1>2. AllFollowed /\ TakenInv
  BY <1>1 DEF AllFollowed, Awaited, TakenInv
<1>3. ~ Mailed(Stop)
  BY <1>1 DEF Mailed, Start, Stop
<1>4. StartFirst
  BY <1>1 DEF StartFirst
<1> QED BY <1>1, <1>2, <1>3, <1>4 DEF TrackInv, NoStops

\* Every delivery the open channel waits for is followed, at any time.
THEOREM TrackInvariant == Spec => []TrackInv
<1>1. TypeInv /\ TrackInv /\ [Next]_vars => TrackInv'
  BY FollowedInductive, NoStopsInductive, StartInductive DEF TrackInv
<1> QED BY TrackInit, TypeInvariant, <1>1, PTL DEF Spec

\* Whatever is lost, retried, cancelled or crashed, and however often the task
\* reconnects: until ctrl-c, a delivery that was taken and that the open
\* channel waits for is in the task's hand or has a message on its way that
\* ends in its settlement.
THEOREM NothingForgotten == Spec => []NoDeliveryForgotten
<1>1. ASSUME TypeInv, TrackInv PROVE NoDeliveryForgotten
  <2> SUFFICES ASSUME main.at = "serving", NEW tag \in Awaited, hand.tag # tag
               PROVE  \E mail \in InFlight : About(mail, tag)
    BY DEF NoDeliveryForgotten, Awaited, About, OnItsWay
  <2>1. Followed(tag)
    BY <1>1 DEF TrackInv, AllFollowed
  <2>2. \A mail : Held(mail) \/ Mailed(mail) \/ Queued(mail) => mail \in InFlight
    BY InFlightIs
  <2>3. /\ \A a \in Actors : In(box[a], tag) => \E mail : Mailed(mail) /\ About(mail, tag)
        /\ \A a \in Actors : About(hold[a], tag) => \E mail : Held(mail) /\ About(mail, tag)
        /\ In(commands, tag) => \E mail : Queued(mail) /\ About(mail, tag)
    BY DEF In, Mailed, Held, Queued
  <2>4. Answered(pending, box["consumer"], tag) => In(box["consumer"], tag)
    BY DEF Answered, Answers, In, About, OnItsWay, JobKinds
  <2> QED BY <2>1, <2>2, <2>3, <2>4
          DEF Followed, Evaluated, Commanded, InHand, Actors
<1> QED BY <1>1, TypeInvariant, TrackInvariant, PTL

\* Over any number of connections, and however full the mailboxes are: the AMQP
\* task dead-letters a delivery that parses, for want of an actor to hand it
\* to, only after ctrl-c.
THEOREM RefusedInShutdown == Spec => RefusesOnlyWhenStopping
<1>1. ASSUME TypeInv, TrackInv, [Next]_vars
      PROVE  dlq' # dlq /\ hand' # hand => main.at # "serving"
  <2>1. ConsumerStep \/ EngineStep \/ SinkStep \/ ShutdownStep \/ WorldStep
            \/ Idle \/ UNCHANGED vars => UNCHANGED dlq
    BY DEF ConsumerStep, HandleStart, HandleStore, HandleAckMessage, SendCommand,
           EngineStep, HandleEvaluate, TellPersist, SinkStep, InsertStep,
           HandlePersist, InsertSucceeds, InsertFails, TellAck, ShutdownStep,
           CtrlC, MainStep, SendStop, Join, Exit, StopStep, HandleStop, OnStop,
           WorldStep, BrokerPushes, Push, LoseConnection, CloseChannel,
           BrokerCancels, CancelConsumer, CrashRestart, DropChannel, Idle, vars,
           brokerVars
  <2>2. TaskStep /\ ~ HandlerFails => UNCHANGED dlq \/ UNCHANGED hand
    BY DEF TaskStep, Connect, OpenChannel, ConnectFails, Wake, StreamStep,
           TakeDelivery, RejectDelivery, StreamError, HandOver, TellStore,
           TellEvaluate, DrainCommand, TaskDies, DropChannel, brokerVars
  <2>3. HandlerFails => main.at # "serving"
    BY <1>1 DEF HandlerFails, TellErr, TrackInv, NoStops, Actors
  <2> QED BY <1>1, <2>1, <2>2, <2>3, NextByActor
<1> QED BY <1>1, TypeInvariant, TrackInvariant, PTL
         DEF Spec, RefusesOnlyWhenStopping
=============================================================================
