----------------------------- MODULE TagProofs ------------------------------
(***************************************************************************)
(* Delivery tags while the process has opened one connection.  No tag is   *)
(* given out twice then, so the tag of a delivery is on the move in one    *)
(* place only: with the engine, the sink or the consumer, or in a command. *)
(*                                                                         *)
(* Whoever takes the tag out of `pending' therefore takes its own out, and *)
(* an AckMessage always finds the tag there; whoever settles the tag       *)
(* settles it for the first time, so no command closes the channel; and    *)
(* the commands that keep the consumer waiting for the AMQP task are of as *)
(* many deliveries not settled yet, so a deadlock needs a backlog of them. *)
(***************************************************************************)
EXTENDS TrackingProofs, FiniteSetTheorems

\* Where a tag can be: the i-th message of a mailbox, in a handler's hold (at
\* place 0), or the i-th command (which is the consumer's).
Slots == {"box", "hold", "command"}

MailAt(s, a, i) ==
    IF s = "box" THEN box[a][i] ELSE IF s = "hold" THEN hold[a] ELSE commands[i]

Carries(s, a, i) ==
    /\ \/ s = "box" /\ i \in 1 .. Len(box[a])
       \/ s = "hold" /\ i = 0
       \/ s = "command" /\ a = "consumer" /\ i \in 1 .. Len(commands)
    /\ OnItsWay(MailAt(s, a, i))

TagAt(s, a, i) == MailAt(s, a, i).job.tag

\* Something on its way carries the tag.
Tagged(tag) ==
    \E s \in Slots : \E a \in Actors : \E i \in Nat :
        Carries(s, a, i) /\ TagAt(s, a, i) = tag

\* No tag is in two places.
Unique ==
    \A s, u \in Slots : \A a, b \in Actors : \A i, j \in Nat :
        Carries(s, a, i) /\ Carries(u, b, j) /\ TagAt(s, a, i) = TagAt(u, b, j)
        => s = u /\ a = b /\ i = j

\* The channel is open only while the task serves it.
Serving == task \in {"select", "store", "evaluate"}

OpenServed == Open => Serving

\* The tags on their way, and those that are settled, are of deliveries the
\* task has taken.
TagsTaken ==
    /\ Serving => \A tag \in Nat : Tagged(tag) => tag <= taken
    /\ Open => \A tag \in settled : tag <= taken

\* In hand is the delivery taken last, and only in hand.
HandFresh ==
    task \in {"store", "evaluate"} =>
        /\ hand.tag = taken
        /\ \A tag \in Nat : Tagged(tag) => tag < taken
        /\ Open => taken \in Unsettled

\* The open channel waits for every tag that is on its way.
TagsAwaited == Open => \A tag \in Nat : Tagged(tag) => tag \in Unsettled

\* Every AckMessage in the mailbox finds its tag pending.
AllKnown(tags, queue) ==
    \A i \in 1 .. Len(queue) :
        queue[i].kind \in {"Ok", "Err"} => Known(tags, queue, i, queue[i].job.tag)

\* So will those that are still to come, as long as the consumer is there.
TagsKnown ==
    IF actor["consumer"] = "stopped" THEN box["consumer"] = << >>
    ELSE /\ AllKnown(pending, box["consumer"])
         /\ \A tag \in Nat :
                Evaluated(tag) => KnownAtEnd(pending, box["consumer"], tag)

TagInv ==
    /\ Unique /\ OpenServed /\ TagsTaken /\ HandFresh /\ TagsAwaited /\ TagsKnown

\* The queues and handlers have their types.
Queues == ActorsTypeOK /\ commands \in Seq(JobMail)

\* No tag is in a new place, unless it comes from another one.
TagsKept == Unique' /\ \A tag : Tagged(tag)' => Tagged(tag)

-----------------------------------------------------------------------------
(* Moving a tag.                                                           *)

\* A place holds after the step what it held before.
Stays(s, a, i) ==
    Carries(s, a, i)' => Carries(s, a, i) /\ TagAt(s, a, i)' = TagAt(s, a, i)

\* Nothing moves, some of it may be dropped.
LEMMA Fewer ==
    ASSUME Unique, \A s \in Slots, a \in Actors, i \in Nat : Stays(s, a, i)
    PROVE  TagsKept
BY DEF Unique, Stays, TagsKept, Tagged

\* One message moves from one place to another.
LEMMA Moved ==
    ASSUME Unique, NEW s \in Slots, NEW a \in Actors, NEW i \in Nat,
           NEW old \in Slots, NEW b \in Actors, NEW k \in Nat,
           Carries(s, a, i)' =>
               Carries(old, b, k) /\ TagAt(s, a, i)' = TagAt(old, b, k),
           \A u \in Slots, c \in Actors, j \in Nat :
               (u = s /\ c = a /\ j = i) \/ Stays(u, c, j),
           ~ Carries(old, b, k)' \/ (old = s /\ b = a /\ k = i)
    PROVE  TagsKept
<1>1. Unique'
  <2> SUFFICES ASSUME NEW u \in Slots, NEW v \in Slots,
                      NEW c \in Actors, NEW d \in Actors,
                      NEW j \in Nat, NEW l \in Nat,
                      Carries(u, c, j)', Carries(v, d, l)',
                      TagAt(u, c, j)' = TagAt(v, d, l)'
               PROVE  u = v /\ c = d /\ j = l
    BY DEF Unique
  <2> QED BY DEF Unique, Stays
<1>2. \A tag : Tagged(tag)' => Tagged(tag)
  BY DEF Tagged, Stays
<1> QED BY <1>1, <1>2 DEF TagsKept

\* A tag that was nowhere is put into a place.
LEMMA Added ==
    ASSUME Unique, NEW s \in Slots, NEW a \in Actors, NEW i \in Nat,
           NEW tag, ~ Tagged(tag), TagAt(s, a, i)' = tag,
           \A u \in Slots, c \in Actors, j \in Nat :
               (u = s /\ c = a /\ j = i) \/ Stays(u, c, j)
    PROVE  Unique' /\ \A t : Tagged(t)' => Tagged(t) \/ t = tag
<1>1. Unique'
  <2> SUFFICES ASSUME NEW u \in Slots, NEW v \in Slots,
                      NEW c \in Actors, NEW d \in Actors,
                      NEW j \in Nat, NEW l \in Nat,
                      Carries(u, c, j)', Carries(v, d, l)',
                      TagAt(u, c, j)' = TagAt(v, d, l)'
               PROVE  u = v /\ c = d /\ j = l
    BY DEF Unique
  <2> QED BY DEF Unique, Stays, Tagged
<1>2. \A t : Tagged(t)' => Tagged(t) \/ t = tag
  BY DEF Tagged, Stays
<1> QED BY <1>1, <1>2

\* What is in the mailboxes stays in its place when a message comes.
LEMMA PostedPlaces ==
    ASSUME Queues, UNCHANGED commands, NEW b \in Actors, NEW mail \in Mail,
           box' = Posted(b, mail), NEW end, end = Len(box[b]) + 1
    PROVE  /\ end \in Nat
           /\ TagAt("box", b, end)' = mail.job.tag
           /\ Carries("box", b, end)' => OnItsWay(mail)
           /\ \A s \in Slots, a \in Actors, i \in Nat :
                  \/ s = "box" /\ a = b /\ i = end
                  \/ s = "hold"
                  \/ Stays(s, a, i)
<1>1. /\ box[b] \in Seq(Mail) /\ box'[b] = Append(box[b], mail)
      /\ \A a \in Actors \ {b} : box'[a] = box[a]
  BY DEF Queues, ActorsTypeOK, Posted
<1>2. /\ Len(box'[b]) = Len(box[b]) + 1 /\ Len(box[b]) \in Nat
      /\ box'[b][Len(box[b]) + 1] = mail
      /\ \A i \in 1 .. Len(box[b]) : box'[b][i] = box[b][i]
  BY <1>1, AppendFacts
<1>3. \A i \in Nat : i = Len(box[b]) + 1 \/ Stays("box", b, i)
  <2> SUFFICES ASSUME NEW i \in Nat, i # Len(box[b]) + 1, Carries("box", b, i)'
               PROVE  /\ Carries("box", b, i)
                      /\ TagAt("box", b, i)' = TagAt("box", b, i)
    BY DEF Stays
  <2>1. i \in 1 .. Len(box[b]) /\ box'[b][i] = box[b][i] /\ OnItsWay(box'[b][i])
    BY <1>2 DEF Carries, MailAt
  <2> QED BY <2>1 DEF Carries, TagAt, MailAt
<1>4. \A a \in Actors \ {b}, i \in Nat : Stays("box", a, i)
  BY <1>1 DEF Stays, Carries, TagAt, MailAt
<1>5. \A a \in Actors, i \in Nat : Stays("command", a, i)
  BY DEF Stays, Carries, TagAt, MailAt
<1>6. /\ TagAt("box", b, end)' = mail.job.tag
      /\ Carries("box", b, end)' => OnItsWay(mail)
  BY <1>2 DEF TagAt, MailAt, Carries
<1> QED BY <1>2, <1>3, <1>4, <1>5, <1>6 DEF Slots

\* Handlers whose hold does not change, or that let go of it.
LEMMA HeldPlaces ==
    ASSUME NEW a \in Actors, hold'[a] = hold[a] \/ hold'[a] = NoMail
    PROVE  /\ \A i \in Nat : Stays("hold", a, i)
           /\ hold'[a] = NoMail => ~ Carries("hold", a, 0)'
<1>1. ~ OnItsWay(NoMail)
  BY DEF OnItsWay, NoMail, JobKinds
<1> QED BY <1>1 DEF Stays, Carries, TagAt, MailAt

\* Letting go of a message, from a handler or with a mailbox.
LEMMA Drops ==
    ASSUME Unique, UNCHANGED commands,
           \A a \in Actors : box'[a] \in {box[a], << >>}
                             /\ hold'[a] \in {hold[a], NoMail}
    PROVE  TagsKept
<1>1. \A a \in Actors, i \in Nat : Stays("hold", a, i)
  BY HeldPlaces
<1>2. \A a \in Actors, i \in Nat : Stays("command", a, i)
  BY DEF Stays, Carries, TagAt, MailAt
<1>3. \A a \in Actors, i \in Nat : Stays("box", a, i)
  BY Len(<< >>) = 0 DEF Stays, Carries, TagAt, MailAt
<1> QED BY <1>1, <1>2, <1>3, Fewer DEF Slots

\* A message that no settlement follows from is posted.
LEMMA PostsOther ==
    ASSUME Queues, Unique, UNCHANGED << hold, commands >>,
           NEW b \in Actors, NEW mail \in Mail, ~ OnItsWay(mail),
           box' = Posted(b, mail)
    PROVE  TagsKept
<1>1. \A a \in Actors, i \in Nat : Stays("hold", a, i)
  BY HeldPlaces
<1>2. PICK end : end = Len(box[b]) + 1
  OBVIOUS
<1>3. Stays("box", b, end)
  BY <1>2, PostedPlaces DEF Stays
<1> QED BY <1>1, <1>2, <1>3, PostedPlaces, Fewer

\* A handler posts what it holds.
LEMMA Posts ==
    ASSUME Queues, Unique, UNCHANGED commands,
           NEW a \in Actors, NEW b \in Actors, hold[a] \in JobMail,
           hold' = [hold EXCEPT ![a] = NoMail], box' = Posted(b, hold[a])
    PROVE  TagsKept
<1>1. hold[a] \in Mail /\ \A c \in Actors : hold'[c] \in {hold[c], NoMail}
      /\ hold'[a] = NoMail
  BY MailTypes DEF Queues, ActorsTypeOK
<1>2. \A c \in Actors, i \in Nat : Stays("hold", c, i)
  BY <1>1, HeldPlaces
<1>3. ~ Carries("hold", a, 0)'
  BY <1>1, HeldPlaces
<1>4. PICK end : end = Len(box[b]) + 1
  OBVIOUS
<1>5. Carries("box", b, end)' =>
          Carries("hold", a, 0) /\ TagAt("box", b, end)' = TagAt("hold", a, 0)
  BY <1>1, <1>4, PostedPlaces DEF Carries, TagAt, MailAt
<1>6. /\ end \in Nat
      /\ \A s \in Slots, c \in Actors, i \in Nat :
             (s = "box" /\ c = b /\ i = end) \/ Stays(s, c, i)
  BY <1>1, <1>2, <1>4, PostedPlaces
<1>7. "box" \in Slots /\ "hold" \in Slots /\ 0 \in Nat
  BY DEF Slots
<1> QED BY <1>3, <1>5, <1>6, <1>7, Moved, Zenon

\* A handler turns what it holds into an answer about the same delivery.
LEMMA Turns ==
    ASSUME Queues, Unique, UNCHANGED << box, commands >>,
           NEW a \in Actors, NEW new, OnItsWay(hold[a]),
           new.job.tag = hold[a].job.tag, hold' = [hold EXCEPT ![a] = new]
    PROVE  TagsKept
<1>1. hold'[a] = new /\ \A c \in Actors \ {a} : hold'[c] = hold[c]
  BY DEF Queues, ActorsTypeOK
<1>2. \A s \in Slots, c \in Actors, i \in Nat : Stays(s, c, i)
  BY <1>1 DEF Stays, Carries, TagAt, MailAt, Slots
<1> QED BY <1>2, Fewer

\* An actor takes a message out of its mailbox, and holds nothing or something
\* about the same delivery.
LEMMA Takes ==
    ASSUME Queues, Unique, UNCHANGED commands, NEW b \in Actors,
           box[b] # << >>, box' = Popped(b), hold[b] = NoMail,
           \A a \in Actors \ {b} : hold'[a] = hold[a],
           \/ hold'[b] = NoMail
           \/ /\ OnItsWay(Head(box[b]))
              /\ hold'[b].job.tag = Head(box[b]).job.tag
    PROVE  TagsKept
<1>1. /\ box[b] \in Seq(Mail) /\ box'[b] = Tail(box[b])
      /\ \A a \in Actors \ {b} : box'[a] = box[a]
  BY DEF Queues, ActorsTypeOK, Popped
<1>2. ~ OnItsWay(NoMail)
  BY DEF OnItsWay, NoMail, JobKinds
<1>3. \A i \in Nat : Carries("box", b, i)' =>
          /\ i + 1 \in Nat /\ i + 1 # 1 /\ Carries("box", b, i + 1)
          /\ TagAt("box", b, i)' = TagAt("box", b, i + 1)
  BY <1>1, TailFacts DEF Carries, TagAt, MailAt
<1>4. \A i \in Nat : Carries("hold", b, i)' =>
          /\ i = 0 /\ Carries("box", b, 1)
          /\ TagAt("hold", b, i)' = TagAt("box", b, 1)
  BY <1>1, <1>2, TailFacts DEF Carries, TagAt, MailAt
<1>5. \A s \in Slots : \A a \in Actors : \A i \in Nat :
          (s = "command" \/ a # b) /\ Carries(s, a, i)'
          => Carries(s, a, i) /\ TagAt(s, a, i)' = TagAt(s, a, i)
  BY <1>1 DEF Carries, TagAt, MailAt, Slots
<1> USE DEF Slots
<1>6. Unique'
  <2> SUFFICES ASSUME NEW s \in Slots, NEW u \in Slots,
                      NEW a \in Actors, NEW c \in Actors,
                      NEW i \in Nat, NEW j \in Nat,
                      Carries(s, a, i)', Carries(u, c, j)',
                      TagAt(s, a, i)' = TagAt(u, c, j)'
               PROVE  s = u /\ a = c /\ i = j
    BY DEF Unique
  <2> QED BY <1>3, <1>4, <1>5 DEF Unique
<1>7. \A tag : Tagged(tag)' => Tagged(tag)
  BY <1>3, <1>4, <1>5 DEF Tagged
<1> QED BY <1>6, <1>7 DEF TagsKept

\* The consumer sends the command it holds.
LEMMA Sends ==
    ASSUME Queues, Unique, UNCHANGED box, hold["consumer"] \in JobMail,
           commands' = Append(commands, hold["consumer"]),
           hold' = [hold EXCEPT !["consumer"] = NoMail]
    PROVE  TagsKept
<1>0. /\ "consumer" \in Actors /\ commands \in Seq(JobMail)
      /\ "command" \in Slots /\ "hold" \in Slots /\ 0 \in Nat
  BY DEF Queues, Actors, Slots
<1>1. PICK end \in Nat : end = Len(commands) + 1
  BY <1>0
<1>2. /\ Len(commands') = end
      /\ commands'[end] = hold["consumer"]
      /\ \A i \in 1 .. Len(commands) : commands'[i] = commands[i]
  BY <1>0, <1>1, AppendFacts
<1>3. /\ \A a \in Actors : hold'[a] \in {hold[a], NoMail}
      /\ hold'["consumer"] = NoMail
  BY <1>0 DEF Queues, ActorsTypeOK
<1>4. /\ \A a \in Actors, i \in Nat : Stays("hold", a, i)
      /\ ~ Carries("hold", "consumer", 0)'
  BY <1>0, <1>3, HeldPlaces
<1>5. Carries("command", "consumer", end)' =>
          /\ Carries("hold", "consumer", 0)
          /\ TagAt("command", "consumer", end)' = TagAt("hold", "consumer", 0)
  BY <1>2 DEF Carries, TagAt, MailAt
<1>6. \A a \in Actors, i \in Nat :
          (a = "consumer" /\ i = end) \/ Stays("command", a, i)
  BY <1>0, <1>1, <1>2 DEF Stays, Carries, TagAt, MailAt
<1>7. \A a \in Actors, i \in Nat : Stays("box", a, i)
  BY DEF Stays, Carries, TagAt, MailAt
<1>8. \A s \in Slots, a \in Actors, i \in Nat :
          (s = "command" /\ a = "consumer" /\ i = end) \/ Stays(s, a, i)
  BY <1>4, <1>6, <1>7 DEF Slots
<1> QED BY <1>0, <1>4, <1>5, <1>8, Moved, Zenon

\* The task carries out a command: its tag is then nowhere.
LEMMA Drains ==
    ASSUME Queues, Unique, CommandsOnly, UNCHANGED << box, hold >>,
           commands # << >>, commands' = Tail(commands),
           NEW tag, tag = Head(commands).job.tag
    PROVE  TagsKept /\ Tagged(tag) /\ ~ Tagged(tag)'
<1>0. /\ "consumer" \in Actors /\ commands \in Seq(JobMail)
      /\ "command" \in Slots /\ 1 \in Nat
  BY DEF Queues, Actors, Slots
<1>1. \A i \in Nat : Carries("command", "consumer", i)' =>
          /\ i + 1 \in Nat /\ i + 1 # 1 /\ Carries("command", "consumer", i + 1)
          /\ TagAt("command", "consumer", i)' = TagAt("command", "consumer", i + 1)
  BY <1>0, TailFacts DEF Carries, TagAt, MailAt
<1>2. \A s \in Slots : \A a \in Actors : \A i \in Nat :
          s # "command" => Stays(s, a, i)
  BY DEF Stays, Carries, TagAt, MailAt, Slots
<1>3. \A a \in Actors, i \in Nat : Carries("command", a, i)' => a = "consumer"
  BY DEF Carries
<1>4. /\ Carries("command", "consumer", 1)
      /\ TagAt("command", "consumer", 1) = tag
  <2>1. Len(commands) \in Nat \ {0} /\ Head(commands) = commands[1]
    BY <1>0, TailFacts
  <2>2. OnItsWay(commands[1])
    BY <2>1 DEF CommandsOnly, IsCommand, OnItsWay, JobKinds
  <2> QED BY <2>1, <2>2 DEF Carries, TagAt, MailAt
<1>5. Unique'
  <2> SUFFICES ASSUME NEW s \in Slots, NEW u \in Slots,
                      NEW a \in Actors, NEW c \in Actors,
                      NEW i \in Nat, NEW j \in Nat,
                      Carries(s, a, i)', Carries(u, c, j)',
                      TagAt(s, a, i)' = TagAt(u, c, j)'
               PROVE  s = u /\ a = c /\ i = j
    BY DEF Unique
  <2> QED BY <1>1, <1>2, <1>3 DEF Unique, Stays
<1>6. \A t : Tagged(t)' => Tagged(t)
  BY <1>0, <1>1, <1>2, <1>3 DEF Tagged, Stays
<1>7. ~ Tagged(tag)'
  <2> SUFFICES ASSUME NEW s \in Slots, NEW a \in Actors, NEW i \in Nat,
                      Carries(s, a, i)', TagAt(s, a, i)' = tag
               PROVE  FALSE
    BY DEF Tagged
  <2> QED BY <1>0, <1>1, <1>2, <1>3, <1>4 DEF Unique, Stays
<1> QED BY <1>0, <1>4, <1>5, <1>6, <1>7 DEF TagsKept, Tagged

-----------------------------------------------------------------------------
(* No step copies a tag.                                                   *)

\* The actors hand a tag on; none of them makes one up or keeps one back.
LEMMA ActorTags ==
    ASSUME TypeInv, Unique, ConsumerStep \/ EngineStep \/ SinkStep
    PROVE  TagsKept
<1>0. /\ Queues /\ ActorsTypeOK /\ Actors = {"consumer", "engine", "sink"}
      /\ \A a \in Actors : hold[a] # NoMail \/ hold[a].kind # "None"
                               => hold[a] \in JobMail
  BY MailTypes
     DEF TypeInv, TypeOK, TaskTypeOK, ActorsTypeOK, Actors, Queues
<1>1. CASE HandleStart \/ HandleStore
  <2>1. /\ box["consumer"] # << >> /\ box' = Popped("consumer")
        /\ hold["consumer"] = NoMail /\ UNCHANGED << hold, commands >>
    BY <1>1 DEF HandleStart, HandleStore, Handles, taskVars
  <2> QED BY <1>0, <2>1, Takes
<1>2. CASE HandleAckMessage
  <2> DEFINE mail == Head(box["consumer"])
             kind == IF mail.kind = "Ok" THEN "Ack" ELSE "Nack"
  <2>1. /\ box["consumer"] # << >> /\ box' = Popped("consumer")
        /\ hold["consumer"] = NoMail /\ UNCHANGED commands
        /\ mail.kind \in {"Ok", "Err"}
        /\ \/ hold' = [hold EXCEPT !["consumer"] = MailOf(kind, mail.job)]
           \/ UNCHANGED hold
    BY <1>2 DEF HandleAckMessage, Handles, taskVars
  <2>2. OnItsWay(mail)
    BY <2>1 DEF OnItsWay, JobKinds
  <2>3. /\ \A a \in Actors \ {"consumer"} : hold'[a] = hold[a]
        /\ hold'["consumer"] \in {NoMail, MailOf(kind, mail.job)}
    BY <1>0, <2>1 DEF ActorsTypeOK
  <2>4. MailOf(kind, mail.job).job.tag = mail.job.tag
    BY DEF MailOf
  <2> HIDE DEF kind
  <2> QED BY <1>0, <2>1, <2>2, <2>3, <2>4, Takes
<1>3. CASE SendCommand
  <2>1. /\ hold["consumer"] \in JobMail /\ UNCHANGED box
        /\ commands' = Append(commands, hold["consumer"])
        /\ hold' = [hold EXCEPT !["consumer"] = NoMail]
    BY <1>0, <1>3 DEF SendCommand
  <2> QED BY <1>0, <2>1, Sends
<1>4. CASE HandleEvaluate
  <2> DEFINE mail == Head(box["engine"])
  <2>1. /\ box["engine"] # << >> /\ box' = Popped("engine")
        /\ hold["engine"] = NoMail /\ UNCHANGED commands
        /\ mail.kind = "Evaluate"
        /\ hold' = [hold EXCEPT !["engine"] = MailOf("Persist", mail.job)]
    BY <1>4 DEF HandleEvaluate, Handles, taskVars
  <2>2. OnItsWay(mail)
    BY <2>1 DEF OnItsWay, JobKinds
  <2>3. /\ \A a \in Actors \ {"engine"} : hold'[a] = hold[a]
        /\ hold'["engine"] = MailOf("Persist", mail.job)
    BY <1>0, <2>1 DEF ActorsTypeOK
  <2>4. MailOf("Persist", mail.job).job.tag = mail.job.tag
    BY DEF MailOf
  <2> QED BY <1>0, <2>1, <2>2, <2>3, <2>4, Takes
<1>5. CASE HandlePersist
  <2> DEFINE mail == Head(box["sink"])
  <2>1. /\ box["sink"] # << >> /\ box' = Popped("sink")
        /\ hold["sink"] = NoMail /\ UNCHANGED commands
        /\ mail.kind = "Persist"
        /\ hold' = [hold EXCEPT !["sink"] = mail]
    BY <1>5 DEF HandlePersist, Handles, taskVars
  <2>2. OnItsWay(mail)
    BY <2>1 DEF OnItsWay, JobKinds
  <2>3. /\ \A a \in Actors \ {"sink"} : hold'[a] = hold[a]
        /\ hold'["sink"] = mail
    BY <1>0, <2>1 DEF ActorsTypeOK
  <2> QED BY <1>0, <2>1, <2>2, <2>3, Takes
<1>6. CASE InsertStep
  <2>1. PICK kind \in {"Ok", "Err"} :
            hold' = [hold EXCEPT !["sink"] = MailOf(kind, hold["sink"].job)]
    BY <1>6 DEF InsertStep, InsertSucceeds, InsertFails
  <2>2. hold["sink"].kind = "Persist" /\ UNCHANGED << box, commands >>
    BY <1>6 DEF InsertStep, InsertSucceeds, InsertFails, taskVars
  <2>3. OnItsWay(hold["sink"])
    BY <2>2 DEF OnItsWay, JobKinds
  <2>4. MailOf(kind, hold["sink"].job).job.tag = hold["sink"].job.tag
    BY DEF MailOf
  <2> QED BY <1>0, <2>1, <2>2, <2>3, <2>4, Turns
<1>7. CASE TellPersist
  <2>1. /\ hold["engine"] \in JobMail /\ UNCHANGED commands
        /\ box' = Posted("sink", hold["engine"])
        /\ hold' = [hold EXCEPT !["engine"] = NoMail]
    BY <1>0, <1>7 DEF TellPersist, taskVars
  <2> QED BY <1>0, <2>1, Posts
<1>8. CASE TellAck
  <2>1. /\ hold["sink"] \in JobMail /\ UNCHANGED commands
        /\ box' = Posted("consumer", hold["sink"]) \/ UNCHANGED box
        /\ hold' = [hold EXCEPT !["sink"] = NoMail]
    BY <1>0, <1>8 DEF TellAck, taskVars, NoMail
  <2>2. CASE box' = Posted("consumer", hold["sink"])
    BY <1>0, <2>1, <2>2, Posts
  <2>3. CASE UNCHANGED box
    <3>1. \A a \in Actors : hold'[a] \in {hold[a], NoMail}
      BY <1>0, <2>1 DEF ActorsTypeOK
    <3> QED BY <2>1, <2>3, <3>1, Drops
  <2> QED BY <2>1, <2>2, <2>3
<1> QED BY <1>1, <1>2, <1>3, <1>4, <1>5, <1>6, <1>7, <1>8
        DEF ConsumerStep, EngineStep, SinkStep

\* Stop signals carry no tag, and what an actor leaves behind is dropped.
LEMMA StopTags ==
    ASSUME TypeInv, Unique, ShutdownStep
    PROVE  TagsKept
<1>0. Queues /\ ActorsTypeOK /\ main.who \in Actors
  BY DEF TypeInv, TypeOK, TaskTypeOK, Queues
<1>1. CASE CtrlC \/ Join \/ Exit
  BY <1>1, Drops DEF CtrlC, Join, Exit, actorVars, taskVars
<1>2. CASE SendStop
  <2>1. Stop \in Mail /\ ~ OnItsWay(Stop)
    BY MailTypes DEF Stop, OnItsWay, JobKinds
  <2> QED BY <1>0, <1>2, <2>1, PostsOther DEF SendStop, taskVars
<1>3. ASSUME NEW a \in Actors, HandleStop(a) PROVE TagsKept
  <2>1. /\ box[a] # << >> /\ box' = Popped(a)
        /\ hold[a] = NoMail /\ UNCHANGED << hold, commands >>
    BY <1>3 DEF HandleStop, TakeStop, Handles, taskVars
  <2> QED BY <1>0, <2>1, Takes
<1>4. ASSUME NEW a \in Actors, OnStop(a) PROVE TagsKept
  <2>1. /\ \A b \in Actors : box'[b] \in {box[b], << >>}
        /\ UNCHANGED << hold, commands >>
    BY <1>0, <1>4 DEF OnStop, FinishStop, ActorsTypeOK
  <2> QED BY <2>1, Drops
<1> QED BY <1>1, <1>2, <1>3, <1>4 DEF ShutdownStep, MainStep, StopStep

\* Outside the pipeline nothing carries a tag; a restart clears everything.
LEMMA WorldTags ==
    ASSUME Unique, WorldStep \/ UNCHANGED vars
    PROVE  TagsKept
<1>1. CASE CrashRestart
  <2>1. /\ commands' = << >>
        /\ \A a \in Actors : hold'[a] = NoMail
        /\ \A a \in Actors : box'[a] = << >> \/ box'[a] = << Start >>
    BY <1>1 DEF CrashRestart
  <2>2. ~ OnItsWay(NoMail) /\ ~ OnItsWay(Start)
    BY DEF OnItsWay, NoMail, Start, JobKinds
  <2>3. \A s \in Slots, a \in Actors, i \in Nat : ~ Carries(s, a, i)'
    BY <2>1, <2>2 DEF Carries, MailAt, Slots
  <2> QED BY <2>3, Fewer DEF Stays
<1>2. CASE QuietWorld \/ UNCHANGED vars
  BY <1>2, Drops
     DEF QuietWorld, BrokerPushes, LoseConnection, BrokerCancels, vars,
         actorVars, taskVars
<1> QED BY <1>1, <1>2 DEF WorldStep, QuietWorld

\* The task gives the consumer the tag in a message that no settlement follows
\* from; its other steps but two leave the mailboxes and the commands alone.
LEMMA TaskTags ==
    ASSUME TypeInv, Unique, TellStore \/ UNCHANGED << actorVars, commands >>
    PROVE  TagsKept
<1>1. CASE TellStore
  <2>1. hand \in Jobs /\ Queues
    BY <1>1 DEF TellStore, TypeInv, HandInv, TypeOK, TaskTypeOK, Queues
  <2>2. MailOf("Store", hand) \in Mail /\ ~ OnItsWay(MailOf("Store", hand))
    BY <2>1, MailTypes DEF MailOf, OnItsWay, JobKinds
  <2> QED BY <1>1, <2>1, <2>2, PostsOther DEF TellStore, Actors
<1>2. CASE UNCHANGED << actorVars, commands >>
  BY <1>2, Drops DEF actorVars
<1> QED BY <1>1, <1>2

\* The engine is given a tag that was nowhere.
LEMMA EvaluateTags ==
    ASSUME TypeInv, Unique, TellEvaluate, ~ Tagged(hand.tag)
    PROVE  Unique' /\ \A t : Tagged(t)' => Tagged(t) \/ t = hand.tag
<1>1. hand \in Jobs /\ Queues
  BY DEF TellEvaluate, TypeInv, HandInv, TypeOK, TaskTypeOK, Queues
<1>2. PICK mail \in Mail : mail = MailOf("Evaluate", hand)
  BY <1>1, MailTypes DEF JobKinds
<1>3. /\ box' = Posted("engine", mail) /\ UNCHANGED << hold, commands >>
      /\ mail.job.tag = hand.tag /\ "engine" \in Actors
  BY <1>2 DEF TellEvaluate, MailOf, Actors
<1>4. PICK end : end = Len(box["engine"]) + 1
  OBVIOUS
<1>5. /\ end \in Nat /\ TagAt("box", "engine", end)' = hand.tag
      /\ \A s \in Slots, a \in Actors, i \in Nat :
             \/ s = "box" /\ a = "engine" /\ i = end
             \/ s = "hold"
             \/ Stays(s, a, i)
  BY <1>1, <1>2, <1>3, <1>4, PostedPlaces
<1>6. \A a \in Actors, i \in Nat : Stays("hold", a, i)
  BY <1>3, HeldPlaces
<1>7. "box" \in Slots
  BY DEF Slots
<1> QED BY <1>3, <1>5, <1>6, <1>7, Added

-----------------------------------------------------------------------------
(* The channel waits for the tags on their way.                            *)

ChannelInv == OpenServed /\ TagsTaken /\ HandFresh /\ TagsAwaited

\* Without a channel, and without a task to serve one, there is nothing to say.
LEMMA NotServed == ~ Open' /\ ~ Serving' => ChannelInv'
BY DEF ChannelInv, OpenServed, TagsTaken, HandFresh, TagsAwaited, Serving

\* Nor when nothing happens to the channel, the task or the tags.
LEMMA ChannelStays ==
    ASSUME ChannelInv, UNCHANGED << brokerVars, hand, taken, task >>,
           \A tag : Tagged(tag)' => Tagged(tag)
    PROVE  ChannelInv'
<1>1. /\ Open' = Open /\ Serving' = Serving /\ Unsettled' = Unsettled
      /\ settled' = settled
  BY DEF Open, Serving, Unsettled, brokerVars
<1>2. HandFresh'
  BY <1>1 DEF ChannelInv, HandFresh
<1> QED BY <1>1, <1>2 DEF ChannelInv, OpenServed, TagsTaken, TagsAwaited

\* What a call to settle a tag does to a channel that is open afterwards.
LEMMA SettleOpen ==
    ASSUME NEW kind, NEW tag, Settle(kind, tag), Open'
    PROVE  /\ Open
           /\ settled' \subseteq settled \cup {tag}
           /\ Unsettled \ {tag} \subseteq Unsettled'
<1>1. CASE SettleTag(kind, tag)
  BY <1>1 DEF SettleTag, Unsettled, Open
<1>2. CASE Open /\ tag \notin Unsettled /\ CloseChannel
  BY <1>2 DEF CloseChannel, Open
<1>3. CASE ~ Open /\ UNCHANGED brokerVars
  BY <1>3 DEF brokerVars, Open
<1> QED BY <1>1, <1>2, <1>3 DEF Settle

\* When the first connection is made, nothing is on its way.
LEMMA NothingTagged ==
    ASSUME TypeInv, MailInv, MaxConn = 1, Connect, NEW tag
    PROVE  ~ Tagged(tag)
<1> SUFFICES ASSUME NEW s \in Slots, NEW a \in Actors, NEW i \in Nat,
                    Carries(s, a, i)
             PROVE  FALSE
  BY DEF Tagged
<1>1. PICK mail : mail = MailAt(s, a, i)
  OBVIOUS
<1>2. Held(mail) \/ Mailed(mail) \/ Queued(mail)
  BY <1>1 DEF Carries, MailAt, Held, Mailed, Queued, Slots
<1>3. mail \in InFlight
  BY <1>2, InFlightIs
<1>4. /\ mail \in JobMail
  <2>1. /\ \A b \in Actors : box[b] \in Seq(Mail)
        /\ \A b \in Actors : hold[b] \in JobMail \cup {NoMail}
        /\ commands \in Seq(JobMail)
    BY DEF TypeInv, TypeOK, ActorsTypeOK, TaskTypeOK
  <2>2. mail \in Mail \cup JobMail \cup {NoMail} /\ mail.kind \in JobKinds
    BY <1>1, <2>1 DEF Carries, MailAt, Slots, OnItsWay
  <2> QED BY <2>2, MailTypes DEF NoMail, JobKinds
<1>5. mail.job.conn <= conn /\ mail.job.conn \in Nat \ {0}
  BY <1>3, <1>4 DEF MailInv, Placed, JobMail, Jobs
<1>6. conn = 0
  BY DEF Connect, TypeInv, TypeOK, TaskTypeOK
<1> QED BY <1>5, <1>6

\* The actors: StartConsuming finds the task without a channel.
LEMMA ActorChannel ==
    ASSUME TypeInv, StartFirst, ChannelInv, TagsKept,
           ConsumerStep \/ EngineStep \/ SinkStep
    PROVE  ChannelInv'
<1>1. CASE HandleStart
  <2>1. /\ box["consumer"] \in Seq(Mail) /\ box["consumer"] # << >>
        /\ Head(box["consumer"]).kind = "Start"
    BY <1>1 DEF HandleStart, Handles, TypeInv, TypeOK, ActorsTypeOK, Actors
  <2>2. task \in {"none", "aborted"}
    BY <2>1, TailFacts DEF StartFirst
  <2>3. ~ Open
    BY <2>2 DEF ChannelInv, OpenServed, Serving
  <2>4. ~ Open' /\ ~ Serving'
    BY <1>1, <2>3 DEF HandleStart, brokerVars, Open, Serving
  <2> QED BY <2>4, NotServed
<1>2. CASE ~ HandleStart
  <2>1. UNCHANGED << brokerVars, hand, taken, task >>
    BY <1>2
       DEF ConsumerStep, HandleStore, HandleAckMessage, SendCommand, EngineStep,
           HandleEvaluate, TellPersist, SinkStep, InsertStep, HandlePersist,
           InsertSucceeds, InsertFails, TellAck, taskVars
  <2> QED BY <2>1, ChannelStays DEF TagsKept
<1> QED BY <1>1, <1>2

\* Shutting down closes the channel at most.
LEMMA StopChannel ==
    ASSUME ChannelInv, TagsKept, ShutdownStep
    PROVE  ChannelInv'
<1>1. CASE Exit
  <2>1. ~ Open' /\ ~ Serving'
    BY <1>1 DEF Exit, DropChannel, Open, Serving
  <2> QED BY <2>1, NotServed
<1>2. CASE ~ Exit
  <2>1. UNCHANGED << brokerVars, hand, taken, task >>
    BY <1>2
       DEF ShutdownStep, CtrlC, MainStep, SendStop, Join, StopStep, HandleStop,
           OnStop, taskVars
  <2> QED BY <2>1, ChannelStays DEF TagsKept
<1> QED BY <1>1, <1>2

\* The broker pushes what is to be waited for; a channel that breaks is not
\* waited on.
LEMMA WorldChannel ==
    ASSUME TypeInv, ChannelInv, TagsKept, WorldStep \/ UNCHANGED vars
    PROVE  ChannelInv'
<1>0. /\ sent \in Seq(Msgs) /\ Len(sent) \in Nat
      /\ \A tag : Tagged(tag)' => Tagged(tag)
  BY DEF TypeInv, TypeOK, BrokerTypeOK, TagsKept
<1>1. ASSUME UNCHANGED << hand, taken, task, settled >>, Open' => Open,
             Open' => Unsettled \subseteq Unsettled'
      PROVE  ChannelInv'
  <2>1. Serving' = Serving
    BY <1>1 DEF Serving
  <2>2. HandFresh'
    BY <1>0, <1>1 DEF ChannelInv, HandFresh
  <2> QED BY <1>0, <1>1, <2>1, <2>2
          DEF ChannelInv, OpenServed, TagsTaken, TagsAwaited
<1>2. CASE BrokerPushes
  <2>1. PICK m \in Msgs : Push(m)
    BY <1>2 DEF BrokerPushes
  <2>2. /\ UNCHANGED << hand, taken, task, settled, link >>
        /\ Len(sent') = Len(sent) + 1
    BY <1>0, <1>2, <2>1 DEF BrokerPushes, Push, taskVars
  <2>3. Open' = Open /\ Unsettled \subseteq Unsettled'
    BY <1>0, <2>2 DEF Open, Unsettled
  <2> QED BY <1>1, <2>2, <2>3
<1>3. CASE LoseConnection \/ BrokerCancels
  <2>1. /\ UNCHANGED << hand, taken, task, settled, sent >>
        /\ Open' => Open
    BY <1>3
       DEF LoseConnection, BrokerCancels, CloseChannel, CancelConsumer, Open,
           taskVars
  <2>2. Open' => Unsettled' = Unsettled
    BY <2>1 DEF Unsettled
  <2> QED BY <1>1, <2>1, <2>2
<1>4. CASE CrashRestart
  <2>1. ~ Open' /\ ~ Serving'
    BY <1>4 DEF CrashRestart, DropChannel, Open, Serving
  <2> QED BY <2>1, NotServed
<1>5. CASE UNCHANGED vars
  BY <1>0, <1>5, ChannelStays DEF vars, taskVars
<1> QED BY <1>2, <1>3, <1>4, <1>5 DEF WorldStep

\* The task: it takes a tag nobody has had, and settles only tags that are then
\* nowhere.
LEMMA TaskChannel ==
    ASSUME TypeInv, MailInv, CommandsOnly, TakenInv, Unique, ChannelInv,
           MaxConn = 1, TaskStep
    PROVE  Unique' /\ ChannelInv'
<1>0. /\ Queues /\ sent \in Seq(Msgs) /\ Len(sent) \in Nat /\ taken \in Nat
      /\ settled \subseteq Nat /\ TakenInv
      /\ OpenServed /\ TagsTaken /\ HandFresh /\ TagsAwaited
      /\ task \in {"store", "evaluate"} => hand.tag = taken
  BY DEF TypeInv, TypeOK, BrokerTypeOK, TaskTypeOK, Queues, ChannelInv, HandFresh
<1>1. TellStore \/ UNCHANGED << actorVars, commands >> =>
          Unique' /\ \A tag : Tagged(tag)' => Tagged(tag)
  BY TaskTags DEF TagsKept
<1>2. CASE Connect
  <2>1. \A tag : ~ Tagged(tag)'
    BY <1>1, <1>2, NothingTagged DEF Connect
  <2>2. task' = "select" /\ settled' = {} /\ Unique'
    BY <1>1, <1>2 DEF Connect, OpenChannel
  <2> QED BY <2>1, <2>2
          DEF ChannelInv, OpenServed, TagsTaken, HandFresh, TagsAwaited, Serving
<1>3. CASE ConnectFails \/ Wake
  <2>1. ~ Open' /\ ~ Serving' /\ Unique'
    BY <1>0, <1>1, <1>3
       DEF ConnectFails, Wake, OpenServed, Open, Serving, brokerVars
  <2> QED BY <2>1, NotServed
<1>4. CASE StreamError \/ TaskDies
  <2>1. ~ Open' /\ ~ Serving' /\ Unique'
    BY <1>1, <1>4 DEF StreamError, TaskDies, DropChannel, Open, Serving
  <2> QED BY <2>1, NotServed
<1>5. CASE TakeDelivery
  <2>1. /\ task = "select" /\ task' = "store" /\ taken < Len(sent)
        /\ taken' = taken + 1 /\ hand'.tag = taken + 1
        /\ UNCHANGED brokerVars
    BY <1>5 DEF TakeDelivery
  <2>2. Unique' /\ \A tag : Tagged(tag)' => Tagged(tag)
    BY <1>1, <1>5 DEF TakeDelivery
  <2>3. /\ Open' = Open /\ Unsettled' = Unsettled /\ settled' = settled
        /\ Serving /\ Serving'
    BY <2>1 DEF Open, Unsettled, brokerVars, Serving
  <2>4. \A tag \in Nat : Tagged(tag) => tag <= taken
    BY <1>0, <2>3 DEF TagsTaken
  <2>5. TagsTaken' /\ OpenServed' /\ TagsAwaited'
    BY <1>0, <2>1, <2>2, <2>3, <2>4 DEF TagsTaken, OpenServed, TagsAwaited
  <2>6. \A tag \in Nat : Tagged(tag)' => tag < taken'
    BY <1>0, <2>1, <2>2, <2>4
  <2>7. Open => taken + 1 \in Unsettled
    BY <1>0, <2>1 DEF TagsTaken, Unsettled
  <2>8. HandFresh'
    BY <1>0, <2>1, <2>3, <2>6, <2>7 DEF HandFresh
  <2> QED BY <2>2, <2>5, <2>8 DEF ChannelInv
<1>6. CASE RejectDelivery
  <2>1. /\ task = "select" /\ taken < Len(sent) /\ taken' = taken + 1
        /\ Settle("Nack", taken + 1) /\ task' = task
    BY <1>6 DEF RejectDelivery
  <2>2. Unique' /\ \A tag : Tagged(tag)' => Tagged(tag)
    BY <1>1, <1>6 DEF RejectDelivery
  <2>3. Serving /\ Serving' /\ \A tag \in Nat : Tagged(tag) => tag <= taken
    BY <1>0, <2>1 DEF Serving, TagsTaken
  <2>4. Open' => /\ Open /\ settled' \subseteq settled \cup {taken + 1}
                 /\ Unsettled \ {taken + 1} \subseteq Unsettled'
    BY <2>1, SettleOpen
  <2>5. TagsTaken'
    <3>1. \A tag \in Nat : Tagged(tag)' => tag <= taken'
      BY <1>0, <2>1, <2>2, <2>3
    <3>2. ASSUME Open', NEW tag \in settled' PROVE tag <= taken'
      <4>1. CASE tag \in settled
        <5>1. tag <= taken /\ tag \in Nat
          BY <1>0, <2>4, <3>2, <4>1 DEF TagsTaken
        <5> QED BY <1>0, <2>1, <5>1
      <4> QED BY <1>0, <2>1, <2>4, <3>2, <4>1
    <3> QED BY <3>1, <3>2 DEF TagsTaken
  <2>6. TagsAwaited'
    BY <1>0, <2>2, <2>3, <2>4 DEF TagsAwaited
  <2>7. OpenServed' /\ HandFresh'
    BY <2>1, <2>3 DEF OpenServed, HandFresh
  <2> QED BY <2>2, <2>5, <2>6, <2>7 DEF ChannelInv
<1>7. CASE TellStore
  <2>1. /\ task = "store" /\ task' = "evaluate"
        /\ UNCHANGED << brokerVars, hand, taken >>
    BY <1>7 DEF TellStore
  <2>2. Unique' /\ \A tag : Tagged(tag)' => Tagged(tag)
    BY <1>1, <1>7
  <2>3. /\ Open' = Open /\ Unsettled' = Unsettled /\ settled' = settled
        /\ Serving /\ Serving'
    BY <2>1 DEF Open, Unsettled, brokerVars, Serving
  <2> QED BY <1>0, <2>1, <2>2, <2>3
          DEF ChannelInv, OpenServed, TagsTaken, HandFresh, TagsAwaited
<1>8. CASE TellEvaluate
  <2>1. /\ task = "evaluate" /\ task' = "select" /\ hand.tag = taken
        /\ UNCHANGED << brokerVars, taken >>
    BY <1>0, <1>8 DEF TellEvaluate
  <2>2. ~ Tagged(hand.tag)
    BY <1>0, <2>1 DEF HandFresh
  <2>3. Unique' /\ \A tag : Tagged(tag)' => Tagged(tag) \/ tag = taken
    BY <1>8, <2>1, <2>2, EvaluateTags
  <2>4. /\ Open' = Open /\ Unsettled' = Unsettled /\ settled' = settled
        /\ Serving /\ Serving'
    BY <2>1 DEF Open, Unsettled, brokerVars, Serving
  <2>5. Open => taken \in Unsettled
    BY <1>0, <2>1 DEF HandFresh
  <2> QED BY <1>0, <2>1, <2>3, <2>4, <2>5
          DEF ChannelInv, OpenServed, TagsTaken, HandFresh, TagsAwaited
<1>9. CASE HandlerFails
  <2>1. /\ task \in {"store", "evaluate"} /\ task' = "select"
        /\ hand.tag = taken /\ Settle("Nack", taken) /\ taken' = taken
    BY <1>0, <1>9 DEF HandlerFails
  <2>2. Unique' /\ \A tag : Tagged(tag)' => Tagged(tag)
    BY <1>1, <1>9 DEF HandlerFails
  <2>3. Serving /\ Serving' /\ \A tag \in Nat : Tagged(tag) => tag < taken
    BY <1>0, <2>1 DEF Serving, HandFresh
  <2>4. Open' => /\ Open /\ settled' \subseteq settled \cup {taken}
                 /\ Unsettled \ {taken} \subseteq Unsettled'
    BY <2>1, SettleOpen
  <2>5. TagsTaken'
    <3>1. \A tag \in Nat : Tagged(tag)' => tag <= taken'
      BY <1>0, <2>1, <2>2, <2>3
    <3>2. ASSUME Open', NEW tag \in settled' PROVE tag <= taken'
      <4>1. CASE tag \in settled
        <5>1. tag <= taken /\ tag \in Nat
          BY <1>0, <2>4, <3>2, <4>1 DEF TagsTaken
        <5> QED BY <1>0, <2>1, <5>1
      <4> QED BY <1>0, <2>1, <2>4, <3>2, <4>1
    <3> QED BY <3>1, <3>2 DEF TagsTaken
  <2>6. TagsAwaited'
    BY <1>0, <2>2, <2>3, <2>4 DEF TagsAwaited
  <2>7. OpenServed' /\ HandFresh'
    BY <2>1, <2>3 DEF OpenServed, HandFresh
  <2> QED BY <2>2, <2>5, <2>6, <2>7 DEF ChannelInv
<1>10. CASE DrainCommand
  <2>1. PICK tag : tag = Head(commands).job.tag
    OBVIOUS
  <2>2. /\ task = "select" /\ UNCHANGED << task, taken, box, hold >>
        /\ commands # << >> /\ commands' = Tail(commands)
        /\ Settle(Head(commands).kind, tag)
    BY <1>10, <2>1 DEF DrainCommand, actorVars
  <2>3. TagsKept /\ Tagged(tag) /\ ~ Tagged(tag)'
    BY <1>0, <2>1, <2>2, Drains
  <2>4. tag \in Nat
    <3>1. Head(commands) \in JobMail
      BY <1>0, <2>2 DEF Queues
    <3> QED BY <2>1, <3>1 DEF JobMail, Jobs
  <2>5. Serving /\ Serving' /\ tag <= taken
    BY <1>0, <2>2, <2>3, <2>4 DEF Serving, TagsTaken
  <2>6. Open' => /\ Open /\ settled' \subseteq settled \cup {tag}
                 /\ Unsettled \ {tag} \subseteq Unsettled'
    BY <2>2, SettleOpen
  <2>7. TagsTaken'
    BY <1>0, <2>2, <2>3, <2>5, <2>6 DEF TagsTaken, TagsKept
  <2>8. TagsAwaited'
    BY <1>0, <2>3, <2>6 DEF TagsAwaited, TagsKept
  <2>9. OpenServed' /\ HandFresh'
    BY <2>2, <2>5 DEF OpenServed, HandFresh
  <2> QED BY <2>3, <2>7, <2>8, <2>9 DEF ChannelInv, TagsKept
<1> QED BY <1>2, <1>3, <1>4, <1>5, <1>6, <1>7, <1>8, <1>9, <1>10
        DEF TaskStep, StreamStep, HandOver

-----------------------------------------------------------------------------
(* The consumer knows every tag it is given the result of.                 *)

\* A queue with one message more or less is about no other tag.
LEMMA InLess ==
    ASSUME NEW S, NEW s \in Seq(S), NEW tag
    PROVE  /\ \A e \in S : In(Append(s, e), tag) => In(s, tag) \/ About(e, tag)
           /\ s # << >> /\ (In(Tail(s), tag) \/ About(Head(s), tag)) => In(s, tag)
<1>1. ASSUME NEW e \in S, In(Append(s, e), tag) PROVE In(s, tag) \/ About(e, tag)
  <2>1. PICK i \in 1 .. Len(Append(s, e)) : About(Append(s, e)[i], tag)
    BY <1>1 DEF In
  <2>2. CASE i = Len(s) + 1
    BY <2>1, <2>2, AppendFacts
  <2>3. CASE i # Len(s) + 1
    <3>1. i \in 1 .. Len(s) /\ Append(s, e)[i] = s[i]
      BY <2>3, AppendFacts
    <3> QED BY <2>1, <3>1 DEF In
  <2> QED BY <2>2, <2>3
<1>2. ASSUME s # << >>, In(Tail(s), tag) \/ About(Head(s), tag) PROVE In(s, tag)
  <2>1. 1 \in 1 .. Len(s) /\ Head(s) = s[1]
    BY <1>2, TailFacts
  <2>2. \A i \in 1 .. Len(Tail(s)) : i + 1 \in 1 .. Len(s) /\ Tail(s)[i] = s[i + 1]
    BY <1>2, TailFacts
  <2> QED BY <1>2, <2>1, <2>2 DEF In
<1> QED BY <1>1, <1>2

\* A message that is posted is known when the tag it answers is.
LEMMA PostKnown ==
    ASSUME NEW S, NEW s \in Seq(S), NEW e \in S, NEW tags, AllKnown(tags, s),
           e.kind \in {"Ok", "Err"} => KnownAtEnd(tags, s, e.job.tag)
    PROVE  AllKnown(tags, Append(s, e))
<1> DEFINE t == Append(s, e)
<1>0. /\ Len(t) = Len(s) + 1 /\ Len(s) \in Nat /\ t[Len(s) + 1] = e
      /\ \A i \in 1 .. Len(s) : t[i] = s[i]
  BY AppendFacts
<1> HIDE DEF t
<1>1. ASSUME NEW i \in 1 .. Len(s) + 1, NEW tag, Known(tags, s, i, tag)
      PROVE  Known(tags, t, i, tag)
  BY <1>0, <1>1 DEF Known
<1>2. ASSUME NEW i \in 1 .. Len(t), t[i].kind \in {"Ok", "Err"}
      PROVE  Known(tags, t, i, t[i].job.tag)
  <2>1. CASE i = Len(s) + 1
    BY <1>0, <1>1, <1>2, <2>1 DEF KnownAtEnd
  <2>2. CASE i # Len(s) + 1
    <3>1. i \in 1 .. Len(s) /\ t[i] = s[i]
      BY <1>0, <2>2
    <3>2. Known(tags, s, i, s[i].job.tag)
      BY <1>2, <3>1 DEF AllKnown
    <3> QED BY <1>0, <1>1, <3>1, <3>2
  <2> QED BY <2>1, <2>2
<1> QED BY <1>2 DEF AllKnown, t

\* What is taken out makes no later AckMessage unknown.
LEMMA TakeKnown ==
    ASSUME NEW S, NEW s \in Seq(S), s # << >>, NEW tags, NEW left,
           AllKnown(tags, s),
           \A tag : Stores(Head(s), tag) => tag \in left,
           \A i \in 2 .. Len(s) :
               s[i].kind \in {"Ok", "Err"} /\ s[i].job.tag \in tags
               => s[i].job.tag \in left
    PROVE  AllKnown(left, Tail(s))
<1> DEFINE t == Tail(s)
<1>0. /\ Len(t) = Len(s) - 1 /\ Len(s) \in Nat \ {0} /\ Head(s) = s[1]
      /\ \A i \in 1 .. Len(t) : i + 1 \in 1 .. Len(s) /\ t[i] = s[i + 1]
  BY TailFacts
<1> HIDE DEF t
<1>1. ASSUME NEW i \in 1 .. Len(t), t[i].kind \in {"Ok", "Err"}
      PROVE  Known(left, t, i, t[i].job.tag)
  <2>1. PICK tag : tag = t[i].job.tag
    OBVIOUS
  <2>2. /\ i + 1 \in 2 .. Len(s) /\ s[i + 1].kind \in {"Ok", "Err"}
        /\ s[i + 1].job.tag = tag
    BY <1>0, <1>1, <2>1
  <2>3. Known(tags, s, i + 1, tag)
    BY <2>2 DEF AllKnown
  <2>4. CASE tag \in tags
    BY <2>1, <2>2, <2>4 DEF Known
  <2>5. ASSUME NEW k \in 1 .. i, Stores(s[k], tag) PROVE Known(left, t, i, tag)
    <3>1. CASE k = 1
      BY <1>0, <2>5, <3>1 DEF Known
    <3>2. CASE k # 1
      <4>1. k - 1 \in 1 .. i - 1 /\ t[k - 1] = s[k]
        BY <1>0, <3>2
      <4> QED BY <2>5, <4>1 DEF Known
    <3> QED BY <3>1, <3>2
  <2> QED BY <2>1, <2>3, <2>4, <2>5 DEF Known
<1> QED BY <1>1 DEF AllKnown, t

\* A step that leaves the consumer alone and evaluates nothing new.
LEMMA KnownStays ==
    ASSUME TagsKnown, UNCHANGED pending,
           box'["consumer"] = box["consumer"],
           actor'["consumer"] = actor["consumer"],
           \A tag \in Nat : Evaluated(tag)' => Evaluated(tag)
    PROVE  TagsKnown'
BY DEF TagsKnown

\* A step that posts a message to the consumer: the tag of an AckMessage was
\* with the engine or the sink, and a Store mail makes its own tag known.
LEMMA KnownPosted ==
    ASSUME TagsKnown, UNCHANGED pending, ActorsTypeOK, NEW mail \in Mail,
           actor["consumer"] # "stopped", actor'["consumer"] # "stopped",
           box'["consumer"] = Append(box["consumer"], mail),
           mail.kind \in {"Ok", "Err"} =>
               mail.job.tag \in Nat /\ Evaluated(mail.job.tag),
           \A tag \in Nat : Evaluated(tag)' => Evaluated(tag) \/ Stores(mail, tag)
    PROVE  TagsKnown'
<1> DEFINE queue == box["consumer"]
<1>0. queue \in Seq(Mail)
  BY DEF ActorsTypeOK, Actors
<1> HIDE DEF queue
<1>1. /\ AllKnown(pending, queue)
      /\ \A tag \in Nat : Evaluated(tag) => KnownAtEnd(pending, queue, tag)
  BY DEF TagsKnown, queue
<1>2. AllKnown(pending, Append(queue, mail))
  BY <1>0, <1>1, PostKnown
<1>3. ASSUME NEW tag \in Nat, Evaluated(tag)'
      PROVE  KnownAtEnd(pending, Append(queue, mail), tag)
  BY <1>0, <1>1, <1>3, PostKeeps
<1> QED BY <1>2, <1>3 DEF TagsKnown, queue

\* The consumer takes a message and forgets at most a tag nothing more will
\* come of.
LEMMA KnownTaken ==
    ASSUME TagsKnown, ActorsTypeOK,
           actor["consumer"] # "stopped", actor'["consumer"] # "stopped",
           box["consumer"] # << >>, box'["consumer"] = Tail(box["consumer"]),
           \A tag : Stores(Head(box["consumer"]), tag) => tag \in pending',
           \A i \in 2 .. Len(box["consumer"]) :
               LET mail == box["consumer"][i]
               IN  mail.kind \in {"Ok", "Err"} /\ mail.job.tag \in pending
                   => mail.job.tag \in pending',
           \A tag \in Nat : Evaluated(tag)' =>
               Evaluated(tag) /\ (tag \in pending => tag \in pending')
    PROVE  TagsKnown'
<1> DEFINE queue == box["consumer"]
<1>0. queue \in Seq(Mail) /\ queue # << >>
  BY DEF ActorsTypeOK, Actors
<1>1. /\ AllKnown(pending, queue)
      /\ \A tag \in Nat : Evaluated(tag) => KnownAtEnd(pending, queue, tag)
  BY DEF TagsKnown
<1>2. AllKnown(pending', Tail(queue))
  BY <1>0, <1>1, TakeKnown
<1>3. ASSUME NEW tag \in Nat, Evaluated(tag)'
      PROVE  KnownAtEnd(pending', Tail(queue), tag)
  <2>1. KnownAtEnd(pending, queue, tag) /\ (tag \in pending => tag \in pending')
    BY <1>1, <1>3
  <2>2. CASE tag \in pending
    BY <2>1, <2>2 DEF KnownAtEnd, Known
  <2>3. CASE tag \notin pending
    BY <1>0, <2>1, <2>3, TakeKeeps
  <2> QED BY <2>2, <2>3
<1> QED BY <1>2, <1>3 DEF TagsKnown

\* A tag whose AckMessage has come is no longer with the task, the engine or the
\* sink.
LEMMA NotEvaluated ==
    ASSUME Unique, HandFresh, taken \in Nat, NEW i \in Nat,
           Carries("box", "consumer", i),
           NEW tag \in Nat, tag = TagAt("box", "consumer", i)
    PROVE  ~ Evaluated(tag)
<1>0. /\ "box" \in Slots /\ "hold" \in Slots /\ 0 \in Nat
      /\ {"consumer", "engine", "sink"} \subseteq Actors
  BY DEF Slots, Actors
<1>1. Tagged(tag)
  BY <1>0 DEF Tagged
<1>2. ~ (task = "evaluate" /\ InHand(tag))
  BY <1>1 DEF HandFresh, InHand
<1>3. ASSUME NEW a \in {"engine", "sink"}, In(box[a], tag) PROVE FALSE
  <2>1. PICK k \in 1 .. Len(box[a]) : About(box[a][k], tag)
    BY <1>3 DEF In
  <2>2. k \in Nat /\ Carries("box", a, k) /\ TagAt("box", a, k) = tag
    BY <2>1 DEF About, Carries, TagAt, MailAt
  <2>3. a = "consumer"
    BY <1>0, <2>2 DEF Unique
  <2> QED BY <2>3
<1>4. ASSUME NEW a \in {"engine", "sink"}, About(hold[a], tag) PROVE FALSE
  <2>1. Carries("hold", a, 0) /\ TagAt("hold", a, 0) = tag
    BY <1>4 DEF About, Carries, TagAt, MailAt
  <2>2. a = "consumer"
    BY <1>0, <2>1 DEF Unique
  <2> QED BY <2>2
<1> QED BY <1>2, <1>3, <1>4 DEF Evaluated

\* The consumer remembers the tag of a Store mail, and forgets one of which
\* nothing more will come.
LEMMA ConsumerKnown ==
    ASSUME TypeInv, Unique, StartFirst, HandFresh, TagsKnown, ConsumerStep
    PROVE  TagsKnown'
<1>0. /\ ActorsTypeOK /\ taken \in Nat /\ box["consumer"] \in Seq(Mail)
      /\ Actors = {"consumer", "engine", "sink"}
  BY DEF TypeInv, TypeOK, TaskTypeOK, ActorsTypeOK, Actors
<1> DEFINE queue == box["consumer"]
<1>1. ASSUME box' = Popped("consumer"), queue # << >>,
             UNCHANGED << hold, hand, actor >>, actor["consumer"] = "running",
             task' = task \/ task' # "evaluate",
             \A tag : Stores(Head(queue), tag) => tag \in pending',
             pending \subseteq pending'
      PROVE  TagsKnown'
  <2>1. /\ box'["consumer"] = Tail(queue)
        /\ box'["engine"] = box["engine"] /\ box'["sink"] = box["sink"]
    BY <1>0, <1>1 DEF Popped, ActorsTypeOK
  <2>2. \A tag : Evaluated(tag)' => Evaluated(tag)
    BY <1>1, <2>1 DEF Evaluated, InHand
  <2> QED BY <1>0, <1>1, <2>1, <2>2, KnownTaken
<1>2. CASE HandleStart
  <2>1. Head(queue).kind = "Start"
    BY <1>2 DEF HandleStart, Handles
  <2> QED BY <1>1, <1>2, <2>1 DEF HandleStart, Handles, Stores
<1>3. CASE HandleStore
  <2>1. pending' = pending \cup {Head(queue).job.tag}
    BY <1>3 DEF HandleStore
  <2> QED BY <1>1, <1>3, <2>1 DEF HandleStore, Handles, Stores, taskVars
<1>4. CASE HandleAckMessage
  <2>1. /\ queue # << >> /\ Head(queue).kind \in {"Ok", "Err"}
        /\ box' = Popped("consumer") /\ actor["consumer"] = "running"
        /\ UNCHANGED << task, hand, actor >>
        /\ pending' = pending \ {Head(queue).job.tag}
        /\ hold'["engine"] = hold["engine"] /\ hold'["sink"] = hold["sink"]
    BY <1>0, <1>4 DEF HandleAckMessage, Handles, taskVars, ActorsTypeOK
  <2>2. PICK tag : tag = Head(queue).job.tag
    OBVIOUS
  <2>3. tag \in Nat
    <3>1. Head(queue) \in JobMail
      BY <1>0, <2>1, MailTypes DEF JobKinds
    <3> QED BY <2>2, <3>1 DEF JobMail, Jobs
  <2>4. Len(queue) \in Nat \ {0} /\ Head(queue) = queue[1]
    BY <1>0, <2>1, TailFacts
  <2>5. \A i \in 1 .. Len(queue) : queue[i].kind \in {"Ok", "Err"} =>
            /\ Carries("box", "consumer", i)
            /\ TagAt("box", "consumer", i) = queue[i].job.tag
    BY DEF Carries, TagAt, MailAt, OnItsWay, JobKinds
  <2>6. Carries("box", "consumer", 1) /\ TagAt("box", "consumer", 1) = tag
    BY <2>1, <2>2, <2>4, <2>5
  <2>7. \A i \in 2 .. Len(queue) :
            queue[i].kind \in {"Ok", "Err"} => queue[i].job.tag # tag
    <3> SUFFICES ASSUME NEW i \in 2 .. Len(queue),
                        queue[i].kind \in {"Ok", "Err"}, queue[i].job.tag = tag
                 PROVE  FALSE
      OBVIOUS
    <3>1. /\ Carries("box", "consumer", i)
          /\ TagAt("box", "consumer", i) = TagAt("box", "consumer", 1)
          /\ i \in Nat /\ 1 \in Nat /\ i # 1 /\ "box" \in Slots
      BY <2>4, <2>5, <2>6 DEF Slots
    <3> QED BY <1>0, <2>6, <3>1 DEF Unique
  <2>8. ~ Evaluated(tag)
    BY <1>0, <2>3, <2>6, NotEvaluated
  <2>9. /\ box'["consumer"] = Tail(queue)
        /\ box'["engine"] = box["engine"] /\ box'["sink"] = box["sink"]
    BY <1>0, <2>1 DEF Popped, ActorsTypeOK
  <2>10. \A t : Evaluated(t)' => Evaluated(t) /\ t # tag
    BY <2>1, <2>8, <2>9 DEF Evaluated, InHand
  <2>11. \A t : ~ Stores(Head(queue), t)
    BY <2>1 DEF Stores
  <2> HIDE DEF queue
  <2> QED BY <1>0, <2>1, <2>2, <2>7, <2>9, <2>10, <2>11, KnownTaken DEF queue
<1>5. CASE SendCommand
  <2>1. /\ UNCHANGED << box, actor, task, hand, pending >>
        /\ hold'["engine"] = hold["engine"] /\ hold'["sink"] = hold["sink"]
    BY <1>0, <1>5 DEF SendCommand, ActorsTypeOK
  <2>2. \A tag : Evaluated(tag)' => Evaluated(tag)
    BY <2>1 DEF Evaluated, InHand
  <2> QED BY <2>1, <2>2, KnownStays
<1> QED BY <1>2, <1>3, <1>4, <1>5 DEF ConsumerStep

\* The engine and the sink pass tags on among themselves, and the sink gives
\* them back to the consumer.
LEMMA EngineSinkKnown ==
    ASSUME TypeInv, TagsKnown, EngineStep \/ SinkStep
    PROVE  TagsKnown'
<1>0. /\ ActorsTypeOK
      /\ Actors = {"consumer", "engine", "sink"} /\ JobMail \subseteq Mail
      /\ \A b \in Actors :
             /\ box[b] \in Seq(Mail)
             /\ hold[b] # NoMail \/ hold[b].kind # "None" => hold[b] \in JobMail
  BY MailTypes DEF TypeInv, TypeOK, ActorsTypeOK, Actors
<1>1. ASSUME UNCHANGED << task, hand, pending, actor >>,
             box'["consumer"] = box["consumer"],
             \A tag : Evaluated(tag)' => Evaluated(tag)
      PROVE  TagsKnown'
  BY <1>1, KnownStays
<1>2. CASE HandleEvaluate
  <2> DEFINE queue == box["engine"]
  <2>1. queue # << >> /\ queue \in Seq(Mail) /\ Head(queue).kind = "Evaluate"
    BY <1>0, <1>2 DEF HandleEvaluate, Handles
  <2>2. /\ hold'["engine"] = MailOf("Persist", Head(queue).job)
        /\ hold'["sink"] = hold["sink"]
        /\ box'["engine"] = Tail(queue)
        /\ box'["sink"] = box["sink"] /\ box'["consumer"] = box["consumer"]
        /\ UNCHANGED << task, hand, pending, actor >>
    BY <1>0, <1>2 DEF HandleEvaluate, Popped, ActorsTypeOK, taskVars
  <2>3. \A tag : About(hold'["engine"], tag) => About(Head(queue), tag)
    BY <2>1, <2>2 DEF About, OnItsWay, MailOf, JobKinds
  <2>4. \A tag : About(hold'["engine"], tag) \/ In(box'["engine"], tag)
                 => In(queue, tag)
    BY <2>1, <2>2, <2>3, InLess
  <2>5. \A tag : Evaluated(tag)' => Evaluated(tag)
    BY <2>2, <2>4 DEF Evaluated, InHand
  <2> QED BY <1>1, <2>2, <2>5
<1>3. CASE TellPersist
  <2>1. /\ hold["engine"] \in JobMail
        /\ box'["sink"] = Append(box["sink"], hold["engine"])
        /\ box'["engine"] = box["engine"] /\ box'["consumer"] = box["consumer"]
        /\ hold'["engine"] = NoMail /\ hold'["sink"] = hold["sink"]
        /\ UNCHANGED << task, hand, pending, actor >>
    BY <1>0, <1>3 DEF TellPersist, Posted, ActorsTypeOK, taskVars
  <2>2. \A tag : In(box'["sink"], tag) => In(box["sink"], tag)
                                          \/ About(hold["engine"], tag)
    BY <1>0, <2>1, InLess
  <2>3. \A tag : Evaluated(tag)' => Evaluated(tag)
    BY <2>1, <2>2, NothingHeld DEF Evaluated, InHand
  <2> QED BY <1>1, <2>1, <2>3
<1>4. CASE HandlePersist
  <2> DEFINE queue == box["sink"]
  <2>1. queue # << >> /\ queue \in Seq(Mail)
    BY <1>0, <1>4 DEF HandlePersist, Handles
  <2>2. /\ hold'["sink"] = Head(queue) /\ hold'["engine"] = hold["engine"]
        /\ box'["sink"] = Tail(queue)
        /\ box'["engine"] = box["engine"] /\ box'["consumer"] = box["consumer"]
        /\ UNCHANGED << task, hand, pending, actor >>
    BY <1>0, <1>4 DEF HandlePersist, Popped, ActorsTypeOK, taskVars
  <2>3. \A tag : About(hold'["sink"], tag) \/ In(box'["sink"], tag)
                 => In(queue, tag)
    BY <2>1, <2>2, InLess
  <2>4. \A tag : Evaluated(tag)' => Evaluated(tag)
    BY <2>2, <2>3 DEF Evaluated, InHand
  <2> QED BY <1>1, <2>2, <2>4
<1>5. CASE InsertStep
  <2>1. PICK kind \in {"Ok", "Err"} :
            hold' = [hold EXCEPT !["sink"] = MailOf(kind, hold["sink"].job)]
    BY <1>5 DEF InsertStep, InsertSucceeds, InsertFails
  <2>2. /\ hold["sink"].kind = "Persist"
        /\ UNCHANGED << box, task, hand, pending, actor >>
    BY <1>5 DEF InsertStep, InsertSucceeds, InsertFails, taskVars
  <2>3. /\ hold'["sink"] = MailOf(kind, hold["sink"].job)
        /\ hold'["engine"] = hold["engine"]
    BY <1>0, <2>1 DEF ActorsTypeOK
  <2>4. \A tag : About(hold'["sink"], tag) => About(hold["sink"], tag)
    BY <2>2, <2>3 DEF About, OnItsWay, MailOf, JobKinds
  <2>5. \A tag : Evaluated(tag)' => Evaluated(tag)
    BY <2>2, <2>3, <2>4 DEF Evaluated, InHand
  <2> QED BY <1>1, <2>2, <2>5
<1>6. CASE TellAck
  <2>1. /\ hold["sink"] \in JobMail /\ hold["sink"].kind \in {"Ok", "Err"}
        /\ hold'["sink"] = NoMail /\ hold'["engine"] = hold["engine"]
        /\ UNCHANGED << task, hand, pending, actor >>
    BY <1>0, <1>6 DEF TellAck, taskVars, ActorsTypeOK, NoMail
  <2>2. PICK mail \in Mail : mail = hold["sink"]
    BY <1>0, <2>1
  <2>3. mail.job.tag \in Nat /\ Evaluated(mail.job.tag)
    BY <2>1, <2>2 DEF Evaluated, About, OnItsWay, JobKinds, JobMail, Jobs
  <2>4. ASSUME box'["engine"] = box["engine"], box'["sink"] = box["sink"],
               NEW tag, Evaluated(tag)'
        PROVE  Evaluated(tag)
    BY <2>1, <2>4, NothingHeld DEF Evaluated, InHand
  <2>5. CASE CanTell("consumer") /\ box' = Posted("consumer", mail)
    <3>1. /\ box'["consumer"] = Append(box["consumer"], mail)
          /\ box'["engine"] = box["engine"] /\ box'["sink"] = box["sink"]
          /\ actor["consumer"] # "stopped"
      BY <1>0, <2>5 DEF Posted, ActorsTypeOK, CanTell
    <3>2. actor'["consumer"] # "stopped"
      BY <2>1, <3>1
    <3> QED BY <1>0, <2>1, <2>3, <2>4, <3>1, <3>2, KnownPosted
  <2>6. CASE UNCHANGED box
    BY <1>1, <2>1, <2>4, <2>6
  <2> QED BY <1>6, <2>2, <2>5, <2>6 DEF TellAck
<1> QED BY <1>2, <1>3, <1>4, <1>5, <1>6 DEF EngineStep, SinkStep

\* The task tells the consumer of a tag before it gives it to the engine.
LEMMA TaskKnown ==
    ASSUME TypeInv, TagsKnown, TaskStep
    PROVE  TagsKnown'
<1>0. /\ ActorsTypeOK /\ Actors = {"consumer", "engine", "sink"}
      /\ \A b \in Actors : box[b] \in Seq(Mail)
      /\ task \in {"store", "evaluate"} => hand \in Jobs
  BY DEF TypeInv, HandInv, TypeOK, ActorsTypeOK, Actors
<1>1. CASE TellStore
  <2>1. PICK mail \in Mail : mail = MailOf("Store", hand)
    BY <1>0, <1>1, MailTypes DEF TellStore, JobKinds
  <2>2. /\ box'["consumer"] = Append(box["consumer"], mail)
        /\ box'["engine"] = box["engine"] /\ box'["sink"] = box["sink"]
        /\ UNCHANGED << hold, hand, pending, actor >>
        /\ actor["consumer"] # "stopped" /\ mail.kind = "Store"
    BY <1>0, <1>1, <2>1 DEF TellStore, Posted, CanTell, MailOf, ActorsTypeOK
  <2>3. \A tag : InHand(tag) => Stores(mail, tag)
    BY <2>1 DEF InHand, Stores, MailOf
  <2>4. \A tag : Evaluated(tag)' => Evaluated(tag) \/ Stores(mail, tag)
    BY <2>2, <2>3 DEF Evaluated, InHand
  <2>5. actor'["consumer"] # "stopped"
    BY <2>2
  <2> QED BY <1>0, <2>2, <2>4, <2>5, KnownPosted
<1>2. CASE TellEvaluate
  <2>1. PICK mail \in Mail : mail = MailOf("Evaluate", hand)
    BY <1>0, <1>2, MailTypes DEF TellEvaluate, JobKinds
  <2>2. /\ box'["engine"] = Append(box["engine"], mail)
        /\ box'["consumer"] = box["consumer"] /\ box'["sink"] = box["sink"]
        /\ UNCHANGED << hold, pending, actor >>
        /\ task = "evaluate" /\ task' = "select"
    BY <1>0, <1>2, <2>1 DEF TellEvaluate, Posted, ActorsTypeOK
  <2>3. \A tag : About(mail, tag) => InHand(tag)
    BY <2>1 DEF InHand, About, MailOf
  <2>4. \A tag : In(box'["engine"], tag) => In(box["engine"], tag) \/ InHand(tag)
    BY <1>0, <2>2, <2>3, InLess
  <2>5. \A tag : Evaluated(tag)' => Evaluated(tag)
    BY <2>2, <2>4 DEF Evaluated
  <2> QED BY <2>2, <2>5, KnownStays
<1>3. CASE /\ UNCHANGED << actorVars, pending >>
           /\ task' = "evaluate" => UNCHANGED << task, hand >>
  <2>1. \A tag : Evaluated(tag)' => Evaluated(tag)
    BY <1>3 DEF Evaluated, InHand, actorVars
  <2> QED BY <1>3, <2>1, KnownStays DEF actorVars
<1> QED BY <1>1, <1>2, <1>3
        DEF TaskStep, StreamStep, HandOver, Connect, ConnectFails, Wake,
            TakeDelivery, RejectDelivery, StreamError, HandlerFails,
            DrainCommand, TaskDies

\* Stopping an actor evaluates nothing; the consumer's mailbox goes with it.
LEMMA StopKnown ==
    ASSUME TypeInv, TagsKnown, ShutdownStep
    PROVE  TagsKnown'
<1>0. /\ ActorsTypeOK /\ Actors = {"consumer", "engine", "sink"}
      /\ \A b \in Actors : box[b] \in Seq(Mail)
      /\ main.who \in Actors /\ Stop \in Mail
  BY MailTypes DEF TypeInv, TypeOK, ActorsTypeOK, Actors
<1>1. CASE CtrlC \/ Join \/ Exit
  <2>1. /\ UNCHANGED << actorVars, pending, hand >> \/ task' = "aborted"
        /\ task' = task \/ task' = "aborted"
        /\ UNCHANGED << actorVars, pending >>
    BY <1>1 DEF CtrlC, Join, Exit, taskVars
  <2>2. \A tag : Evaluated(tag)' => Evaluated(tag)
    BY <2>1 DEF Evaluated, InHand, actorVars
  <2> QED BY <2>1, <2>2, KnownStays DEF actorVars
<1>2. CASE SendStop
  <2>1. /\ box' = Posted(main.who, Stop) /\ CanTell(main.who)
        /\ UNCHANGED << hold, actor, task, hand, pending >>
    BY <1>2 DEF SendStop, taskVars
  <2>2. \A b \in Actors : box'[b] = IF b = main.who
                                    THEN Append(box[b], Stop) ELSE box[b]
    BY <1>0, <2>1 DEF Posted, ActorsTypeOK
  <2>3. \A tag : ~ About(Stop, tag)
    BY DEF About, OnItsWay, Stop, JobKinds
  <2>4. \A b \in Actors : \A tag : In(box'[b], tag) => In(box[b], tag)
    BY <1>0, <2>2, <2>3, InLess
  <2>5. \A tag : Evaluated(tag)' => Evaluated(tag)
    BY <1>0, <2>1, <2>4 DEF Evaluated, InHand
  <2>6. CASE main.who = "consumer"
    <3>1. /\ actor["consumer"] # "stopped" /\ actor'["consumer"] # "stopped"
          /\ box'["consumer"] = Append(box["consumer"], Stop)
          /\ Stop.kind \notin {"Ok", "Err"}
      BY <1>0, <2>1, <2>2, <2>6 DEF CanTell, Stop
    <3> QED BY <1>0, <2>1, <2>5, <3>1, KnownPosted
  <2>7. CASE main.who # "consumer"
    BY <1>0, <2>1, <2>2, <2>5, <2>7, KnownStays
  <2> QED BY <2>6, <2>7
<1>3. ASSUME NEW a \in Actors, HandleStop(a) PROVE TagsKnown'
  <2>1. /\ box[a] # << >> /\ Head(box[a]).kind = "Stop" /\ actor[a] = "running"
        /\ \A b \in Actors : box'[b] = IF b = a THEN Tail(box[b]) ELSE box[b]
        /\ \A b \in Actors : actor'[b] = IF b = a THEN "stopping" ELSE actor[b]
        /\ UNCHANGED << hold, task, hand, pending >>
    BY <1>0, <1>3
       DEF HandleStop, TakeStop, Handles, Popped, ActorsTypeOK, taskVars
  <2>2. \A b \in Actors : \A tag : In(box'[b], tag) => In(box[b], tag)
    BY <1>0, <2>1, InLess
  <2>3. \A tag : Evaluated(tag)' => Evaluated(tag)
    BY <1>0, <2>1, <2>2 DEF Evaluated, InHand
  <2>4. CASE a = "consumer"
    <3>1. /\ actor["consumer"] # "stopped" /\ actor'["consumer"] # "stopped"
          /\ box["consumer"] # << >> /\ box'["consumer"] = Tail(box["consumer"])
          /\ \A tag : ~ Stores(Head(box["consumer"]), tag)
      BY <1>0, <2>1, <2>4 DEF Stores
    <3> QED BY <1>0, <2>1, <2>3, <3>1, KnownTaken
  <2>5. CASE a # "consumer"
    BY <1>0, <2>1, <2>3, <2>5, KnownStays
  <2> QED BY <2>4, <2>5
<1>4. ASSUME NEW a \in Actors, OnStop(a) PROVE TagsKnown'
  <2>1. /\ \A b \in Actors : box'[b] = IF b = a THEN << >> ELSE box[b]
        /\ \A b \in Actors : actor'[b] = IF b = a THEN "stopped" ELSE actor[b]
        /\ UNCHANGED << hold, task, hand, pending >>
    BY <1>0, <1>4 DEF OnStop, FinishStop, ActorsTypeOK
  <2>2. \A b \in Actors : \A tag : In(box'[b], tag) => In(box[b], tag)
    BY <2>1, Len(<< >>) = 0 DEF In
  <2>3. \A tag : Evaluated(tag)' => Evaluated(tag)
    BY <1>0, <2>1, <2>2 DEF Evaluated, InHand
  <2>4. CASE a = "consumer"
    BY <1>0, <2>1, <2>4 DEF TagsKnown
  <2>5. CASE a # "consumer"
    BY <1>0, <2>1, <2>3, <2>5, KnownStays
  <2> QED BY <2>4, <2>5
<1> QED BY <1>1, <1>2, <1>3, <1>4 DEF ShutdownStep, MainStep, StopStep

\* After a restart StartConsuming is the only message.
LEMMA WorldKnown ==
    ASSUME TypeInv, TagsKnown, WorldStep \/ UNCHANGED vars
    PROVE  TagsKnown'
<1>1. CASE CrashRestart
  <2>1. /\ \A a \in Actors : hold'[a] = NoMail /\ actor'[a] = "running"
        /\ \A a \in Actors :
               box'[a] = IF a = "consumer" THEN << Start >> ELSE << >>
        /\ task' = "none" /\ Actors = {"consumer", "engine", "sink"}
    BY <1>1 DEF CrashRestart, Actors
  <2>2. \A tag : ~ Evaluated(tag)'
    BY <2>1, NothingHeld, Len(<< >>) = 0 DEF Evaluated, In
  <2>3. AllKnown(pending', << Start >>)
    BY DEF AllKnown, Start
  <2> QED BY <2>1, <2>2, <2>3 DEF TagsKnown
<1>2. CASE QuietWorld \/ UNCHANGED vars
  <2>1. UNCHANGED << actorVars, task, hand, pending >>
    BY <1>2
       DEF QuietWorld, BrokerPushes, LoseConnection, BrokerCancels, vars,
           taskVars
  <2>2. \A tag : Evaluated(tag)' => Evaluated(tag)
    BY <2>1 DEF Evaluated, InHand, actorVars
  <2> QED BY <2>1, <2>2, KnownStays DEF actorVars
<1> QED BY <1>1, <1>2 DEF WorldStep, QuietWorld

-----------------------------------------------------------------------------
(* The results.                                                            *)

\* Initially nothing is on its way.
LEMMA TagInit == Init => TagInv
<1> SUFFICES ASSUME Init PROVE TagInv
  OBVIOUS
<1>1. /\ commands = << >> /\ task = "none" /\ link = "down"
      /\ \A a \in Actors : hold[a] = NoMail /\ actor[a] = "running"
      /\ \A a \in Actors : box[a] = IF a = "consumer" THEN << Start >> ELSE << >>
      /\ Actors = {"consumer", "engine", "sink"}
  BY DEF Init, BrokerInit, ActorsInit, Actors
<1>2. ~ OnItsWay(NoMail) /\ ~ OnItsWay(Start)
  BY DEF OnItsWay, NoMail, Start, JobKinds
<1>3. \A s \in Slots, a \in Actors, i \in Nat : ~ Carries(s, a, i)
  BY <1>1, <1>2 DEF Carries, MailAt, Slots
<1>4. \A tag : ~ Evaluated(tag)
  BY <1>1, NothingHeld, Len(<< >>) = 0 DEF Evaluated, In
<1>5. AllKnown(pending, << Start >>)
  BY DEF AllKnown, Start
<1>6. TagsKnown
  BY <1>1, <1>4, <1>5 DEF TagsKnown
<1> QED BY <1>1, <1>3, <1>6
        DEF TagInv, Unique, OpenServed, TagsTaken, HandFresh, TagsAwaited,
            Serving, Open

\* No step breaks it, as long as a tag is given out once.
LEMMA TagInductive ==
    ASSUME MaxConn = 1, TypeInv, MailInv, CommandsOnly, TrackInv, TagInv,
           [Next]_vars
    PROVE  TagInv'
<1>0. /\ Unique /\ HandFresh /\ TagsKnown /\ ChannelInv /\ StartFirst /\ TakenInv
  BY DEF TagInv, ChannelInv, TrackInv
<1>1. CASE ConsumerStep \/ EngineStep \/ SinkStep
  <2>1. TagsKept
    BY <1>0, <1>1, ActorTags
  <2>2. ChannelInv'
    BY <1>0, <1>1, <2>1, ActorChannel
  <2>3. TagsKnown'
    BY <1>0, <1>1, ConsumerKnown, EngineSinkKnown
  <2> QED BY <2>1, <2>2, <2>3 DEF TagsKept, TagInv, ChannelInv
<1>2. CASE TaskStep
  <2>1. Unique' /\ ChannelInv'
    BY <1>0, <1>2, TaskChannel
  <2>2. TagsKnown'
    BY <1>0, <1>2, TaskKnown
  <2> QED BY <2>1, <2>2 DEF TagInv, ChannelInv
<1>3. CASE ShutdownStep
  <2>1. TagsKept
    BY <1>0, <1>3, StopTags
  <2>2. ChannelInv' /\ TagsKnown'
    BY <1>0, <1>3, <2>1, StopChannel, StopKnown
  <2> QED BY <2>1, <2>2 DEF TagsKept, TagInv, ChannelInv
<1>4. CASE WorldStep \/ Idle \/ UNCHANGED vars
  <2>1. TagsKept
    BY <1>0, <1>4, WorldTags DEF Idle
  <2>2. ChannelInv' /\ TagsKnown'
    BY <1>0, <1>4, <2>1, WorldChannel, WorldKnown DEF Idle
  <2> QED BY <2>1, <2>2 DEF TagsKept, TagInv, ChannelInv
<1> QED BY <1>1, <1>2, <1>3, <1>4, NextByActor

\* While the process has one connection, a delivery tag is in one place only,
\* the open channel waits for it, and the consumer knows it.
THEOREM TagInvariant ==
    ASSUME MaxConn = 1
    PROVE  Spec => []TagInv
<1>1. TypeInv /\ MailInv /\ CommandsOnly /\ TrackInv /\ TagInv /\ [Next]_vars
          => TagInv'
  BY TagInductive
<1> QED BY TagInit, TypeInvariant, SettlementInvariant, OnePlaceInvariant,
           TrackInvariant, <1>1, PTL DEF Spec

\* While the process has one connection: the result of a transaction that the
\* sink stored, or failed to store, is never ignored by the consumer actor for
\* want of its tag, whatever faults occur and also while it shuts down.
THEOREM ResultsAreHeeded ==
    ASSUME MaxConn = 1
    PROVE  Spec => []AckNeverIgnored
<1>1. TagInv => AckNeverIgnored
  BY Len(<< >>) = 0
     DEF TagInv, TagsKnown, AllKnown, Known, Stores, AckNeverIgnored
<1> QED BY <1>1, TagInvariant, PTL

\* While the process has one connection: no command carries a tag that the open
\* channel does not wait for, or the tag of another command, so none of them is
\* a channel error.
THEOREM CommandsDoNoHarm ==
    ASSUME MaxConn = 1
    PROVE  Spec => []CommandsAreSettleable
<1>1. ASSUME TypeInv, CommandsOnly, TagInv PROVE CommandsAreSettleable
  <2>1. /\ "command" \in Slots /\ "consumer" \in Actors
        /\ commands \in Seq(JobMail)
    BY <1>1 DEF Slots, Actors, TypeInv, TypeOK, TaskTypeOK
  <2>2. \A i \in 1 .. Len(commands) :
            /\ commands[i].job.tag \in Nat
            /\ Carries("command", "consumer", i)
            /\ TagAt("command", "consumer", i) = commands[i].job.tag
    <3> SUFFICES ASSUME NEW i \in 1 .. Len(commands)
                 PROVE  /\ commands[i].job.tag \in Nat
                        /\ Carries("command", "consumer", i)
                        /\ TagAt("command", "consumer", i) = commands[i].job.tag
      OBVIOUS
    <3>1. commands[i] \in JobMail
      BY <2>1
    <3>2. OnItsWay(commands[i])
      BY <1>1 DEF CommandsOnly, IsCommand, OnItsWay, JobKinds
    <3> QED BY <3>1, <3>2 DEF Carries, TagAt, MailAt, JobMail, Jobs
  <2>3. \A i \in 1 .. Len(commands) : Tagged(commands[i].job.tag)
    BY <2>1, <2>2 DEF Tagged
  <2>4. Open => \A i \in 1 .. Len(commands) : commands[i].job.tag \in Unsettled
    BY <1>1, <2>2, <2>3 DEF TagInv, TagsAwaited
  <2>5. \A i \in 1 .. Len(commands) : \A k \in 1 .. i - 1 :
            commands[k].job.tag # commands[i].job.tag
    <3> SUFFICES ASSUME NEW i \in 1 .. Len(commands), NEW k \in 1 .. i - 1,
                        commands[k].job.tag = commands[i].job.tag
                 PROVE  FALSE
      OBVIOUS
    <3>1. k \in 1 .. Len(commands) /\ i \in Nat /\ k \in Nat /\ k # i
      BY <2>1
    <3> QED BY <1>1, <2>1, <2>2, <3>1 DEF TagInv, Unique
  <2> QED BY <2>4, <2>5 DEF CommandsAreSettleable
<1> QED BY <1>1, TypeInvariant, OnePlaceInvariant, TagInvariant, PTL

-----------------------------------------------------------------------------
(* Who waits for whom.  The AMQP task waits for the consumer or the        *)
(* engine, the engine for the sink and the sink for the consumer, so a     *)
(* cycle needs the consumer to wait for the task: with the command channel *)
(* full, a command in its hold and a delivery in the task's hand.  Those   *)
(* are different deliveries of one channel, and none of them is settled.   *)

\* A tag on its way, or in the task's hand.
OnWay(tag) == Tagged(tag) \/ (task \in {"store", "evaluate"} /\ InHand(tag))

\* Also after the channel has broken, for as long as the task serves it.
WayUnsettled ==
    Serving => /\ \A tag \in settled : tag <= taken
               /\ \A tag \in Nat : OnWay(tag) => tag \notin settled

\* A call to settle a tag settles no other.
LEMMA SettlesOne ==
    ASSUME NEW kind, NEW tag, Settle(kind, tag)
    PROVE  settled' \subseteq settled \cup {tag}
BY DEF Settle, SettleTag, CloseChannel, brokerVars

\* A tag is settled when it is nowhere any more.
LEMMA WayUnsettledInductive ==
    ASSUME MaxConn = 1, TypeInv, MailInv, CommandsOnly, TrackInv, TagInv,
           WayUnsettled, [Next]_vars
    PROVE  WayUnsettled'
<1>0. /\ Unique /\ HandFresh /\ Queues
      /\ taken \in Nat /\ settled \subseteq Nat
      /\ Serving => \A tag \in Nat : Tagged(tag) => tag <= taken
      /\ task \in {"store", "evaluate"} => hand.tag = taken
  BY DEF TagInv, TypeInv, TypeOK, BrokerTypeOK, TaskTypeOK, TagsTaken, HandFresh,
         Queues
<1>1. ~ Serving' => WayUnsettled'
  BY DEF WayUnsettled
<1>2. ASSUME Serving' => Serving, \A tag : OnWay(tag)' => OnWay(tag),
             UNCHANGED << settled, taken >>
      PROVE  WayUnsettled'
  BY <1>2 DEF WayUnsettled
<1>3. ASSUME UNCHANGED << task, hand, settled, taken >>, TagsKept
      PROVE  WayUnsettled'
  BY <1>2, <1>3 DEF OnWay, InHand, Serving, TagsKept
<1>4. ASSUME Serving, task' = "select", NEW tag \in Nat, tag <= taken',
             taken' \in Nat, taken <= taken', settled' \subseteq settled \cup {tag},
             \A t : Tagged(t)' => Tagged(t) /\ t # tag
      PROVE  WayUnsettled'
  <2>1. \A t \in settled' : t <= taken'
    BY <1>0, <1>4 DEF WayUnsettled
  <2>2. \A t \in Nat : OnWay(t)' => t \notin settled'
    BY <1>4 DEF WayUnsettled, OnWay
  <2> QED BY <2>1, <2>2 DEF WayUnsettled
<1>5. CASE ConsumerStep \/ EngineStep \/ SinkStep
  <2>1. CASE HandleStart
    BY <1>1, <2>1 DEF HandleStart, Serving
  <2>2. CASE ~ HandleStart
    <3>1. UNCHANGED << task, hand, settled, taken >>
      BY <1>5, <2>2
         DEF ConsumerStep, HandleStore, HandleAckMessage, SendCommand, EngineStep,
             HandleEvaluate, TellPersist, SinkStep, InsertStep, HandlePersist,
             InsertSucceeds, InsertFails, TellAck, taskVars, brokerVars
    <3> QED BY <1>0, <1>3, <1>5, <3>1, ActorTags
  <2> QED BY <2>1, <2>2
<1>6. CASE TaskStep
  <2>1. TellStore \/ UNCHANGED << actorVars, commands >> =>
            \A tag : Tagged(tag)' => Tagged(tag)
    BY <1>0, TaskTags DEF TagsKept
  <2>2. CASE Connect
    <3>1. /\ settled' = {} /\ task' = "select"
      BY <2>2 DEF Connect, OpenChannel
    <3> QED BY <3>1 DEF WayUnsettled
  <2>3. CASE ConnectFails \/ Wake \/ StreamError \/ TaskDies
    BY <1>1, <2>3 DEF ConnectFails, Wake, StreamError, TaskDies, Serving
  <2>4. CASE TakeDelivery
    <3>1. /\ task = "select" /\ taken' = taken + 1 /\ hand'.tag = taken + 1
          /\ UNCHANGED settled /\ \A tag : Tagged(tag)' => Tagged(tag)
      BY <2>1, <2>4 DEF TakeDelivery, brokerVars
    <3>2. \A tag : OnWay(tag)' => OnWay(tag) \/ tag = taken + 1
      BY <3>1 DEF OnWay, InHand
    <3>3. Serving /\ taken + 1 \notin settled
      BY <1>0, <3>1 DEF Serving, WayUnsettled
    <3>4. \A tag \in settled' : tag <= taken'
      BY <1>0, <3>1, <3>3 DEF WayUnsettled
    <3> QED BY <3>1, <3>2, <3>3, <3>4 DEF WayUnsettled
  <2>5. CASE RejectDelivery
    <3>1. /\ task = "select" /\ task' = "select" /\ taken' = taken + 1
          /\ Settle("Nack", taken + 1) /\ \A tag : Tagged(tag)' => Tagged(tag)
      BY <2>1, <2>5 DEF RejectDelivery
    <3>2. Serving /\ ~ Tagged(taken + 1)
      BY <1>0, <3>1 DEF Serving
    <3> QED BY <1>0, <1>4, <3>1, <3>2, SettlesOne
  <2>6. CASE HandlerFails
    <3>1. /\ task \in {"store", "evaluate"} /\ task' = "select" /\ taken' = taken
          /\ Settle("Nack", taken) /\ \A tag : Tagged(tag)' => Tagged(tag)
      BY <1>0, <2>1, <2>6 DEF HandlerFails
    <3>2. Serving /\ ~ Tagged(taken)
      BY <1>0, <3>1 DEF Serving, HandFresh
    <3> QED BY <1>0, <1>4, <3>1, <3>2, SettlesOne
  <2>7. CASE TellStore
    <3>1. /\ UNCHANGED << settled, taken, hand >>
          /\ task = "store" /\ task' = "evaluate"
      BY <2>7 DEF TellStore, brokerVars
    <3>2. \A tag : OnWay(tag)' => OnWay(tag)
      BY <2>1, <2>7, <3>1 DEF OnWay, InHand
    <3> QED BY <1>2, <3>1, <3>2 DEF Serving
  <2>8. CASE TellEvaluate
    <3>1. /\ UNCHANGED << settled, taken >>
          /\ task = "evaluate" /\ task' = "select"
      BY <2>8 DEF TellEvaluate, brokerVars
    <3>2. ~ Tagged(hand.tag)
      BY <1>0, <3>1 DEF HandFresh
    <3>3. \A tag : Tagged(tag)' => Tagged(tag) \/ tag = hand.tag
      BY <1>0, <2>8, <3>2, EvaluateTags
    <3>4. \A tag : OnWay(tag)' => OnWay(tag)
      BY <3>1, <3>3 DEF OnWay, InHand
    <3> QED BY <1>2, <3>1, <3>4 DEF Serving
  <2>9. CASE DrainCommand
    <3>1. PICK tag : tag = Head(commands).job.tag
      OBVIOUS
    <3>2. /\ task = "select" /\ UNCHANGED << task, taken, box, hold >>
          /\ commands # << >> /\ commands' = Tail(commands)
          /\ Settle(Head(commands).kind, tag)
      BY <2>9, <3>1 DEF DrainCommand, actorVars
    <3>3. TagsKept /\ Tagged(tag) /\ ~ Tagged(tag)'
      BY <1>0, <3>1, <3>2, Drains
    <3>4. Head(commands) \in JobMail
      BY <1>0, <3>2 DEF Queues
    <3>5. tag \in Nat /\ Serving /\ tag <= taken
      BY <1>0, <3>1, <3>2, <3>3, <3>4 DEF JobMail, Jobs, Serving
    <3> QED BY <1>0, <1>4, <3>2, <3>3, <3>5, SettlesOne DEF TagsKept
  <2> QED BY <1>6, <2>2, <2>3, <2>4, <2>5, <2>6, <2>7, <2>8, <2>9
          DEF TaskStep, StreamStep, HandOver
<1>7. CASE ShutdownStep
  <2>1. CASE Exit
    BY <1>1, <2>1 DEF Exit, Serving
  <2>2. CASE ~ Exit
    <3>1. UNCHANGED << task, hand, settled, taken >>
      BY <1>7, <2>2
         DEF ShutdownStep, CtrlC, MainStep, SendStop, Join, StopStep, HandleStop,
             OnStop, taskVars, brokerVars
    <3> QED BY <1>0, <1>3, <1>7, <3>1, StopTags
  <2> QED BY <2>1, <2>2
<1>8. CASE WorldStep \/ Idle \/ UNCHANGED vars
  <2>1. TagsKept
    BY <1>0, <1>8, WorldTags DEF Idle
  <2>2. CASE CrashRestart
    BY <1>1, <2>2 DEF CrashRestart, Serving
  <2>3. CASE BrokerPushes \/ LoseConnection \/ BrokerCancels \/ UNCHANGED vars
    <3>1. UNCHANGED << task, hand, settled, taken >>
      BY <2>3
         DEF BrokerPushes, Push, LoseConnection, BrokerCancels, CloseChannel,
             CancelConsumer, taskVars, vars, brokerVars
    <3> QED BY <1>3, <2>1, <3>1
  <2> QED BY <1>8, <2>2, <2>3 DEF WorldStep, Idle
<1> QED BY <1>5, <1>6, <1>7, <1>8, NextByActor

\* While the process has one connection, what is on its way is not settled.
THEOREM WayUnsettledInvariant ==
    ASSUME MaxConn = 1
    PROVE  Spec => []WayUnsettled
<1>1. Init => WayUnsettled
  BY DEF Init, WayUnsettled, Serving
<1>2. TypeInv /\ MailInv /\ CommandsOnly /\ TrackInv /\ TagInv /\ WayUnsettled
          /\ [Next]_vars => WayUnsettled'
  BY WayUnsettledInductive
<1> QED BY <1>1, <1>2, TypeInvariant, SettlementInvariant, OnePlaceInvariant,
           TrackInvariant, TagInvariant, PTL DEF Spec

LEMMA OutstandingFinite == ASSUME TypeInv PROVE IsFiniteSet(Outstanding)
<1>1. taken \in Int
  BY DEF TypeInv, TypeOK, TaskTypeOK
<1>2. IsFiniteSet(1 .. taken)
  BY <1>1, FS_Interval
<1>3. Outstanding \subseteq 1 .. taken
  BY DEF Outstanding
<1> QED BY <1>2, <1>3, FS_Subset

\* So a consumer that waits for the task has CommandCap + 1 deliveries behind
\* it, one more is in the task's hand, and none of them is settled.
LEMMA WaitingNeeds ==
    ASSUME TypeInv, CommandsOnly, TagInv, WayUnsettled,
           WaitsFor("consumer", "task")
    PROVE  CommandCap + 2 <= Cardinality(Outstanding)
<1> DEFINE last == CommandCap + 1
           tagOf == [i \in 1 .. CommandCap + 2 |->
                        IF i = CommandCap + 2 THEN hand.tag
                        ELSE IF i = last THEN hold["consumer"].job.tag
                        ELSE commands[i].job.tag]
<1>0. /\ CommandCap \in Nat \ {0} /\ Len(commands) = CommandCap
      /\ hold["consumer"] # NoMail /\ task \in {"store", "evaluate"}
      /\ commands \in Seq(JobMail) /\ hold["consumer"] \in JobMail
      /\ taken \in Nat /\ hand \in Jobs /\ hand.tag = taken
      /\ "consumer" \in Actors /\ "command" \in Slots /\ "hold" \in Slots
  BY BoundsAssumption
     DEF WaitsFor, Actors, Slots, TypeInv, HandInv, TypeOK, ActorsTypeOK,
         TaskTypeOK, TagInv, HandFresh
<1>1. \A mail \in JobMail : mail.job.tag \in Nat \ {0}
  BY DEF JobMail, Jobs
<1>2. ASSUME NEW i \in 1 .. CommandCap
      PROVE  /\ Carries("command", "consumer", i)
             /\ TagAt("command", "consumer", i) = commands[i].job.tag
             /\ commands[i].job.tag \in Nat \ {0}
  <2>1. commands[i] \in JobMail /\ OnItsWay(commands[i])
    BY <1>0 DEF CommandsOnly, IsCommand, OnItsWay, JobKinds
  <2> QED BY <1>0, <1>1, <2>1 DEF Carries, TagAt, MailAt
<1>3. /\ Carries("hold", "consumer", 0)
      /\ TagAt("hold", "consumer", 0) = hold["consumer"].job.tag
      /\ hold["consumer"].job.tag \in Nat \ {0}
  BY <1>0, <1>1
     DEF CommandsOnly, IsCommand, OnItsWay, JobKinds, Carries, TagAt, MailAt
<1>4. /\ \A i \in 1 .. CommandCap : tagOf[i] = commands[i].job.tag
      /\ tagOf[last] = hold["consumer"].job.tag
      /\ tagOf[CommandCap + 2] = taken
      /\ \A i \in 1 .. CommandCap + 2 :
             i \in 1 .. CommandCap \/ i = last \/ i = CommandCap + 2
  BY <1>0
<1> HIDE DEF tagOf
<1>5. \A i \in 1 .. CommandCap + 1 :
          tagOf[i] \in Nat \ {0} /\ Tagged(tagOf[i])
  BY <1>0, <1>2, <1>3, <1>4 DEF Tagged
<1>6. \A i \in 1 .. CommandCap + 1 : tagOf[i] < taken
  BY <1>0, <1>5 DEF TagInv, HandFresh
<1>7. \A i \in 1 .. CommandCap + 2 : tagOf[i] \in 1 .. taken
  <2>1. taken \in Nat \ {0}
    BY <1>0 DEF Jobs
  <2> QED BY <1>0, <1>4, <1>5, <1>6, <2>1
<1>8. \A i, j \in 1 .. CommandCap + 2 : tagOf[i] = tagOf[j] => i = j
  <2>1. \A i, j \in 1 .. CommandCap : tagOf[i] = tagOf[j] => i = j
    BY <1>0, <1>2, <1>4 DEF TagInv, Unique
  <2>2. \A i \in 1 .. CommandCap : tagOf[i] # tagOf[last]
    BY <1>0, <1>2, <1>3, <1>4 DEF TagInv, Unique
  <2>3. \A i \in 1 .. CommandCap + 1 : tagOf[i] # tagOf[CommandCap + 2]
    BY <1>0, <1>4, <1>5, <1>6
  <2> QED BY <1>0, <1>4, <2>1, <2>2, <2>3
<1>9. tagOf \in Injection(1 .. CommandCap + 2, Outstanding)
  <2>1. Serving /\ \A i \in 1 .. CommandCap + 2 : OnWay(tagOf[i])
    BY <1>0, <1>4, <1>5 DEF Serving, OnWay, InHand
  <2>2. \A i \in 1 .. CommandCap + 2 : tagOf[i] \in Outstanding
    BY <1>7, <2>1 DEF WayUnsettled, Outstanding
  <2>3. tagOf \in [1 .. CommandCap + 2 -> Outstanding]
    BY <2>2 DEF tagOf
  <2> QED BY <1>8, <2>3 DEF Injection, IsInjective
<1>10. Cardinality(1 .. CommandCap + 2) <= Cardinality(Outstanding)
  BY <1>9, OutstandingFinite, FS_Injection
<1>11. Cardinality(1 .. CommandCap + 2) = CommandCap + 2
  BY <1>0, FS_Interval
<1> QED BY <1>10, <1>11

\* The deadlock that the run wait_cycle finds needs a backlog: in every set of
\* processes in which everyone waits for another one, the AMQP task has taken at
\* least CommandCap + 2 deliveries that are still to be settled, whatever the
\* capacity of the mailboxes and whatever faults occur, also after the channel
\* has broken.
THEOREM BacklogBlocks ==
    ASSUME MaxConn = 1
    PROVE  Spec => []BlocksOnlyUnderBacklog
<1>1. ASSUME TypeInv, CommandsOnly, TagInv, WayUnsettled
      PROVE  BlocksOnlyUnderBacklog
  <2>1. ASSUME WaitsFor("consumer", "task")
        PROVE  Cardinality(Outstanding) >= CommandCap + 2
    <3>1. CommandCap + 2 <= Cardinality(Outstanding)
      BY <1>1, <2>1, WaitingNeeds
    <3>2. Cardinality(Outstanding) \in Nat /\ CommandCap \in Nat
      BY <1>1, OutstandingFinite, FS_CardinalityType, BoundsAssumption
    <3> QED BY <3>1, <3>2
  <2>2. /\ \A q : WaitsFor("consumer", q) => q = "task"
        /\ \A q : WaitsFor("sink", q) => q = "consumer"
        /\ \A q : WaitsFor("engine", q) => q = "sink"
        /\ \A q : WaitsFor("task", q) => q \in {"consumer", "engine"}
    BY DEF WaitsFor, Actors
  <2>3. ASSUME ~ WaitsFor("consumer", "task") PROVE NoWaitCycle
    <3> SUFFICES ASSUME NEW S \in (SUBSET Processes) \ {{}},
                        \A p \in S : \E q \in S : WaitsFor(p, q)
                 PROVE  FALSE
      BY DEF NoWaitCycle
    <3>1. "consumer" \notin S
      BY <2>2, <2>3
    <3>2. "sink" \notin S
      BY <2>2, <3>1
    <3>3. "engine" \notin S
      BY <2>2, <3>2
    <3>4. "task" \notin S
      BY <2>2, <3>1, <3>3
    <3> QED BY <3>1, <3>2, <3>3, <3>4 DEF Processes, Actors
  <2> QED BY <2>1, <2>3 DEF BlocksOnlyUnderBacklog
<1> QED BY <1>1, TypeInvariant, OnePlaceInvariant, TagInvariant,
           WayUnsettledInvariant, PTL
=============================================================================
