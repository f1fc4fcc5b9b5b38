----------------------------- MODULE Mailboxes -----------------------------
(***************************************************************************)
(* The kameo actors of fraud-guard: a bounded mailbox each, one message    *)
(* handled at a time, and a handler that keeps the actor busy across its   *)
(* awaits.  kameo is a dependency, not part of the repository; the module  *)
(* states what crates/app/src relies on: Spawn::spawn gives a bounded      *)
(* mailbox, tell().await waits for room in it, a stop signal queues behind *)
(* the messages sent before it, and a tell to a stopped actor is an error. *)
(***************************************************************************)
EXTENDS Messages, Sequences

CONSTANT MailboxCap     \* capacity of an actor's mailbox (kameo: 64)

Actors == {"consumer", "engine", "sink"}

VARIABLES
    box,                \* mailbox of each actor, oldest message first
    hold,               \* what the handler holds across an await, or NoMail
    actor               \* life cycle of each actor

actorVars == << box, hold, actor >>

ActorsTypeOK ==
    /\ box \in [Actors -> Seq(Mail)]
    /\ hold \in [Actors -> JobMail \cup {NoMail}]
    /\ actor \in [Actors -> {"running", "stopping", "stopped"}]

\* main.rs spawns the three actors and tells the consumer to start.
ActorsInit ==
    /\ box = [a \in Actors |-> IF a = "consumer" THEN << Start >> ELSE << >>]
    /\ hold = [a \in Actors |-> NoMail]
    /\ actor = [a \in Actors |-> "running"]

-----------------------------------------------------------------------------

\* tell(mail).await returns Ok: the receiver exists and its mailbox has room.
CanTell(a) == actor[a] # "stopped" /\ Len(box[a]) < MailboxCap

\* tell(mail).await returns Err.  Once an actor has taken its stop signal the
\* mailbox may or may not still accept: both outcomes are allowed.
TellErr(a) == actor[a] # "running"

Posted(a, mail) == [box EXCEPT ![a] = Append(@, mail)]

\* The actor is free and the next message in its mailbox is of this kind.
Handles(a, kind) ==
    /\ actor[a] = "running"
    /\ hold[a] = NoMail
    /\ box[a] # << >>
    /\ Head(box[a]).kind = kind

Popped(a) == [box EXCEPT ![a] = Tail(@)]

\* The stop signal ends the message loop.
TakeStop(a) ==
    /\ Handles(a, "Stop")
    /\ box' = Popped(a)
    /\ actor' = [actor EXCEPT ![a] = "stopping"]
    /\ UNCHANGED hold

\* on_stop has run: whatever is left in the mailbox is dropped with it.
FinishStop(a) ==
    /\ actor[a] = "stopping"
    /\ actor' = [actor EXCEPT ![a] = "stopped"]
    /\ box' = [box EXCEPT ![a] = << >>]
    /\ UNCHANGED hold
=============================================================================
