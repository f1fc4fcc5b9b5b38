------------------------------ MODULE Messages ------------------------------
(***************************************************************************)
(* What travels through fraud-guard: the messages of the three actors      *)
(* (crates/app/src/actors/messages.rs) and the two commands the consumer   *)
(* actor sends to its AMQP task (AckCommand in                             *)
(* crates/api/src/amqp/amqp_consumer.rs).                                  *)
(*                                                                         *)
(* All of them name a delivery by its correlation id, which is the AMQP    *)
(* delivery tag and nothing else.  The model carries along, in a `job',    *)
(* which message the tag was given to and on which connection; of those    *)
(* two the code knows the message only while it is evaluated and stored,   *)
(* and the connection never.  No guard in the model reads them where the   *)
(* code could not.                                                         *)
(***************************************************************************)
EXTENDS Naturals

CONSTANT Msgs           \* the messages published to the work queue

Jobs == [tag : Nat \ {0}, msg : Msgs, conn : Nat \ {0}]
NoJob == [tag |-> 0]

\* StoreDelivery, EvaluateTransactionRequest, PersistResults and AckMessage
\* (by its result); then the two forms of AckCommand.
JobKinds == {"Store", "Evaluate", "Persist", "Ok", "Err", "Ack", "Nack"}
JobMail == [kind : JobKinds, job : Jobs]

\* StartConsuming, and the stop signal of stop_gracefully.
Signals == [kind : {"Start", "Stop"}]

Mail == JobMail \cup Signals

MailOf(kind, job) == [kind |-> kind, job |-> job]
Start == [kind |-> "Start"]
Stop == [kind |-> "Stop"]
NoMail == [kind |-> "None"]
=============================================================================
