------------------------------ MODULE Delivery ------------------------------
(***************************************************************************)
(* What fraud-guard owes the publisher of a message, whatever happens to   *)
(* queues, connections and processes on the way: it is settled at most     *)
(* once; acked only when its transaction is stored; and dead-lettered only *)
(* when it cannot be read or handling it has failed.  Reality adds one     *)
(* exception, and the specification names it: a message may be settled by  *)
(* mistake, and is a stray then.                                           *)
(*                                                                         *)
(* Storing may be repeated, as may failing, and neither excludes the       *)
(* other: a message that was not settled comes again.                      *)
(***************************************************************************)
CONSTANTS Msgs, Parsable

VARIABLES
    stored,             \* messages whose transaction is in the database
    failed,             \* messages whose handling or storing has failed
    acked, dead,        \* messages acknowledged, and dead-lettered
    stray               \* messages settled on the result of another one

deliveryVars == << stored, failed, acked, dead, stray >>

DeliveryInit ==
    /\ stored = {} /\ failed = {}
    /\ acked = {} /\ dead = {}
    /\ stray = {}

Store(m) ==
    /\ m \in Parsable
    /\ stored' = stored \cup {m}
    /\ UNCHANGED << failed, acked, dead, stray >>

\* A failure may leave the transaction stored: a COMMIT without an answer.
Fail(m) ==
    /\ m \in Parsable
    /\ failed' = failed \cup {m}
    /\ stored' \in {stored, stored \cup {m}}
    /\ UNCHANGED << acked, dead, stray >>

Unsettled == Msgs \ (acked \cup dead)

Ack(m) ==
    /\ m \in Unsettled \cap stored
    /\ acked' = acked \cup {m}
    /\ UNCHANGED << stored, failed, dead, stray >>

DeadLetter(m) ==
    /\ m \in Unsettled \cap ((Msgs \ Parsable) \cup failed)
    /\ dead' = dead \cup {m}
    /\ UNCHANGED << stored, failed, acked, stray >>

\* It fails, and is dead-lettered for it at once.
Refuse(m) ==
    /\ m \in Unsettled \cap Parsable
    /\ failed' = failed \cup {m}
    /\ dead' = dead \cup {m}
    /\ UNCHANGED << stored, acked, stray >>

Mistake(m) ==
    /\ m \in Unsettled
    /\ stray' = stray \cup {m}
    /\ \/ acked' = acked \cup {m} /\ UNCHANGED dead
       \/ dead' = dead \cup {m} /\ UNCHANGED acked
    /\ UNCHANGED << stored, failed >>

DeliveryNext ==
    \E m \in Msgs :
        Store(m) \/ Fail(m) \/ Ack(m) \/ DeadLetter(m) \/ Refuse(m) \/ Mistake(m)

DeliverySpec == DeliveryInit /\ [][DeliveryNext]_deliveryVars
=============================================================================
