----------------------------- MODULE MCPipeline -----------------------------
(***************************************************************************)
(* Instances of Pipeline for TLC.  The configurations give the constants   *)
(* their values; here are the symmetry of the messages that parse and a    *)
(* broker that keeps its messages in order.                                *)
(***************************************************************************)
EXTENDS Pipeline, TLC

Symmetry == Permutations(Parsable)

\* RabbitMQ puts requeued messages back to their places in the queue: with one
\* consumer, the next to be pushed is the first one published of those that
\* are ready.  Messages are numbers here, in the order of their publication.
PushesInOrder ==
    Len(sent') > Len(sent) => \A m \in ready : sent'[Len(sent')] <= m

OrderedSpec == Init /\ [][Next /\ PushesInOrder]_vars

\* When the broker can push at all, it can push the first one.
OrderedFairSpec == OrderedSpec /\ Fairness
=============================================================================
