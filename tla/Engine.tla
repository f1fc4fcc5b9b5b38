------------------------------- MODULE Engine -------------------------------
(***************************************************************************)
(* Which rules a transaction is decided under: the rules table, the task   *)
(* that reloads it (crates/app/src/rules_cache.rs) and the engine actor    *)
(* with its snapshot (crates/app/src/actors/engine.rs).                    *)
(*                                                                         *)
(* The engine's mailbox brings new rules and transactions in one order,    *)
(* and the table changes and time passes meanwhile, so a decision is made  *)
(* under rules that were read some time ago, about a transaction with a    *)
(* timestamp of its own.  The loop over the rules awaits each of them, so  *)
(* all of that also goes on in the middle of an evaluation.                *)
(***************************************************************************)
EXTENDS Rules, FiniteSets

CONSTANTS
    Rows,               \* the rows that may be in the rules table
    Txs,                \* the transactions that may arrive
    MailboxCap,         \* capacity of the engine's mailbox (kameo: 64)
    MaxTime,            \* bound: the clock stops here
    MaxEdits            \* bound: changes made to the table

ASSUME EngineBounds ==
    /\ MailboxCap \in Nat \ {0}
    /\ MaxTime \in Nat
    /\ MaxEdits \in Nat

\* amount is an i64.
ASSUME TxsAssumption == \A tx \in Txs : tx.amount \in Int

VARIABLES
    now,                \* the time
    rows,               \* the rules table
    edits,              \* changes made to it
    refresher,          \* the reload task, with what it has loaded
    box,                \* the engine's mailbox
    engine,             \* its life cycle
    snapshot,           \* EngineActor.rules, and the load they came from
    work,               \* the evaluation the handler is in the middle of
    decided             \* outcome of the last one: decision, tx and rules

engineVars == << engine, snapshot, work, decided >>
vars == << now, rows, edits, refresher, box, engineVars >>

\* code is the primary key.
Tables ==
    { t \in SUBSET Rows : /\ IsFiniteSet(t)
                          /\ \A r, q \in t : r.code = q.code => r = q }

\* A load: the list, and (history) when it was made and on which table.
LoadsNow ==
    { [rules |-> rules, at |-> now, from |-> rows] : rules \in Loads(rows, now) }

Snapshots == [rules : Seq(Rows), at : 0 .. MaxTime, from : Tables]

Waiting == [at |-> "tick"]
Telling(load) == [at |-> "tell", load |-> load]
Ended == [at |-> "ended"]

Update(load) == [kind |-> "UpdateRules", load |-> load]
Evaluate(tx) == [kind |-> "Evaluate", tx |-> tx]
Stop == [kind |-> "Stop"]

NoWork == [tx |-> "none"]

\* An evaluation: the next rule to look at, what has been triggered so far,
\* and (history) the rules the engine had when it took the transaction.
WorkOn(tx) ==
    [tx |-> tx, load |-> snapshot, next |-> 1, triggered |-> << >>]

NoDecision == [kind |-> "none"]
Decided(tx, load, decision) ==
    [kind |-> "made", tx |-> tx, load |-> load, decision |-> decision]

TypeOK ==
    /\ now \in 0 .. MaxTime
    /\ rows \in Tables
    /\ edits \in 0 .. MaxEdits
    /\ \/ refresher \in {Waiting, Ended}
       \/ refresher.at = "tell" /\ refresher.load \in Snapshots
    /\ Len(box) <= MailboxCap
    /\ \A i \in 1 .. Len(box) :
        \/ box[i].kind = "UpdateRules" /\ box[i].load \in Snapshots
        \/ box[i] \in { Evaluate(tx) : tx \in Txs } \cup {Stop}
    /\ engine \in {"running", "stopped"}
    /\ snapshot \in Snapshots
    /\ \/ work = NoWork
       \/ /\ work.tx \in Txs /\ work.load \in Snapshots
          /\ work.next \in Nat \ {0}
          /\ work.triggered \in Seq(Rows)
    /\ decided = NoDecision \/ decided.tx \in Txs

\* main loads the rules before it starts anything, and gives up if it cannot.
Init ==
    /\ now = 0
    /\ rows \in Tables
    /\ ~ LoadFailsOn(rows, now)
    /\ edits = 0
    /\ refresher = Waiting
    /\ box = << >>
    /\ engine = "running"
    /\ snapshot \in LoadsNow
    /\ work = NoWork
    /\ decided = NoDecision

-----------------------------------------------------------------------------
(* The reload task.                                                        *)

\* A tick of the interval; the load succeeds.
LoadSucceeds ==
    /\ refresher = Waiting
    /\ ~ LoadFailsOn(rows, now)
    /\ \E load \in LoadsNow : refresher' = Telling(load)
    /\ UNCHANGED << now, rows, edits, box, engineVars >>

\* Mutant: the loop ends on a failed load.
LoadFailsBreaks ==
    /\ refresher = Waiting
    /\ refresher' = Ended
    /\ UNCHANGED << now, rows, edits, box, engineVars >>

\* It fails, on a bad row or on the database: only logged.
LoadFails ==
    /\ refresher = Waiting
    /\ UNCHANGED vars

\* Mutant: an unbounded mailbox.
CanTellUnbounded == engine = "running"

\* tell().await gets through: the engine runs and its mailbox has room.
CanTell == engine = "running" /\ Len(box) < MailboxCap

\* Mutant: the update is told from a task of its own and may be overtaken by
\* a later one, here by one that still waits in the mailbox.
TellUpdateUnordered ==
    /\ refresher.at = "tell"
    /\ CanTell
    /\ box' \in { Append(box, Update(refresher.load)),
                  << Update(refresher.load) >> \o box }
    /\ refresher' = Waiting
    /\ UNCHANGED << now, rows, edits, engineVars >>

TellUpdate ==
    /\ refresher.at = "tell"
    /\ CanTell
    /\ box' = Append(box, Update(refresher.load))
    /\ refresher' = Waiting
    /\ UNCHANGED << now, rows, edits, engineVars >>

\* Mutant: the error is only logged.
TellUpdateFailsGoesOn ==
    /\ refresher.at = "tell"
    /\ engine = "stopped"
    /\ refresher' = Waiting
    /\ UNCHANGED << now, rows, edits, box, engineVars >>

\* The engine is gone: the loop ends.
TellUpdateFails ==
    /\ refresher.at = "tell"
    /\ engine = "stopped"
    /\ refresher' = Ended
    /\ UNCHANGED << now, rows, edits, box, engineVars >>

-----------------------------------------------------------------------------
(* The engine actor.                                                       *)

\* Mutant: mail is handled while an evaluation is under way, as it would be by
\* several workers that share the rules.
HandlesAnytime(kind) ==
    /\ engine = "running"
    /\ box # << >>
    /\ Head(box).kind = kind

\* One message at a time: the next waits for the end of the handler.
Handles(kind) ==
    /\ engine = "running"
    /\ work = NoWork
    /\ box # << >>
    /\ Head(box).kind = kind

HandleUpdateRules ==
    /\ Handles("UpdateRules")
    /\ snapshot' = Head(box).load
    /\ box' = Tail(box)
    /\ UNCHANGED << now, rows, edits, refresher, engine, work, decided >>

\* EvaluateTransactionRequest of a transaction that does not pass validate.
DeclineInvalid ==
    /\ Handles("Evaluate")
    /\ ~ Valid(Head(box).tx)
    /\ decided' = Decided(Head(box).tx, snapshot, Decline)
    /\ box' = Tail(box)
    /\ UNCHANGED << now, rows, edits, refresher, engine, snapshot, work >>

\* Of one that does: the loop begins.
BeginEvaluation ==
    /\ Handles("Evaluate")
    /\ Valid(Head(box).tx)
    /\ work' = WorkOn(Head(box).tx)
    /\ decided' = NoDecision
    /\ box' = Tail(box)
    /\ UNCHANGED << now, rows, edits, refresher, engine, snapshot >>

\* rule.evaluate(..).await on the next rule the engine has; anything else than
\* Triggered is passed over.
EvaluateRule ==
    /\ work # NoWork
    /\ work.next <= Len(snapshot.rules)
    /\ LET rule == snapshot.rules[work.next]
       IN  work' = [work EXCEPT
                       !.next = @ + 1,
                       !.triggered = IF Triggers(rule, work.tx)
                                     THEN Append(@, rule) ELSE @]
    /\ UNCHANGED << now, rows, edits, refresher, box, engine, snapshot, decided >>

\* The loop is at its end.
Conclude ==
    /\ work # NoWork
    /\ work.next > Len(snapshot.rules)
    /\ decided' = Decided(work.tx, work.load,
                          IF work.triggered = << >> THEN Accept
                          ELSE Review(work.triggered))
    /\ work' = NoWork
    /\ UNCHANGED << now, rows, edits, refresher, box, engine, snapshot >>

HandleStop ==
    /\ Handles("Stop")
    /\ engine' = "stopped"
    /\ box' = << >>
    /\ UNCHANGED << now, rows, edits, refresher, snapshot, work, decided >>

-----------------------------------------------------------------------------
(* Around them.                                                            *)

\* The AMQP task hands over a transaction; main asks for the stop.
Arrive ==
    /\ CanTell
    /\ \E mail \in { Evaluate(tx) : tx \in Txs } \cup {Stop} :
           box' = Append(box, mail)
    /\ UNCHANGED << now, rows, edits, refresher, engineVars >>

EditTable ==
    /\ edits < MaxEdits
    /\ edits' = edits + 1
    /\ rows' \in Tables
    /\ UNCHANGED << now, refresher, box, engineVars >>

TimePasses ==
    /\ now < MaxTime
    /\ now' = now + 1
    /\ UNCHANGED << rows, edits, refresher, box, engineVars >>

Tell == TellUpdate \/ TellUpdateFails
HandleEvaluate == DeclineInvalid \/ BeginEvaluation \/ EvaluateRule \/ Conclude
Handle == HandleUpdateRules \/ HandleEvaluate \/ HandleStop

Next ==
    \/ LoadSucceeds \/ LoadFails \/ Tell
    \/ Handle
    \/ Arrive \/ EditTable \/ TimePasses

Spec == Init /\ [][Next]_vars

(***************************************************************************)
(* Fairness: the interval ticks, the engine handles its mail, a waiting    *)
(* tell gets its turn for room in the mailbox (the channel queues senders  *)
(* in order), and the database does not fail for ever.                     *)
(***************************************************************************)
Fairness ==
    /\ SF_vars(LoadSucceeds)
    /\ SF_vars(Tell)
    /\ WF_vars(Handle)

FairSpec == Spec /\ Fairness

-----------------------------------------------------------------------------
(* Properties.                                                             *)

\* The decision on a transaction is the one that a single reading of the table
\* calls for: Review lists, by priority, exactly the rows that were in force
\* both when they were read and at the time of the transaction, whose params
\* make sense and that match it; a malformed rule changes nothing for the
\* others, and changes to the table in the meantime change nothing at all.
InForce(row, at) ==
    row.enabled /\ row.valid_from <= at
                /\ (row.valid_until = Never \/ row.valid_until > at)

DecisionJustified ==
    decided # NoDecision =>
        LET tx == decided.tx
            load == decided.load
            guilty == { row \in load.from :
                            /\ InForce(row, load.at)
                            /\ InForce(row, tx.timestamp)
                            /\ Parses(row) /\ Matches(row, tx) }
        IN  IF tx.amount <= 0 \/ tx.source = tx.destination
            THEN decided.decision = Decline
            ELSE IF guilty = {} THEN decided.decision = Accept
            ELSE \E listed \in SetToSeqs(guilty) :
                    ByPriority(listed) /\ decided.decision = Review(listed)

\* The engine never goes back to rules that were read earlier than those it
\* has, however long an update waits for room in the mailbox.
SnapshotsInOrder == [][snapshot'.at >= snapshot.at]_vars

\* When the table is left alone, the engine ends up with what it says, unless
\* a row of an unknown type makes every load fail.
CatchesUp ==
    <>[] \/ engine = "stopped"
         \/ LoadFailsOn(rows, now)
         \/ ToSet(snapshot.rules) = Selected(rows, now)

\* The reload task does not outlive the engine it reports to.
RefresherEnds ==
    engine = "stopped" ~> (refresher = Ended \/ LoadFailsOn(rows, now))
=============================================================================
