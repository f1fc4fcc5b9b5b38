----------------------------- MODULE SinkStore ------------------------------
(***************************************************************************)
(* PostgresSinkRepository (crates/storage/src/postgres/sink_repo.rs): one  *)
(* transaction and its decision are inserted in one database transaction,  *)
(* tried up to MAX_ATTEMPTS times.                                         *)
(*                                                                         *)
(* The sink actor has one call under way.  An attempt that fails leaves    *)
(* its session behind: the server still has to notice, and if the COMMIT   *)
(* was on its way it may yet carry it out, while the next attempt, or the  *)
(* next process, is inserting the same rows.                               *)
(***************************************************************************)
EXTENDS Naturals, FiniteSets

CONSTANTS
    Txs,                \* transaction ids
    Contents,           \* what is stored of one: its data and the decision
    Sessions            \* bound: sessions the server has at any one time

MaxAttempts == 3        \* MAX_ATTEMPTS

VARIABLES
    phase,              \* where the call is; "idle" when there is none
    req,                \* the request of the call; the last one when idle
    attempt,            \* the loop's counter
    mine,               \* the session of the attempt
    session,            \* what the server knows of each session
    transactions,       \* committed rows of the tables
    decisions,
    told                \* history: requests answered with Ok

callVars == << phase, req, attempt, mine >>
tables == << transactions, decisions >>
vars == << callVars, session, tables, told >>

Requests == [tx : Txs, content : Contents]

Phases == {"idle", "begin", "transaction", "decision", "commit", "answer",
           "backoff"}

\* The call has a session of its own.
Attached == phase \in {"transaction", "decision", "commit", "answer"}

NoSession == [status |-> "idle", txs |-> {}, decs |-> {}]

TypeOK ==
    /\ phase \in Phases
    /\ req \in Requests
    /\ attempt \in 1 .. MaxAttempts
    /\ mine \in Sessions
    /\ session \in [Sessions -> [status : {"idle", "open", "committing"},
                                 txs : SUBSET Requests,
                                 decs : SUBSET Requests]]
    /\ transactions \in SUBSET Requests
    /\ decisions \in SUBSET Requests
    /\ told \in SUBSET Requests

Init ==
    /\ phase = "idle"
    /\ req \in Requests
    /\ attempt = 1
    /\ mine \in Sessions
    /\ session = [s \in Sessions |-> NoSession]
    /\ transactions = {}
    /\ decisions = {}
    /\ told = {}

-----------------------------------------------------------------------------
(* One attempt.                                                            *)

Has(rows, tx) == \E r \in rows : r.tx = tx

\* An INSERT waits while another session has inserted the same key and has
\* not ended.
TxFree == \A s \in Sessions \ {mine} : ~ Has(session[s].txs, req.tx)
DecFree == \A s \in Sessions \ {mine} : ~ Has(session[s].decs, req.tx)

\* The call, made by the sink actor with what the engine sent it.
Take(r) ==
    /\ phase = "idle"
    /\ req' = r
    /\ attempt' = 1
    /\ phase' = "begin"
    /\ UNCHANGED << mine, session, tables, told >>

\* pool.begin().
Begin(s) ==
    /\ phase = "begin"
    /\ session[s].status = "idle"
    /\ session' = [session EXCEPT ![s].status = "open"]
    /\ mine' = s
    /\ phase' = "transaction"
    /\ UNCHANGED << req, attempt, tables, told >>

\* Mutant: executed on the pool, not in the database transaction.
InsertTransactionAutocommits ==
    /\ phase = "transaction"
    /\ TxFree
    /\ transactions' = IF Has(transactions, req.tx) THEN transactions
                       ELSE transactions \cup {req}
    /\ phase' = "decision"
    /\ UNCHANGED << req, attempt, mine, session, decisions, told >>

\* INSERT INTO transactions .. ON CONFLICT DO NOTHING.
InsertTransaction ==
    /\ phase = "transaction"
    /\ TxFree
    /\ session' = IF Has(transactions, req.tx) THEN session
                  ELSE [session EXCEPT ![mine].txs = @ \cup {req}]
    /\ phase' = "decision"
    /\ UNCHANGED << req, attempt, mine, tables, told >>

\* INSERT INTO decisions .. ON CONFLICT DO NOTHING.
InsertDecision ==
    /\ phase = "decision"
    /\ DecFree
    /\ session' = IF Has(decisions, req.tx) THEN session
                  ELSE [session EXCEPT ![mine].decs = @ \cup {req}]
    /\ phase' = "commit"
    /\ UNCHANGED << req, attempt, mine, tables, told >>

\* dbtransaction.commit(): the COMMIT is sent.
SendCommit ==
    /\ phase = "commit"
    /\ session' = [session EXCEPT ![mine].status = "committing"]
    /\ phase' = "answer"
    /\ UNCHANGED << req, attempt, mine, tables, told >>

\* Mutant: the call does not wait for the COMMIT to be carried out.
ReturnOkEarly ==
    /\ phase = "answer"
    /\ told' = told \cup {req}
    /\ phase' = "idle"
    /\ UNCHANGED << req, attempt, mine, session, tables >>

\* The COMMIT was carried out: the call returns Ok.
ReturnOk ==
    /\ phase = "answer"
    /\ session[mine].status = "idle"
    /\ told' = told \cup {req}
    /\ phase' = "idle"
    /\ UNCHANGED << req, attempt, mine, session, tables >>

-----------------------------------------------------------------------------
(* Failure and retry.                                                      *)

\* Mutant: one attempt too many.
AttemptFailsLate ==
    /\ phase = "begin" \/ Attached
    /\ phase' = IF attempt <= MaxAttempts THEN "backoff" ELSE "idle"
    /\ UNCHANGED << req, attempt, mine, session, tables, told >>

\* A statement, or the connection, fails; so may a COMMIT that was carried
\* out.  The session is left behind as it is.  After the last attempt the
\* call returns Err.
AttemptFails ==
    /\ phase = "begin" \/ Attached
    /\ phase' = IF attempt < MaxAttempts THEN "backoff" ELSE "idle"
    /\ UNCHANGED << req, attempt, mine, session, tables, told >>

\* Mutant: the attempts are not counted.
RetryUncounted ==
    /\ phase = "backoff"
    /\ phase' = "begin"
    /\ UNCHANGED << req, attempt, mine, session, tables, told >>

\* The end of the sleep.
Retry ==
    /\ phase = "backoff"
    /\ attempt' = attempt + 1
    /\ phase' = "begin"
    /\ UNCHANGED << req, mine, session, tables, told >>

\* The process dies; the next one starts without a call.
Crash ==
    /\ phase # "idle"
    /\ phase' = "idle"
    /\ UNCHANGED << req, attempt, mine, session, tables, told >>

-----------------------------------------------------------------------------
(* The database server.                                                    *)

\* It carries out a COMMIT, whether or not the caller still waits for it.
ServerCommits(s) ==
    /\ session[s].status = "committing"
    /\ transactions' = transactions \cup session[s].txs
    /\ decisions' = decisions \cup session[s].decs
    /\ session' = [session EXCEPT ![s] = NoSession]
    /\ UNCHANGED << callVars, told >>

\* It ends a session that was left behind, and its rows are gone.
ServerAborts(s) ==
    /\ session[s].status # "idle"
    /\ ~ (Attached /\ s = mine)
    /\ session' = [session EXCEPT ![s] = NoSession]
    /\ UNCHANGED << callVars, tables, told >>

ServerEnds(s) == ServerCommits(s) \/ ServerAborts(s)

-----------------------------------------------------------------------------

Attempt ==
    \/ \E s \in Sessions : Begin(s)
    \/ InsertTransaction \/ InsertDecision \/ SendCommit \/ ReturnOk

Next ==
    \/ \E r \in Requests : Take(r)
    \/ Attempt \/ AttemptFails \/ Retry \/ Crash
    \/ \E s \in Sessions : ServerEnds(s)

Spec == Init /\ [][Next]_vars

(***************************************************************************)
(* Fairness: the call makes progress whenever it can, the sleep ends, and  *)
(* the server ends every session that was left behind, at the latest when  *)
(* it finds the connection dead.  Failures are never fair.                 *)
(***************************************************************************)
Fairness ==
    /\ WF_vars(Attempt)
    /\ WF_vars(Retry)
    /\ \A s \in Sessions : WF_vars(ServerEnds(s))

FairSpec == Spec /\ Fairness

-----------------------------------------------------------------------------
(* Properties.                                                             *)

\* The two tables agree: a transaction is stored if and only if its decision
\* is, and both are from the same request, although several attempts for one
\* transaction, with different contents, may be open at the server.
PairedRows == transactions = decisions

\* The call keeps the promise of Ledger: whatever is left behind by attempts
\* that failed, an entry is made once and never changed, and Ok is answered
\* only when there is one.
L == INSTANCE Ledger WITH ledger <- decisions

KeepsLedger == L!LedgerSpec

\* The call returns in the end, also when every attempt fails and when a
\* session left behind holds the rows it wants to insert.
CallReturns == phase # "idle" ~> phase = "idle"
=============================================================================
