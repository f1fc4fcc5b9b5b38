-------------------------- MODULE SinkStoreProofs ---------------------------
(***************************************************************************)
(* The store keeps its two tables paired and implements Ledger, for any    *)
(* number of transactions, contents and sessions left at the server.       *)
(***************************************************************************)
EXTENDS SinkStore, TLAPS

\* What a session holds uncommitted: at most one row of transactions, not
\* stored and held by no other session; only complete pairs are committing.
SessionInv ==
    /\ \A s \in Sessions :
        /\ session[s].status = "idle" =>
               session[s].txs = {} /\ session[s].decs = {}
        /\ session[s].status = "committing" => session[s].decs = session[s].txs
        /\ \A p, q \in session[s].txs : p = q
        /\ \A p \in session[s].txs : ~ Has(transactions, p.tx)
    /\ \A s, u \in Sessions :
        s # u => \A p \in session[s].txs : ~ Has(session[u].txs, p.tx)

\* The transaction of the call has its row, stored or in the call's session.
Inserted == Has(transactions, req.tx) \/ session[mine].txs = {req}

\* How far the call's own session is in each phase.
CallInv ==
    /\ phase \in {"transaction", "decision", "commit"} =>
           session[mine].status = "open"
    /\ phase = "transaction" => session[mine].txs = {}
    /\ phase \in {"transaction", "decision"} => session[mine].decs = {}
    /\ phase \in {"decision", "commit", "answer"} =>
           Inserted /\ session[mine].txs \subseteq {req}
    /\ phase = "commit" => session[mine].decs = session[mine].txs
    /\ phase = "answer" => session[mine].status \in {"committing", "idle"}
    /\ phase = "backoff" => attempt < MaxAttempts

\* Ok was answered only for what is stored.
ToldInv == \A r \in told : Has(decisions, r.tx)

StoreInv == TypeOK /\ SessionInv /\ CallInv /\ PairedRows /\ ToldInv

\* Initially nothing is stored and no session is open.
LEMMA InitStoreInv == Init => StoreInv
  <1> SUFFICES ASSUME Init PROVE StoreInv
      OBVIOUS
  <1>1. TypeOK
      BY SMT DEF Init, TypeOK, Phases, MaxAttempts, NoSession, Requests
  <1>2. SessionInv
      BY DEF Init, SessionInv, NoSession, Has
  <1>3. CallInv /\ PairedRows /\ ToldInv
      BY DEF Init, CallInv, PairedRows, ToldInv
  <1> QED BY <1>1, <1>2, <1>3 DEF StoreInv

\* A step that touches neither a session nor a table keeps what is said of
\* them.
LEMMA SessionsUnchanged ==
    ASSUME SessionInv, UNCHANGED << session, tables >>
    PROVE  SessionInv'
  BY DEF SessionInv, Has, tables

\* Each step of the call keeps the invariant.
LEMMA CallStepStoreInv ==
    ASSUME StoreInv,
           \/ \E r \in Requests : Take(r)
           \/ Attempt \/ AttemptFails \/ Retry \/ Crash
    PROVE  StoreInv'
  <1> USE DEF StoreInv, MaxAttempts
  <1>1. ASSUME NEW r \in Requests, Take(r) PROVE StoreInv'
    <2>1. TypeOK'
        BY <1>1, SMT DEF Take, TypeOK, tables, Phases
    <2>2. SessionInv'
        BY <1>1, SessionsUnchanged DEF Take
    <2>3. CallInv' /\ PairedRows' /\ ToldInv'
        BY <1>1 DEF Take, CallInv, PairedRows, ToldInv, Has, tables
    <2> QED BY <2>1, <2>2, <2>3
  <1>2. ASSUME NEW s \in Sessions, Begin(s) PROVE StoreInv'
    <2>1. TypeOK'
        BY <1>2, SMT DEF Begin, TypeOK, tables, Phases
    <2>2. /\ session'[s].status = "open"
          /\ session'[s].txs = {} /\ session'[s].decs = {}
          /\ \A u \in Sessions :
                 /\ session'[u].txs = session[u].txs
                 /\ session'[u].decs = session[u].decs
                 /\ u # s => session'[u] = session[u]
        BY <1>2, SMT DEF Begin, TypeOK, SessionInv
    <2>3. UNCHANGED << transactions, decisions, told, req, attempt >>
          /\ mine' = s /\ phase' = "transaction"
        BY <1>2 DEF Begin, tables
    <2>4. SessionInv'
        BY <2>2, <2>3, SMT DEF SessionInv, Has
    <2>5. CallInv' /\ PairedRows' /\ ToldInv'
        BY <2>2, <2>3 DEF CallInv, PairedRows, ToldInv, Has
    <2> QED BY <2>1, <2>4, <2>5
  <1>3. CASE InsertTransaction
    <2>1. TypeOK'
        BY <1>3, SMT DEF InsertTransaction, TypeOK, tables, Phases
    <2>2. /\ session[mine].status = "open" /\ session[mine].decs = {}
          /\ session[mine].txs = {} /\ mine \in Sessions
        BY <1>3 DEF InsertTransaction, CallInv, TypeOK
    <2>3. /\ \A u \in Sessions : u # mine => session'[u] = session[u]
          /\ session'[mine].status = "open" /\ session'[mine].decs = {}
          /\ session'[mine].txs = IF Has(transactions, req.tx)
                                  THEN {} ELSE {req}
        BY <1>3, <2>2, SMT DEF InsertTransaction, TypeOK
    <2>4. \A u \in Sessions \ {mine} : ~ Has(session[u].txs, req.tx)
        BY <1>3 DEF InsertTransaction, TxFree
    <2>5. UNCHANGED << transactions, decisions, told, req, attempt, mine >>
          /\ phase' = "decision"
        BY <1>3 DEF InsertTransaction, tables
    <2>6. SessionInv'
      <3>1. ASSUME NEW s \in Sessions
            PROVE  /\ session'[s].status = "idle" =>
                        session'[s].txs = {} /\ session'[s].decs = {}
                   /\ session'[s].status = "committing" =>
                        session'[s].decs = session'[s].txs
                   /\ \A p, q \in session'[s].txs : p = q
                   /\ \A p \in session'[s].txs : ~ Has(transactions', p.tx)
          BY <2>3, <2>5, SMT DEF SessionInv, Has
      <3>2. ASSUME NEW s \in Sessions, NEW u \in Sessions, s # u,
                   NEW p \in session'[s].txs
            PROVE  ~ Has(session'[u].txs, p.tx)
          BY <3>2, <2>3, <2>4, SMT DEF SessionInv, Has
      <3> QED BY <3>1, <3>2 DEF SessionInv, Has
    <2>7. CallInv' /\ PairedRows' /\ ToldInv'
        BY <2>3, <2>5 DEF CallInv, Inserted, PairedRows, ToldInv, Has
    <2> QED BY <2>1, <2>6, <2>7
  <1>4. CASE InsertDecision
    <2>1. TypeOK'
        BY <1>4, SMT DEF InsertDecision, TypeOK, tables, Phases
    <2>2. /\ session[mine].status = "open" /\ session[mine].decs = {}
          /\ Inserted /\ session[mine].txs \subseteq {req} /\ mine \in Sessions
        BY <1>4 DEF InsertDecision, CallInv, TypeOK
    <2>3. /\ \A u \in Sessions : /\ session'[u].txs = session[u].txs
                                 /\ session'[u].status = session[u].status
                                 /\ u # mine => session'[u] = session[u]
          /\ session'[mine].decs = IF Has(decisions, req.tx)
                                   THEN {} ELSE {req}
      <3>1. CASE Has(decisions, req.tx)
          BY <1>4, <2>2, <3>1 DEF InsertDecision
      <3>2. CASE ~ Has(decisions, req.tx)
        <4>1. session' = [session EXCEPT
                              ![mine].decs = session[mine].decs \cup {req}]
            BY <1>4, <3>2 DEF InsertDecision
        <4> QED BY <4>1, <2>2, <3>2, SMT DEF TypeOK
      <3> QED BY <3>1, <3>2
    <2>4. UNCHANGED << transactions, decisions, told, req, attempt, mine >>
          /\ phase' = "commit"
        BY <1>4 DEF InsertDecision, tables
    <2>5. session'[mine].decs = session'[mine].txs
      <3>1. CASE Has(transactions, req.tx)
          BY <3>1, <2>2, <2>3 DEF SessionInv, PairedRows
      <3>2. CASE ~ Has(transactions, req.tx)
          BY <3>2, <2>2, <2>3 DEF Inserted, PairedRows
      <3> QED BY <3>1, <3>2
    <2>6. SessionInv'
        BY <2>2, <2>3, <2>4, SMT DEF SessionInv, Has
    <2>7. CallInv' /\ PairedRows' /\ ToldInv'
        BY <2>2, <2>3, <2>4, <2>5
        DEF CallInv, Inserted, PairedRows, ToldInv, Has
    <2> QED BY <2>1, <2>6, <2>7
  <1>5. CASE SendCommit
    <2>1. TypeOK'
        BY <1>5, SMT DEF SendCommit, TypeOK, tables, Phases
    <2>2. /\ session[mine].decs = session[mine].txs
          /\ Inserted /\ session[mine].txs \subseteq {req} /\ mine \in Sessions
        BY <1>5 DEF SendCommit, CallInv, TypeOK
    <2>3. /\ \A u \in Sessions : /\ session'[u].txs = session[u].txs
                                 /\ session'[u].decs = session[u].decs
                                 /\ u # mine => session'[u] = session[u]
          /\ session'[mine].status = "committing"
        BY <1>5, <2>2, SMT DEF SendCommit, TypeOK
    <2>4. UNCHANGED << transactions, decisions, told, req, attempt, mine >>
          /\ phase' = "answer"
        BY <1>5 DEF SendCommit, tables
    <2>5. SessionInv'
        BY <2>2, <2>3, <2>4, SMT DEF SessionInv, Has
    <2>6. CallInv' /\ PairedRows' /\ ToldInv'
        BY <2>2, <2>3, <2>4 DEF CallInv, Inserted, PairedRows, ToldInv, Has
    <2> QED BY <2>1, <2>5, <2>6
  <1>6. CASE ReturnOk
    <2>1. TypeOK'
        BY <1>6, SMT DEF ReturnOk, TypeOK, tables, Phases
    <2>2. SessionInv'
        BY <1>6, SessionsUnchanged DEF ReturnOk
    <2>3. Has(decisions, req.tx)
        BY <1>6 DEF ReturnOk, CallInv, Inserted, SessionInv, PairedRows, TypeOK
    <2>4. CallInv' /\ PairedRows' /\ ToldInv'
        BY <1>6, <2>3 DEF ReturnOk, CallInv, PairedRows, ToldInv, Has, tables
    <2> QED BY <2>1, <2>2, <2>4
  <1>7. CASE AttemptFails
    <2>1. TypeOK'
        BY <1>7, SMT DEF AttemptFails, TypeOK, tables, Phases
    <2>2. SessionInv'
        BY <1>7, SessionsUnchanged DEF AttemptFails
    <2>3. CallInv' /\ PairedRows' /\ ToldInv'
        BY <1>7 DEF AttemptFails, CallInv, PairedRows, ToldInv, Has, tables
    <2> QED BY <2>1, <2>2, <2>3
  <1>8. CASE Retry
    <2>1. TypeOK'
        BY <1>8, SMT DEF Retry, TypeOK, CallInv, tables, Phases
    <2>2. SessionInv'
        BY <1>8, SessionsUnchanged DEF Retry
    <2>3. CallInv' /\ PairedRows' /\ ToldInv'
        BY <1>8 DEF Retry, CallInv, PairedRows, ToldInv, Has, tables
    <2> QED BY <2>1, <2>2, <2>3
  <1>9. CASE Crash
    <2>1. TypeOK'
        BY <1>9, SMT DEF Crash, TypeOK, tables, Phases
    <2>2. SessionInv'
        BY <1>9, SessionsUnchanged DEF Crash
    <2>3. CallInv' /\ PairedRows' /\ ToldInv'
        BY <1>9 DEF Crash, CallInv, PairedRows, ToldInv, Has, tables
    <2> QED BY <2>1, <2>2, <2>3
  <1> QED BY <1>1, <1>2, <1>3, <1>4, <1>5, <1>6, <1>7, <1>8, <1>9 DEF Attempt

\* The server ends a session, the call's own or one left behind.
LEMMA ServerStepStoreInv ==
    ASSUME StoreInv, NEW s \in Sessions, ServerEnds(s)
    PROVE  StoreInv'
  <1> USE DEF StoreInv
  <1>1. /\ session' = [session EXCEPT ![s] = NoSession]
        /\ UNCHANGED << phase, req, attempt, mine, told >>
      BY DEF ServerEnds, ServerCommits, ServerAborts, callVars
  <1>2. /\ \A u \in Sessions : u # s => session'[u] = session[u]
        /\ session'[s].status = "idle"
        /\ session'[s].txs = {} /\ session'[s].decs = {}
      BY <1>1 DEF TypeOK, NoSession
  <1>3. session' \in [Sessions -> [status : {"idle", "open", "committing"},
                                   txs : SUBSET Requests,
                                   decs : SUBSET Requests]]
      BY <1>1, SMT DEF TypeOK, NoSession
  <1>4. CASE ServerCommits(s)
    <2>1. /\ session[s].status = "committing"
          /\ session[s].decs = session[s].txs
          /\ transactions' = transactions \cup session[s].txs
          /\ decisions' = decisions \cup session[s].txs
        BY <1>4 DEF ServerCommits, SessionInv
    <2>2. TypeOK'
        BY <1>1, <1>3, <2>1, SMT DEF TypeOK
    <2>3. SessionInv'
      <3>1. ASSUME NEW u \in Sessions, NEW p \in session'[u].txs
            PROVE  ~ Has(transactions', p.tx)
          BY <1>2, <2>1, SMT DEF SessionInv, Has
      <3>2. ASSUME NEW u \in Sessions
            PROVE  /\ session'[u].status = "idle" =>
                        session'[u].txs = {} /\ session'[u].decs = {}
                   /\ session'[u].status = "committing" =>
                        session'[u].decs = session'[u].txs
                   /\ \A p, q \in session'[u].txs : p = q
          BY <1>2 DEF SessionInv
      <3>3. ASSUME NEW u \in Sessions, NEW v \in Sessions, u # v,
                   NEW p \in session'[u].txs
            PROVE  ~ Has(session'[v].txs, p.tx)
          BY <3>3, <1>2 DEF SessionInv, Has
      <3> QED BY <3>1, <3>2, <3>3 DEF SessionInv, Has
    <2>4. Inserted /\ s = mine => Has(transactions', req.tx)
        BY <2>1 DEF Inserted, Has
    <2>5. Inserted /\ s # mine => Inserted'
        BY <1>1, <1>2, <2>1 DEF Inserted, Has, TypeOK
    <2>6. CallInv'
        BY <1>1, <1>2, <2>1, <2>4, <2>5, SMT
        DEF CallInv, Inserted, TypeOK, MaxAttempts, Has
    <2>7. PairedRows' /\ ToldInv'
        BY <1>1, <2>1 DEF PairedRows, ToldInv, Has
    <2> QED BY <2>2, <2>3, <2>6, <2>7
  <1>5. CASE ServerAborts(s)
    <2>1. UNCHANGED << transactions, decisions >>
        BY <1>5 DEF ServerAborts, tables
    <2>2. TypeOK'
        BY <1>1, <1>3, <2>1 DEF TypeOK
    <2>3. SessionInv'
        BY <1>2, <2>1, SMT DEF SessionInv, Has
    <2>4. Attached => s # mine
        BY <1>5 DEF ServerAborts
    <2>5. CallInv'
        BY <1>1, <1>2, <2>1, <2>4, SMT
        DEF CallInv, Inserted, Has, Attached, TypeOK, MaxAttempts
    <2>6. PairedRows' /\ ToldInv'
        BY <1>1, <2>1 DEF PairedRows, ToldInv, Has
    <2> QED BY <2>2, <2>3, <2>5, <2>6
  <1> QED BY <1>4, <1>5 DEF ServerEnds

\* The inductive invariant of the store: what the call and every session left
\* behind hold, in every reachable state.
THEOREM StoreInvariant == Spec => []StoreInv
  <1>1. StoreInv /\ UNCHANGED vars => StoreInv'
      BY DEF StoreInv, TypeOK, SessionInv, CallInv, Inserted, PairedRows,
             ToldInv, Has, vars, callVars, tables, MaxAttempts
  <1>2. StoreInv /\ [Next]_vars => StoreInv'
      BY <1>1, CallStepStoreInv, ServerStepStoreInv DEF Next
  <1> QED BY <1>2, InitStoreInv, PTL DEF Spec

\* Every reachable state of the store is well typed, whatever the server does
\* with the sessions that were given up.
THEOREM StoreTypeCorrect == Spec => []TypeOK
  BY StoreInvariant, PTL DEF StoreInv

\* Whatever attempts fail and whatever is left at the server, a transaction is
\* stored if and only if its decision is, from the same request.
THEOREM RowsArePaired == Spec => []PairedRows
  BY StoreInvariant, PTL DEF StoreInv

-----------------------------------------------------------------------------
(* The refinement.                                                         *)

\* Each step of the store is a step of the ledger or leaves it alone: a COMMIT
\* carried out makes an entry, an answer of Ok confirms one.
LEMMA LedgerStep ==
    ASSUME StoreInv, [Next]_vars
    PROVE  [L!LedgerNext]_(L!ledgerVars)
  <1> USE DEF StoreInv, L!ledgerVars
  <1>1. CASE UNCHANGED vars
      BY <1>1 DEF vars, tables
  <1>2. ASSUME NEW r \in Requests, Take(r) PROVE UNCHANGED L!ledgerVars
      BY <1>2 DEF Take, tables
  <1>3. ASSUME NEW s \in Sessions, Begin(s) PROVE UNCHANGED L!ledgerVars
      BY <1>3 DEF Begin, tables
  <1>4. CASE InsertTransaction \/ InsertDecision \/ SendCommit
      BY <1>4 DEF InsertTransaction, InsertDecision, SendCommit, tables
  <1>5. CASE AttemptFails \/ Retry \/ Crash
      BY <1>5 DEF AttemptFails, Retry, Crash, tables
  <1>6. CASE ReturnOk
    <2>1. Has(decisions, req.tx)
        BY <1>6 DEF ReturnOk, CallInv, Inserted, SessionInv, PairedRows, TypeOK
    <2>2. L!Confirm(req)
        BY <1>6, <2>1 DEF ReturnOk, tables, L!Confirm, L!Has, Has
    <2> QED BY <2>2 DEF TypeOK, L!LedgerNext, L!Requests, Requests
  <1>7. ASSUME NEW s \in Sessions, ServerCommits(s)
        PROVE  L!LedgerNext \/ UNCHANGED L!ledgerVars
    <2>1. /\ decisions' = decisions \cup session[s].txs
          /\ UNCHANGED told
        BY <1>7 DEF ServerCommits, SessionInv
    <2>2. CASE session[s].txs = {}
        BY <2>1, <2>2
    <2>3. ASSUME NEW r \in session[s].txs PROVE L!LedgerNext
      <3>1. r \in Requests
          BY SMT DEF TypeOK
      <3>2. decisions' = decisions \cup {r}
          BY <2>1 DEF SessionInv
      <3>3. ~ Has(decisions, r.tx)
          BY DEF SessionInv, PairedRows
      <3>4. L!Record(r)
          BY <2>1, <3>2, <3>3 DEF L!Record, L!Has, Has
      <3> QED BY <3>1, <3>4 DEF L!LedgerNext, L!Requests, Requests
    <2> QED BY <2>2, <2>3
  <1>8. ASSUME NEW s \in Sessions, ServerAborts(s) PROVE UNCHANGED L!ledgerVars
      BY <1>8 DEF ServerAborts, tables
  <1> QED BY <1>1, <1>2, <1>3, <1>4, <1>5, <1>6, <1>7, <1>8
          DEF Next, Attempt, ServerEnds

\* PostgresSinkRepository implements Ledger: one entry for a transaction, made
\* once and never changed, and Ok only for a transaction that has one.
THEOREM StoreKeepsLedger == Spec => KeepsLedger
  <1>1. Init => L!LedgerInit
      BY DEF Init, L!LedgerInit
  <1>2. StoreInv /\ [Next]_vars => [L!LedgerNext]_(L!ledgerVars)
      BY LedgerStep
  <1> QED BY <1>1, <1>2, StoreInvariant, PTL
          DEF Spec, KeepsLedger, L!LedgerSpec
=============================================================================
