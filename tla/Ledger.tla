------------------------------- MODULE Ledger -------------------------------
(***************************************************************************)
(* What SinkRepository::insert_transaction_and_decision                    *)
(* (crates/storage/src/sink_repo.rs) promises the sink actor: a ledger     *)
(* with at most one entry for a transaction, written once and never        *)
(* changed, and an Ok only for a transaction that has its entry.           *)
(***************************************************************************)
CONSTANTS
    Txs,                \* transaction ids
    Contents            \* what may be said of one: its data and the decision

Requests == [tx : Txs, content : Contents]

VARIABLES
    ledger,             \* the entries
    told                \* the requests answered with Ok

ledgerVars == << ledger, told >>

Has(rows, tx) == \E r \in rows : r.tx = tx

LedgerInit == ledger = {} /\ told = {}

\* The first request for a transaction that gets through makes its entry.
Record(r) ==
    /\ ~ Has(ledger, r.tx)
    /\ ledger' = ledger \cup {r}
    /\ UNCHANGED told

\* A request is answered Ok when there is an entry, its own or an earlier one.
Confirm(r) ==
    /\ Has(ledger, r.tx)
    /\ told' = told \cup {r}
    /\ UNCHANGED ledger

LedgerNext == \E r \in Requests : Record(r) \/ Confirm(r)

LedgerSpec == LedgerInit /\ [][LedgerNext]_ledgerVars
=============================================================================
