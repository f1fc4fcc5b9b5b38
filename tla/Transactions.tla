---------------------------- MODULE Transactions ----------------------------
(***************************************************************************)
(* What a delivery says, what is made of it, and what is read back: the    *)
(* JSON of a message and parse_delivery (amqp_consumer.rs), the types of   *)
(* crates/domain/src/transaction.rs with their textual forms, and the      *)
(* tables behind the repositories of crates/storage.                       *)
(*                                                                         *)
(* The text of an account or an id is what it means and whether it is      *)
(* spelled the way the program itself would: a padded account and a UUID   *)
(* without hyphens are not.  Currencies are spelled out.                   *)
(***************************************************************************)
EXTENDS Integers, SequencesExt

CONSTANTS
    Ids, Accounts,
    Missing, OutOfRange,    \* timestamps: none, none that chrono can hold
    Garbled,                \* a payload that is no TransactionMessage
    Payloads,               \* the payloads that may be delivered
    MaxTime                 \* bound: the clock stops here

\* An amount is an i64; the times in the payloads are those of the clock.
ASSUME PayloadsAssumption ==
    /\ MaxTime \in Nat
    /\ \A msg \in Payloads \ {Garbled} :
           /\ msg.amount \in Int
           /\ msg.timestamp \in {Missing, OutOfRange} \cup 0 .. MaxTime

Text(meaning, plain) == [meaning |-> meaning, plain |-> plain]

VARIABLES
    now,                \* the clock of the process
    rows,               \* the transactions table
    decided,            \* ids in the decisions table
    taken               \* history: messages parse_delivery accepted

vars == << now, rows, decided, taken >>

-----------------------------------------------------------------------------
(* parse_delivery.                                                         *)

\* Mutant: the account is checked trimmed and kept as it came.
AccountIdUntrimmed(text) == text

\* AccountId::new keeps the trimmed text.
AccountId(text) == Text(text.meaning, TRUE)
IsAccount(text) == text.meaning \in Accounts

\* Currency's FromStr; any other text is an error.
CurrencyOf == [RUB |-> "Rub", CNY |-> "Cny", USD |-> "Usd", EUR |-> "Eur"]

IsCurrency(text) == text \in DOMAIN CurrencyOf

\* Mutant: two arms of Display are mixed up.
CurrencyTextMixed == [Rub |-> "RUB", Cny |-> "USD", Usd |-> "CNY", Eur |-> "EUR"]

\* Currency's Display.
CurrencyText == [Rub |-> "RUB", Cny |-> "CNY", Usd |-> "USD", Eur |-> "EUR"]

Parses(msg) ==
    /\ msg # Garbled
    /\ IsAccount(msg.source) /\ IsAccount(msg.destination)
    /\ IsCurrency(msg.currency)
    /\ msg.id.meaning \in Ids

\* A timestamp that is missing, or that chrono cannot hold, becomes the time
\* of the delivery.
Timestamp(stamp, at) == IF stamp \in {Missing, OutOfRange} THEN at ELSE stamp

\* The TransactionRequest that a delivery at this time is parsed to.
Request(msg, at) ==
    [id |-> msg.id.meaning,
     source |-> AccountId(msg.source),
     destination |-> AccountId(msg.destination),
     amount |-> msg.amount,
     currency |-> CurrencyOf[msg.currency],
     timestamp |-> Timestamp(msg.timestamp, at)]

\* The row both INSERTs make of a request.
RowOf(tx) == [tx EXCEPT !.currency = CurrencyText[tx.currency]]

-----------------------------------------------------------------------------
(* get_transactions_for_account.                                           *)

\* Mutant: BETWEEN, which includes its end.
SelectedBetween(account, from, to) ==
    { row \in rows : /\ row.source = account
                     /\ row.timestamp >= from /\ row.timestamp <= to }

Selected(account, from, to) ==
    { row \in rows : /\ row.source = account
                     /\ row.timestamp >= from /\ row.timestamp < to }

\* A row whose texts do not parse fails the whole query.
Readable(row) ==
    IsAccount(row.source) /\ IsAccount(row.destination)
                          /\ IsCurrency(row.currency)

\* The TransactionRequest made of a row.
ReadBack(row) ==
    [row EXCEPT !.source = AccountId(row.source),
                !.destination = AccountId(row.destination),
                !.currency = CurrencyOf[row.currency]]

InOrder(list) ==
    \A i, j \in 1 .. Len(list) : i < j => list[i].timestamp <= list[j].timestamp

\* The rows of the lists it may return: by timestamp, ties in any order.
Answers(account, from, to) ==
    { list \in SetToSeqs(Selected(account, from, to)) :
        InOrder(list) /\ \A i \in 1 .. Len(list) : Readable(list[i]) }

-----------------------------------------------------------------------------

IdsOf(table) == { row.id : row \in table }

Texts(meanings) == [meaning : meanings, plain : BOOLEAN]

TypeOK ==
    /\ now \in 0 .. MaxTime
    /\ rows \in SUBSET [id : Ids, source : Texts(Accounts),
                        destination : Texts(Accounts), amount : Int,
                        currency : DOMAIN CurrencyOf, timestamp : 0 .. MaxTime]
    /\ decided \subseteq IdsOf(rows)
    /\ taken \subseteq Payloads

Init ==
    /\ now = 0
    /\ rows = {}
    /\ decided = {}
    /\ taken = {}

\* Mutant: ON CONFLICT DO UPDATE.
StoreUpserts(msg) ==
    /\ Parses(msg)
    /\ taken' = taken \cup {msg}
    /\ rows' = { row \in rows : row.id # msg.id.meaning } \cup {RowOf(Request(msg, now))}
    /\ decided' = decided \cup {msg.id.meaning}
    /\ UNCHANGED now

\* A delivery that parses goes through engine and sink store; ON CONFLICT DO
\* NOTHING.  One that does not is nacked, and nothing here changes.
Store(msg) ==
    /\ Parses(msg)
    /\ taken' = taken \cup {msg}
    /\ rows' = IF msg.id.meaning \in IdsOf(rows) THEN rows
               ELSE rows \cup {RowOf(Request(msg, now))}
    /\ decided' = decided \cup {msg.id.meaning}
    /\ UNCHANGED now

\* insert_transaction, which nothing calls: an id that is there is an error.
InsertTransaction(msg) ==
    /\ Parses(msg)
    /\ msg.id.meaning \notin IdsOf(rows)
    /\ taken' = taken \cup {msg}
    /\ rows' = rows \cup {RowOf(Request(msg, now))}
    /\ UNCHANGED << now, decided >>

\* Mutant: no foreign key.
StoreDecisionFirst(id) ==
    /\ id \notin decided
    /\ decided' = decided \cup {id}
    /\ UNCHANGED << now, rows, taken >>

\* store_decision, which nothing calls either: the id must be there, and have
\* no decision.
StoreDecision(id) ==
    /\ id \in IdsOf(rows) \ decided
    /\ decided' = decided \cup {id}
    /\ UNCHANGED << now, rows, taken >>

TimePasses ==
    /\ now < MaxTime
    /\ now' = now + 1
    /\ UNCHANGED << rows, decided, taken >>

Next ==
    \/ \E msg \in Payloads : Store(msg) \/ InsertTransaction(msg)
    \/ \E id \in Ids : StoreDecision(id)
    \/ TimePasses

Spec == Init /\ [][Next]_vars

-----------------------------------------------------------------------------
(* Properties.                                                             *)

\* Every message that was accepted has a row under its id, and the history
\* of an account has every row with that number, however it was spelled.
FoundByAccount ==
    /\ { msg.id.meaning : msg \in taken } \subseteq IdsOf(rows)
    /\ \A row \in rows :
           row \in Selected(Text(row.source.meaning, TRUE), 0, MaxTime + 1)

\* What a history query returns is what was once received: every row is read
\* back as the transaction that some accepted message was parsed to, at some
\* time until now.  The two tables of currency texts, trimming, timestamps made
\* up at the delivery, and inserts that find a row there, all have to agree.
HistoryFaithful ==
    \A row \in rows :
        Readable(row) /\ \E msg \in taken, at \in 0 .. now :
                            ReadBack(row) = Request(msg, at)

\* The histories of two adjoining windows, one after the other, are a history
\* of both together: no transaction is missing or counted twice.
WindowsJoin ==
    \A account \in { row.source : row \in rows } :
        \A from, mid, to \in 0 .. MaxTime + 1 :
            from <= mid /\ mid <= to =>
                \A first \in Answers(account, from, mid),
                   second \in Answers(account, mid, to) :
                       first \o second \in Answers(account, from, to)

\* The first transaction stored under an id stays as it is, whatever is
\* delivered later: the same message without a timestamp, now with a later
\* one; another message with that id; or a direct insert.
FirstStays ==
    [][/\ rows \subseteq rows'
       /\ \A row, other \in rows' : row.id = other.id => row = other]_vars
=============================================================================
