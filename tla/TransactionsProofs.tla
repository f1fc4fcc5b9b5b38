------------------------- MODULE TransactionsProofs -------------------------
(***************************************************************************)
(* What becomes of a message and of its row, for any payloads and          *)
(* accounts.                                                               *)
(*                                                                         *)
(* All of it rests on one thing: a row is only ever made from a message    *)
(* that parses, under an id that has none.                                 *)
(***************************************************************************)
EXTENDS Transactions, FiniteSetTheorems, SequenceTheorems, TLAPS

TakenInv == \A msg \in taken : msg.id.meaning \in IdsOf(rows)

RowsInv ==
    /\ now \in 0 .. MaxTime
    /\ \A row \in rows : /\ Readable(row)
                         /\ row.source = Text(row.source.meaning, TRUE)
                         /\ row.timestamp \in 0 .. MaxTime
    /\ \A row, other \in rows : row.id = other.id => row = other

RecordInv == TakenInv /\ RowsInv /\ HistoryFaithful

-----------------------------------------------------------------------------

\* FromStr takes what Display writes, and for the same currency.
LEMMA CurrencyReadsBack ==
    ASSUME NEW text, IsCurrency(text)
    PROVE  LET currency == CurrencyOf[text]
           IN  /\ IsCurrency(CurrencyText[currency])
               /\ CurrencyOf[CurrencyText[currency]] = currency
BY DEF IsCurrency, CurrencyOf, CurrencyText

\* An account that was trimmed is an account, and trimming it again does nothing.
LEMMA AccountReadsBack ==
    ASSUME NEW text, IsAccount(text)
    PROVE  /\ IsAccount(AccountId(text))
           /\ AccountId(AccountId(text)) = AccountId(text)
           /\ AccountId(text) = Text(AccountId(text).meaning, TRUE)
BY DEF IsAccount, AccountId, Text

\* The row of a message can be read, and is read as the request it was made of.
LEMMA RowOfReadable ==
    ASSUME now \in 0 .. MaxTime, NEW msg \in Payloads, Parses(msg)
    PROVE  LET row == RowOf(Request(msg, now))
           IN  /\ row.id = msg.id.meaning
               /\ Readable(row)
               /\ ReadBack(row) = Request(msg, now)
               /\ row.source = Text(row.source.meaning, TRUE)
               /\ row.timestamp \in 0 .. MaxTime
<1> DEFINE tx == Request(msg, now)
           row == RowOf(tx)
<1>1. /\ msg # Garbled /\ IsCurrency(msg.currency)
      /\ IsAccount(msg.source) /\ IsAccount(msg.destination)
  BY DEF Parses
<1>2. Timestamp(msg.timestamp, now) \in 0 .. MaxTime
  BY <1>1, PayloadsAssumption DEF Timestamp, PayloadsAssumption
<1>3. tx = [id |-> msg.id.meaning, source |-> AccountId(msg.source),
            destination |-> AccountId(msg.destination), amount |-> msg.amount,
            currency |-> CurrencyOf[msg.currency],
            timestamp |-> Timestamp(msg.timestamp, now)]
  BY DEF Request
<1>4. /\ row = [tx EXCEPT !.currency = CurrencyText[tx.currency]]
      /\ ReadBack(row) = [row EXCEPT !.source = AccountId(row.source),
                                     !.destination = AccountId(row.destination),
                                     !.currency = CurrencyOf[row.currency]]
  BY DEF RowOf, ReadBack
<1> HIDE DEF tx, row
<1>5. /\ row.id = msg.id.meaning /\ row.timestamp \in 0 .. MaxTime
      /\ row.source = AccountId(msg.source)
      /\ row.destination = AccountId(msg.destination)
      /\ row.currency = CurrencyText[tx.currency]
  BY <1>2, <1>3, <1>4
<1>6. Readable(row) /\ row.source = Text(row.source.meaning, TRUE)
  BY <1>1, <1>3, <1>5, CurrencyReadsBack, AccountReadsBack DEF Readable
<1>7. /\ AccountId(row.source) = row.source
      /\ AccountId(row.destination) = row.destination
      /\ CurrencyOf[row.currency] = tx.currency
  BY <1>1, <1>3, <1>5, CurrencyReadsBack, AccountReadsBack
<1>8. ReadBack(row) = tx
  BY <1>3, <1>4, <1>7
<1> QED BY <1>5, <1>6, <1>8 DEF tx, row

\* Accepting a message, and adding its row if its id is new.
LEMMA AddRow ==
    ASSUME RecordInv, NEW msg \in Payloads, Parses(msg), now' = now,
           taken' = taken \cup {msg},
           rows' = IF msg.id.meaning \in IdsOf(rows) THEN rows
                   ELSE rows \cup {RowOf(Request(msg, now))}
    PROVE  RecordInv' /\ rows \subseteq rows'
<1> DEFINE new == RowOf(Request(msg, now))
<1>1. /\ new.id = msg.id.meaning /\ Readable(new)
      /\ ReadBack(new) = Request(msg, now)
      /\ new.source = Text(new.source.meaning, TRUE)
      /\ new.timestamp \in 0 .. MaxTime
  <2>1. now \in 0 .. MaxTime
    BY DEF RecordInv, RowsInv
  <2> QED BY <2>1, RowOfReadable
<1>0. now \in 0 .. now
  BY PayloadsAssumption DEF RecordInv, RowsInv, PayloadsAssumption
<1> HIDE DEF new
<1>2. RowsInv' /\ rows \subseteq rows' /\ TakenInv'
  <2>1. CASE msg.id.meaning \in IdsOf(rows)
    BY <2>1 DEF RecordInv, RowsInv, TakenInv, Readable, IdsOf
  <2>2. CASE msg.id.meaning \notin IdsOf(rows)
    <3>1. rows' = rows \cup {new}
      BY <2>2 DEF new
    <3>2. \A row \in rows : row.id # new.id
      BY <1>1, <2>2 DEF IdsOf
    <3>3. IdsOf(rows)' = IdsOf(rows) \cup {msg.id.meaning}
      BY <1>1, <3>1 DEF IdsOf
    <3> QED BY <1>1, <3>1, <3>2, <3>3 DEF RecordInv, RowsInv, TakenInv
  <2> QED BY <2>1, <2>2
<1>3. ASSUME NEW row \in rows'
      PROVE  Readable(row) /\ \E other \in taken', at \in 0 .. now' :
                                  ReadBack(row) = Request(other, at)
  <2>1. row \in rows \/ row = new
    BY DEF new
  <2>2. CASE row \in rows
    BY <2>2 DEF RecordInv, HistoryFaithful
  <2>3. CASE row = new
    BY <1>0, <1>1, <2>3
  <2> QED BY <2>1, <2>2, <2>3
<1>4. HistoryFaithful'
  BY <1>3 DEF HistoryFaithful
<1> QED BY <1>2, <1>4 DEF RecordInv

\* No step loses or changes a row.
LEMMA StepKeeps ==
    ASSUME RecordInv, [Next]_vars PROVE RecordInv' /\ rows \subseteq rows'
<1>1. ASSUME NEW msg \in Payloads, Store(msg) \/ InsertTransaction(msg)
      PROVE  RecordInv' /\ rows \subseteq rows'
  <2>1. /\ Parses(msg) /\ now' = now /\ taken' = taken \cup {msg}
        /\ rows' = IF msg.id.meaning \in IdsOf(rows) THEN rows
                   ELSE rows \cup {RowOf(Request(msg, now))}
    BY <1>1 DEF Store, InsertTransaction
  <2> QED BY <2>1, AddRow
<1>2. ASSUME UNCHANGED << rows, taken >>, now' \in 0 .. MaxTime, now <= now'
      PROVE  RecordInv' /\ rows \subseteq rows'
  <2>1. TakenInv' /\ RowsInv'
    BY <1>2 DEF RecordInv, TakenInv, RowsInv, Readable, IdsOf
  <2>2. now \in Nat /\ now' \in Nat
    BY <1>2, PayloadsAssumption DEF RecordInv, RowsInv, PayloadsAssumption
  <2>3. ASSUME NEW row \in rows
        PROVE  Readable(row) /\ \E msg \in taken, at \in 0 .. now' :
                                    ReadBack(row) = Request(msg, at)
    <3>1. PICK msg \in taken, at \in 0 .. now : ReadBack(row) = Request(msg, at)
      BY DEF RecordInv, HistoryFaithful
    <3>2. at \in 0 .. now'
      BY <1>2, <2>2
    <3> QED BY <3>1, <3>2 DEF RecordInv, HistoryFaithful
  <2>4. HistoryFaithful'
    BY <1>2, <2>3 DEF HistoryFaithful
  <2> QED BY <1>2, <2>1, <2>4 DEF RecordInv
<1>3. ASSUME \/ \E id \in Ids : StoreDecision(id)
             \/ TimePasses \/ UNCHANGED vars
      PROVE  RecordInv' /\ rows \subseteq rows'
  <2>1. now \in 0 .. MaxTime /\ MaxTime \in Nat
    BY PayloadsAssumption DEF RecordInv, RowsInv, PayloadsAssumption
  <2>2. UNCHANGED << rows, taken >> /\ now' \in 0 .. MaxTime /\ now <= now'
    BY <1>3, <2>1 DEF StoreDecision, TimePasses, vars
  <2> QED BY <1>2, <2>2
<1> QED BY <1>1, <1>3 DEF Next

\* Nothing is stored at first.
LEMMA RecordInit == Init => RecordInv
<1>1. MaxTime \in Nat
  BY PayloadsAssumption DEF PayloadsAssumption
<1> QED BY <1>1 DEF Init, RecordInv, TakenInv, RowsInv, HistoryFaithful

\* The inductive invariant: the rows are readable, one for an id, and those of
\* the messages that were accepted.
THEOREM RecordInvariant == Spec => []RecordInv
BY RecordInit, StepKeeps, PTL DEF Spec

-----------------------------------------------------------------------------
(* The results.                                                            *)

\* Every accepted message has its row, and every row is found under the
\* account it belongs to, however the message spelled it.
THEOREM RowsAreFound == Spec => []FoundByAccount
<1>1. ASSUME RecordInv, NEW row \in rows
      PROVE  row \in Selected(Text(row.source.meaning, TRUE), 0, MaxTime + 1)
  <2>1. row.timestamp >= 0 /\ row.timestamp < MaxTime + 1
    <3>1. MaxTime \in Nat
      BY PayloadsAssumption DEF PayloadsAssumption
    <3>2. row.timestamp \in 0 .. MaxTime
      BY <1>1 DEF RecordInv, RowsInv
    <3> QED BY <3>1, <3>2
  <2>2. row.source = Text(row.source.meaning, TRUE)
    BY <1>1 DEF RecordInv, RowsInv
  <2> QED BY <2>1, <2>2 DEF Selected
<1>2. RecordInv => FoundByAccount
  BY <1>1 DEF RecordInv, TakenInv, FoundByAccount
<1> QED BY <1>2, RecordInvariant, PTL

\* Every stored row is read back as the transaction that a message was parsed to
\* when it was accepted, whatever was delivered or inserted since; so no history
\* query fails on it.
THEOREM RowsReadBack == Spec => []HistoryFaithful
<1>1. RecordInv => HistoryFaithful
  BY DEF RecordInv
<1> QED BY <1>1, RecordInvariant, PTL

\* The first row of an id is never changed or removed, and stays the only one.
THEOREM FirstRowStays == Spec => FirstStays
<1>1. RecordInv /\ [Next]_vars
      => /\ RecordInv'
         /\ rows \subseteq rows'
         /\ \A row, other \in rows' : row.id = other.id => row = other
  BY StepKeeps DEF RecordInv, RowsInv
<1> QED BY <1>1, RecordInit, PTL DEF Spec, FirstStays

-----------------------------------------------------------------------------
(* The tables, and two queries one after the other.                        *)

\* Every row is in the table because a message was stored: the table is of the
\* right type, finite, and has a row for every decision.
TablesInv == TypeOK /\ IsFiniteSet(rows)

\* The row of a message has the columns of the table.
LEMMA RowOfTypes ==
    ASSUME now \in 0 .. MaxTime, NEW msg \in Payloads, Parses(msg)
    PROVE  RowOf(Request(msg, now)) \in
               [id : Ids, source : Texts(Accounts), destination : Texts(Accounts),
                amount : Int, currency : DOMAIN CurrencyOf,
                timestamp : 0 .. MaxTime]
<1>1. msg # Garbled /\ msg.amount \in Int
  BY PayloadsAssumption DEF Parses, PayloadsAssumption
<1>2. RowOf(Request(msg, now)).timestamp \in 0 .. MaxTime
  BY RowOfReadable
<1>3. \A text : IsAccount(text) => AccountId(text) \in Texts(Accounts)
  BY DEF IsAccount, AccountId, Text, Texts
<1>4. \A text : IsCurrency(text) =>
                     CurrencyText[CurrencyOf[text]] \in DOMAIN CurrencyOf
  BY CurrencyReadsBack DEF IsCurrency
<1> QED BY <1>1, <1>2, <1>3, <1>4 DEF Parses, RowOf, Request

\* Storing keeps the tables, and nothing else touches them.
LEMMA TablesStep ==
    ASSUME TablesInv, [Next]_vars PROVE TablesInv'
<1> USE DEF TablesInv, TypeOK
<1>1. ASSUME NEW msg \in Payloads, Parses(msg),
             \/ rows' = rows \/ rows' = rows \cup {RowOf(Request(msg, now))},
             now' = now,
             taken' = taken \/ taken' = taken \cup {msg},
             decided' \subseteq IdsOf(rows)'
      PROVE  TablesInv'
  <2>1. IsFiniteSet(rows)'
    BY <1>1, FS_AddElement
  <2> QED BY <1>1, <2>1, RowOfTypes
<1>2. ASSUME NEW msg \in Payloads, Store(msg) PROVE TablesInv'
  <2>1. decided \subseteq IdsOf(rows) /\ Parses(msg)
    BY <1>2 DEF Store
  <2>2. IdsOf(rows) \cup {msg.id.meaning} \subseteq IdsOf(rows)'
    <3>1. RowOf(Request(msg, now)).id = msg.id.meaning
      BY <2>1, RowOfReadable
    <3> QED BY <1>2, <3>1 DEF Store, IdsOf
  <2>3. decided' \subseteq IdsOf(rows)'
    BY <1>2, <2>1, <2>2 DEF Store
  <2> QED BY <1>1, <1>2, <2>1, <2>3 DEF Store
<1>3. ASSUME NEW msg \in Payloads, InsertTransaction(msg) PROVE TablesInv'
  <2>1. decided' \subseteq IdsOf(rows)'
    BY <1>3 DEF InsertTransaction, IdsOf
  <2> QED BY <1>1, <1>3, <2>1 DEF InsertTransaction
<1>4. ASSUME NEW id \in Ids, StoreDecision(id) PROVE TablesInv'
  BY <1>4 DEF StoreDecision, IdsOf
<1>5. CASE TimePasses
  BY <1>5, PayloadsAssumption DEF TimePasses, PayloadsAssumption, IdsOf
<1>6. CASE UNCHANGED vars
  BY <1>6 DEF vars, IdsOf
<1> QED BY <1>2, <1>3, <1>4, <1>5, <1>6 DEF Next

\* The tables at any time.
THEOREM TablesInvariant == Spec => []TablesInv
<1>1. Init => TablesInv
  BY PayloadsAssumption, FS_EmptySet
     DEF Init, TablesInv, TypeOK, IdsOf, PayloadsAssumption
<1> QED BY <1>1, TablesStep, PTL DEF Spec

\* The records are well typed, and no decision is without its transaction.
THEOREM RecordTypeCorrect == Spec => []TypeOK
<1>1. TablesInv => TypeOK
  BY DEF TablesInv
<1> QED BY <1>1, TablesInvariant, PTL

\* The lists of a finite set: sequences of its length without repetition.
LEMMA ListsOf ==
    ASSUME NEW S, IsFiniteSet(S)
    PROVE  /\ Cardinality(S) \in Nat
           /\ \A list : list \in SetToSeqs(S) <=>
                  /\ list \in Seq(S) /\ Len(list) = Cardinality(S)
                  /\ \A i, j \in 1 .. Len(list) : i # j => list[i] # list[j]
<1>1. Cardinality(S) \in Nat
  BY FS_CardinalityType
<1>2. \A list : list \in [1 .. Cardinality(S) -> S] <=>
                    list \in Seq(S) /\ Len(list) = Cardinality(S)
  BY <1>1, LenProperties
<1> QED BY <1>1, <1>2 DEF SetToSeqs

\* Each place of s \o t is one of s or one of t.
Joined(s, t, S, T) ==
    /\ Len(s) \in Nat /\ Len(t) \in Nat /\ Len(s \o t) = Len(s) + Len(t)
    /\ \A i \in 1 .. Len(s \o t) :
           \/ i \in 1 .. Len(s) /\ s[i] \in S /\ (s \o t)[i] = s[i]
           \/ /\ i > Len(s) /\ i - Len(s) \in 1 .. Len(t)
              /\ t[i - Len(s)] \in T /\ (s \o t)[i] = t[i - Len(s)]

\* Two disjoint sets listed one after the other are their union listed.
LEMMA ListsJoin ==
    ASSUME NEW S, NEW T, IsFiniteSet(S), IsFiniteSet(T), S \cap T = {},
           NEW s \in SetToSeqs(S), NEW t \in SetToSeqs(T)
    PROVE  s \o t \in SetToSeqs(S \cup T) /\ Joined(s, t, S, T)
<1> DEFINE U == S \cup T
           u == s \o t
<1>1. /\ s \in Seq(S) /\ t \in Seq(T) /\ s \in Seq(U) /\ t \in Seq(U)
      /\ Len(s) = Cardinality(S) /\ Len(t) = Cardinality(T)
      /\ \A i, j \in 1 .. Len(s) : i # j => s[i] # s[j]
      /\ \A i, j \in 1 .. Len(t) : i # j => t[i] # t[j]
  BY ListsOf, SeqMonotonic
<1>2. /\ IsFiniteSet(U) /\ Cardinality(U) = Cardinality(S) + Cardinality(T)
  <2>1. Cardinality(S) \in Nat /\ Cardinality(T) \in Nat /\ Cardinality({}) = 0
    BY FS_CardinalityType, FS_EmptySet
  <2>2. /\ IsFiniteSet(U)
        /\ Cardinality(U) = Cardinality(S) + Cardinality(T) - Cardinality(S \cap T)
    BY FS_Union, Zenon
  <2>3. Cardinality(S \cap T) = 0
    BY <2>1, Zenon
  <2> QED BY <2>1, <2>2, <2>3
<1>3. /\ u \in Seq(U) /\ Len(u) = Len(s) + Len(t)
      /\ Len(s) \in Nat /\ Len(t) \in Nat
      /\ \A i \in 1 .. Len(u) : u[i] = IF i <= Len(s) THEN s[i] ELSE t[i - Len(s)]
  BY <1>1, ConcatProperties, LenProperties
<1>4. /\ \A i \in 1 .. Len(s) : s[i] \in S
      /\ \A i \in 1 .. Len(t) : t[i] \in T
  BY <1>1, ElementOfSeq
<1> HIDE DEF u, U
<1>5. \A i \in 1 .. Len(u) :
          \/ i \in 1 .. Len(s) /\ s[i] \in S /\ u[i] = s[i]
          \/ /\ i > Len(s) /\ i - Len(s) \in 1 .. Len(t)
             /\ t[i - Len(s)] \in T /\ u[i] = t[i - Len(s)]
  BY <1>3, <1>4
<1>6. \A i, j \in 1 .. Len(u) : i # j => u[i] # u[j]
  <2> SUFFICES ASSUME NEW i \in 1 .. Len(u), NEW j \in 1 .. Len(u), i # j
               PROVE  u[i] # u[j]
    OBVIOUS
  <2>1. CASE i <= Len(s) /\ j <= Len(s)
    BY <1>1, <1>5, <2>1
  <2>2. CASE i > Len(s) /\ j > Len(s)
    <3>1. i - Len(s) # j - Len(s)
      BY <1>3
    <3> QED BY <1>1, <1>5, <2>2, <3>1
  <2>3. CASE i <= Len(s) /\ j > Len(s)
    BY <1>5, <2>3
  <2>4. CASE i > Len(s) /\ j <= Len(s)
    BY <1>5, <2>4
  <2>5. Len(s) \in Int /\ i \in Int /\ j \in Int
    BY <1>3
  <2> QED BY <2>1, <2>2, <2>3, <2>4, <2>5
<1>7. u \in SetToSeqs(U)
  BY <1>1, <1>2, <1>3, <1>6, ListsOf
<1> QED BY <1>3, <1>5, <1>7 DEF Joined, u, U

\* No transaction is missing or counted twice on the boundary of two windows,
\* wherever it lies and however many transactions share its time.
THEOREM HistoriesJoin == Spec => []WindowsJoin
<1>1. ASSUME TablesInv, NEW account,
             NEW from \in 0 .. MaxTime + 1, NEW mid \in 0 .. MaxTime + 1,
             NEW to \in 0 .. MaxTime + 1, from <= mid, mid <= to,
             NEW first \in Answers(account, from, mid),
             NEW second \in Answers(account, mid, to)
      PROVE  first \o second \in Answers(account, from, to)
  <2> DEFINE S == Selected(account, from, mid)
             T == Selected(account, mid, to)
             both == first \o second
  <2>1. /\ MaxTime \in Nat /\ IsFiniteSet(rows)
        /\ \A row \in rows : row.timestamp \in Nat
    BY <1>1, PayloadsAssumption DEF TablesInv, TypeOK, PayloadsAssumption
  <2>2. /\ S \cap T = {} /\ S \cup T = Selected(account, from, to)
        /\ S \subseteq rows /\ T \subseteq rows
    BY <1>1, <2>1 DEF Selected
  <2>3. IsFiniteSet(S) /\ IsFiniteSet(T)
    BY <2>1, <2>2, FS_Subset
  <2>4. /\ first \in SetToSeqs(S) /\ InOrder(first)
        /\ \A i \in 1 .. Len(first) : Readable(first[i])
        /\ second \in SetToSeqs(T) /\ InOrder(second)
        /\ \A i \in 1 .. Len(second) : Readable(second[i])
    BY <1>1 DEF Answers
  <2>5. both \in SetToSeqs(S \cup T) /\ Joined(first, second, S, T)
    BY <2>2, <2>3, <2>4, ListsJoin, Zenon
  <2>6. /\ \A row \in S : row.timestamp \in Nat /\ row.timestamp < mid
        /\ \A row \in T : row.timestamp \in Nat /\ row.timestamp >= mid
    BY <2>1 DEF Selected
  <2> HIDE DEF S, T, both
  <2>7. /\ Len(first) \in Nat
        /\ \A i \in 1 .. Len(both) :
               \/ i \in 1 .. Len(first) /\ first[i] \in S /\ both[i] = first[i]
               \/ /\ i > Len(first) /\ i - Len(first) \in 1 .. Len(second)
                  /\ second[i - Len(first)] \in T
                  /\ both[i] = second[i - Len(first)]
    BY <2>5 DEF Joined, both
  <2>8. InOrder(both)
    <3> SUFFICES ASSUME NEW i \in 1 .. Len(both), NEW j \in 1 .. Len(both), i < j
                 PROVE  both[i].timestamp <= both[j].timestamp
      BY DEF InOrder
    <3>1. CASE j \in 1 .. Len(first) /\ both[j] = first[j]
      <4>1. i \in 1 .. Len(first) /\ both[i] = first[i]
        BY <2>7, <3>1
      <4> QED BY <2>4, <3>1, <4>1 DEF InOrder
    <3>2. CASE i > Len(first)
      <4> DEFINE k == i - Len(first)
                 l == j - Len(first)
      <4>1. i \in Int /\ j \in Int /\ Len(first) \in Nat /\ j > Len(first)
        BY <2>7, <3>2
      <4>2. ~ i \in 1 .. Len(first) /\ ~ j \in 1 .. Len(first) /\ k < l
        BY <3>2, <4>1
      <4>3. /\ k \in 1 .. Len(second) /\ both[i] = second[k]
            /\ l \in 1 .. Len(second) /\ both[j] = second[l]
        BY <2>7, <4>2
      <4> HIDE DEF k, l
      <4> QED BY <2>4, <4>2, <4>3 DEF InOrder
    <3>3. CASE i \in 1 .. Len(first) /\ j > Len(first)
      <4>1. both[i] \in S /\ both[j] \in T
        BY <2>7, <3>3
      <4> QED BY <2>6, <4>1
    <3> QED BY <2>7, <3>1, <3>2, <3>3
  <2>9. \A i \in 1 .. Len(both) : Readable(both[i])
    BY <2>4, <2>7
  <2> QED BY <2>2, <2>5, <2>8, <2>9 DEF Answers, both
<1>2. TablesInv => WindowsJoin
  BY <1>1 DEF WindowsJoin
<1> QED BY <1>2, TablesInvariant, PTL
=============================================================================
