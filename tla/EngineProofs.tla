---------------------------- MODULE EngineProofs ----------------------------
(***************************************************************************)
(* Under which rules the engine decides, for every set of rules and        *)
(* transactions, every mailbox and any number of changes to the table.     *)
(*                                                                         *)
(* A load goes from the reload task through the mailbox into the snapshot, *)
(* and the three hold loads in the order of their age: the snapshot the    *)
(* oldest, then the mailbox from its head on, then the reload task.        *)
(*                                                                         *)
(* An evaluation takes many steps.  In all of them the engine has the      *)
(* rules it began with, and has picked what triggers among those it has    *)
(* been through (PicksFrom); at the end that is what the load calls for.   *)
(***************************************************************************)
EXTENDS Engine, FiniteSetTheorems, SequenceTheorems, TLAPS

\* What a load can be: the answer to one query, at one time, on one table.
LoadSet ==
    { load \in [rules : UNION { Loads(t, at) : t \in Tables, at \in 0 .. MaxTime },
                at : 0 .. MaxTime, from : Tables] :
        load.rules \in Loads(load.from, load.at) }

Mail ==
    { Update(load) : load \in LoadSet } \cup { Evaluate(tx) : tx \in Txs }
        \cup {Stop}

QueueOK ==
    /\ now \in 0 .. MaxTime
    /\ rows \in Tables
    /\ refresher \in {Waiting, Ended} \cup { Telling(load) : load \in LoadSet }
    /\ box \in Seq(Mail)
    /\ snapshot \in LoadSet

\* The loads that wait in the mailbox, by place.
Waits(i) == i \in 1 .. Len(box) /\ box[i].kind = "UpdateRules"

InOrder ==
    /\ snapshot.at <= now
    /\ refresher.at = "tell" => /\ refresher.load.at <= now
                                /\ snapshot.at <= refresher.load.at
    /\ \A i \in Nat :
        Waits(i) =>
            /\ box[i].load.at <= now
            /\ snapshot.at <= box[i].load.at
            /\ refresher.at = "tell" => box[i].load.at <= refresher.load.at
    /\ \A i, j \in Nat :
        Waits(i) /\ Waits(j) /\ i < j => box[i].load.at <= box[j].load.at

\* What list has of the first n of the rules: those that trigger, in their
\* order and each once for each of its places.
PicksFrom(list, rules, tx, n) ==
    /\ list \in Seq(Rows)
    /\ \A i \in 1 .. Len(list) :
           \E k \in 1 .. n : list[i] = rules[k] /\ Triggers(rules[k], tx)
    /\ \A k \in 1 .. n :
           Triggers(rules[k], tx) => \E i \in 1 .. Len(list) : list[i] = rules[k]
    /\ \A i, j \in 1 .. Len(list) :
           i < j => \E k, l \in 1 .. n :
                        k < l /\ list[i] = rules[k] /\ list[j] = rules[l]

\* In the middle of an evaluation, the rules are those it began with.
WorkInv ==
    work # NoWork =>
        /\ work.tx \in Txs /\ Valid(work.tx)
        /\ work.load = snapshot
        /\ work.next \in 1 .. Len(snapshot.rules) + 1
        /\ PicksFrom(work.triggered, snapshot.rules, work.tx, work.next - 1)

\* What an evaluation comes to when it has been through all rules of a load.
Outcome(tx, load, decision) ==
    \/ ~ Valid(tx) /\ decision = Decline
    \/ /\ Valid(tx)
       /\ \E listed :
              /\ PicksFrom(listed, load.rules, tx, Len(load.rules))
              /\ decision = IF listed = << >> THEN Accept ELSE Review(listed)

\* A decision is what the rules of one load come to, whatever came in between.
FromOneLoad ==
    decided # NoDecision =>
        /\ decided.tx \in Txs /\ decided.load \in LoadSet
        /\ Outcome(decided.tx, decided.load, decided.decision)

EngineInv == QueueOK /\ InOrder /\ WorkInv /\ FromOneLoad

-----------------------------------------------------------------------------
(* The loop, and the lists it goes through.                                *)

\* One more turn of the loop: the rule is pushed behind the others, or passed.
LEMMA PickNext ==
    ASSUME NEW rules \in Seq(Rows), NEW tx, NEW n \in Nat, n < Len(rules),
           NEW list, PicksFrom(list, rules, tx, n)
    PROVE  PicksFrom(IF Triggers(rules[n + 1], tx)
                     THEN Append(list, rules[n + 1]) ELSE list, rules, tx, n + 1)
<1>1. 1 .. n \subseteq 1 .. n + 1 /\ n + 1 \in 1 .. n + 1
  OBVIOUS
<1>2. \A k \in 1 .. n + 1 : k \in 1 .. n \/ k = n + 1
  OBVIOUS
<1>3. CASE ~ Triggers(rules[n + 1], tx)
  <2>1. \A i \in 1 .. Len(list) :
            \E k \in 1 .. n + 1 : list[i] = rules[k] /\ Triggers(rules[k], tx)
    BY <1>1, Zenon DEF PicksFrom
  <2>2. \A k \in 1 .. n + 1 :
            Triggers(rules[k], tx) => \E i \in 1 .. Len(list) : list[i] = rules[k]
    BY <1>2, <1>3, Zenon DEF PicksFrom
  <2>3. ASSUME NEW i \in 1 .. Len(list), NEW j \in 1 .. Len(list), i < j
        PROVE  \E k, l \in 1 .. n + 1 :
                   k < l /\ list[i] = rules[k] /\ list[j] = rules[l]
    <3>1. PICK k \in 1 .. n, l \in 1 .. n :
              k < l /\ list[i] = rules[k] /\ list[j] = rules[l]
      BY <2>3, Zenon DEF PicksFrom
    <3> QED BY <1>1, <3>1, Zenon
  <2>4. PicksFrom(list, rules, tx, n + 1)
    BY <2>1, <2>2, <2>3, Zenon DEF PicksFrom
  <2> QED BY <1>3, <2>4
<1>4. CASE Triggers(rules[n + 1], tx)
  <2> DEFINE m == Len(list)
             new == Append(list, rules[n + 1])
  <2>1. /\ list \in Seq(Rows) /\ m \in Nat /\ rules[n + 1] \in Rows
    BY DEF PicksFrom
  <2>2. /\ new \in Seq(Rows) /\ Len(new) = m + 1 /\ new[m + 1] = rules[n + 1]
        /\ \A i \in 1 .. m : new[i] = list[i]
    BY <2>1
  <2> HIDE DEF m, new
  <2>3. /\ 1 .. m \subseteq 1 .. m + 1 /\ m + 1 \in 1 .. m + 1
        /\ \A i \in 1 .. m + 1 : i \in 1 .. m \/ i = m + 1
        /\ \A i, j \in 1 .. m + 1 : i < j => i \in 1 .. m
        /\ \A k \in 1 .. n : k < n + 1
    BY <2>1
  <2>4. ASSUME NEW i \in 1 .. m + 1
        PROVE  \E k \in 1 .. n + 1 : new[i] = rules[k] /\ Triggers(rules[k], tx)
    <3>1. CASE i \in 1 .. m
      <4>1. \E k \in 1 .. n : list[i] = rules[k] /\ Triggers(rules[k], tx)
        BY <3>1, Zenon DEF PicksFrom, m
      <4> QED BY <1>1, <2>2, <3>1, <4>1, Zenon
    <3>2. CASE i = m + 1
      BY <1>1, <1>4, <2>2, <3>2, Zenon
    <3> QED BY <2>3, <3>1, <3>2
  <2>5. ASSUME NEW k \in 1 .. n + 1, Triggers(rules[k], tx)
        PROVE  \E i \in 1 .. m + 1 : new[i] = rules[k]
    <3>1. CASE k \in 1 .. n
      <4>1. \E i \in 1 .. m : list[i] = rules[k]
        BY <2>5, <3>1, Zenon DEF PicksFrom, m
      <4> QED BY <2>2, <2>3, <4>1, Zenon
    <3>2. CASE k = n + 1
      BY <2>2, <2>3, <3>2, Zenon
    <3> QED BY <1>2, <3>1, <3>2
  <2>6. ASSUME NEW i \in 1 .. m + 1, NEW j \in 1 .. m + 1, i < j
        PROVE  \E k, l \in 1 .. n + 1 :
                   k < l /\ new[i] = rules[k] /\ new[j] = rules[l]
    <3>1. i \in 1 .. m
      BY <2>3, <2>6
    <3>2. CASE j \in 1 .. m
      <4>1. \E k, l \in 1 .. n : k < l /\ list[i] = rules[k] /\ list[j] = rules[l]
        BY <2>6, <3>1, <3>2, Zenon DEF PicksFrom, m
      <4> QED BY <1>1, <2>2, <3>1, <3>2, <4>1, Zenon
    <3>3. CASE j = m + 1
      <4>1. PICK k \in 1 .. n : list[i] = rules[k]
        BY <3>1, Zenon DEF PicksFrom, m
      <4> QED BY <1>1, <2>2, <2>3, <3>1, <3>3, <4>1, Zenon
    <3> QED BY <2>3, <3>2, <3>3
  <2>7. PicksFrom(new, rules, tx, n + 1)
    <3> DEFINE inOrder(i, j) ==
            \E k, l \in 1 .. n + 1 :
                k < l /\ new[i] = rules[k] /\ new[j] = rules[l]
    <3>1. \A i, j \in 1 .. Len(new) : i < j => inOrder(i, j)
      <4> HIDE DEF inOrder
      <4>1. ASSUME NEW i \in 1 .. m + 1, NEW j \in 1 .. m + 1, i < j
            PROVE  inOrder(i, j)
        BY <2>6, <4>1 DEF inOrder
      <4> QED BY <2>2, <4>1
    <3>2. /\ \A i \in 1 .. Len(new) :
                \E k \in 1 .. n + 1 : new[i] = rules[k] /\ Triggers(rules[k], tx)
          /\ \A k \in 1 .. n + 1 :
                Triggers(rules[k], tx) => \E i \in 1 .. Len(new) : new[i] = rules[k]
      BY <2>2, <2>4, <2>5, Zenon
    <3> QED BY <2>2, <3>1, <3>2, Zenon DEF PicksFrom
  <2> QED BY <1>4, <2>7 DEF new
<1> QED BY <1>3, <1>4

\* The lists of a finite set have each of its members once.
LEMMA SetLists ==
    ASSUME NEW S, IsFiniteSet(S), NEW list
    PROVE  list \in SetToSeqs(S) <=>
               /\ list \in Seq(S)
               /\ \A i, j \in 1 .. Len(list) : list[i] = list[j] => i = j
               /\ \A x \in S : \E i \in 1 .. Len(list) : list[i] = x
<1> DEFINE n == Cardinality(S)
<1>1. n \in Nat
  BY FS_CardinalityType
<1>2. IsFiniteSet(1 .. n) /\ Cardinality(1 .. n) = n
  BY <1>1, FS_Interval
<1>3. ASSUME list \in SetToSeqs(S)
      PROVE  /\ list \in Seq(S)
             /\ \A i, j \in 1 .. Len(list) : list[i] = list[j] => i = j
             /\ \A x \in S : \E i \in 1 .. Len(list) : list[i] = x
  <2>1. /\ list \in [1 .. n -> S]
        /\ \A i, j \in 1 .. n : list[i] = list[j] => i = j
    BY <1>3 DEF SetToSeqs
  <2>2. list \in Seq(S) /\ Len(list) = n
    BY <1>1, <2>1, LenProperties
  <2>3. list \in Injection(1 .. n, S)
    BY <2>1 DEF Injection, IsInjective
  <2>4. list \in Surjection(1 .. n, S)
    BY <1>2, <2>3, FS_Injection
  <2> QED BY <2>1, <2>2, <2>4 DEF Surjection
<1>4. ASSUME list \in Seq(S),
             \A i, j \in 1 .. Len(list) : list[i] = list[j] => i = j,
             \A x \in S : \E i \in 1 .. Len(list) : list[i] = x
      PROVE  list \in SetToSeqs(S)
  <2> DEFINE m == Len(list)
  <2>1. m \in Nat /\ list \in [1 .. m -> S]
    BY <1>4, LenProperties
  <2> HIDE DEF m
  <2>2. list \in Bijection(1 .. m, S)
    BY <1>4, <2>1 DEF m, Bijection, Injection, IsInjective, Surjection
  <2>3. Cardinality(S) = m
    BY <2>1, <2>2, FS_CountingElements DEF ExistsBijection
  <2> QED BY <1>4, <2>1, <2>3 DEF SetToSeqs, m
<1> QED BY <1>3, <1>4

\* What a load lists: each row the query selects, once, by priority.
LEMMA LoadLists ==
    ASSUME NEW load \in LoadSet
    PROVE  LET selected == Selected(load.from, load.at)
               rules == load.rules
           IN  /\ IsFiniteSet(load.from) /\ load.from \subseteq Rows
               /\ rules \in Seq(Rows) /\ ByPriority(rules)
               /\ \A i \in 1 .. Len(rules) : rules[i] \in selected
               /\ \A i, j \in 1 .. Len(rules) : rules[i] = rules[j] => i = j
               /\ \A row \in selected : \E i \in 1 .. Len(rules) : rules[i] = row
<1> DEFINE selected == Selected(load.from, load.at)
           rules == load.rules
<1>1. /\ IsFiniteSet(load.from) /\ load.from \subseteq Rows
      /\ rules \in SetToSeqs(selected) /\ ByPriority(rules)
  BY DEF LoadSet, Tables, Loads
<1>2. selected \subseteq load.from /\ selected \subseteq Rows
  BY <1>1 DEF Selected
<1>3. IsFiniteSet(selected)
  BY <1>1, <1>2, FS_Subset
<1> HIDE DEF selected, rules
<1>4. /\ rules \in Seq(selected)
      /\ \A i, j \in 1 .. Len(rules) : rules[i] = rules[j] => i = j
      /\ \A row \in selected : \E i \in 1 .. Len(rules) : rules[i] = row
  <2>1. rules \in SetToSeqs(selected)
    BY <1>1
  <2>2. rules \in SetToSeqs(selected) <=>
            /\ rules \in Seq(selected)
            /\ \A i, j \in 1 .. Len(rules) : rules[i] = rules[j] => i = j
            /\ \A row \in selected : \E i \in 1 .. Len(rules) : rules[i] = row
    BY <1>3, SetLists
  <2> QED BY <2>1, <2>2, Zenon
<1>5. /\ rules \in Seq(Rows)
      /\ \A i \in 1 .. Len(rules) : rules[i] \in selected
  BY <1>2, <1>4, SeqMonotonic, ElementOfSeq
<1> QED BY <1>1, <1>4, <1>5, Zenon DEF selected, rules

-----------------------------------------------------------------------------
(* The steps.                                                              *)

\* What is in a load, a mail and the reload task.
LEMMA Parts ==
    /\ \A load \in LoadSet : load.at \in Nat
    /\ LoadsNow \subseteq LoadSet \/ ~ QueueOK
    /\ \A load \in LoadSet : Update(load) \in Mail
    /\ \A mail \in Mail :
           mail.kind = "UpdateRules" => mail.load \in LoadSet
    /\ \A load : Update(load).kind = "UpdateRules" /\ Update(load).load = load
    /\ \A load : Telling(load).at = "tell" /\ Telling(load).load = load
    /\ Waiting.at # "tell" /\ Ended.at # "tell" /\ Stop.kind # "UpdateRules"
    /\ \A tx : Evaluate(tx).kind # "UpdateRules"
    /\ refresher.at = "tell" /\ QueueOK => refresher.load \in LoadSet
<1>1. \A load \in LoadSet : load.at \in Nat
  BY EngineBounds DEF LoadSet, EngineBounds
<1>2. LoadsNow \subseteq LoadSet \/ ~ QueueOK
  BY DEF LoadsNow, LoadSet, QueueOK
<1>3. QED
  BY <1>1, <1>2 DEF Mail, Update, Telling, Waiting, Ended, Stop, Evaluate, QueueOK

\* The engine starts with a load of its own.
LEMMA EngineInit == Init => EngineInv
<1> SUFFICES ASSUME Init PROVE EngineInv
  OBVIOUS
<1>1. now \in 0 .. MaxTime /\ rows \in Tables /\ now = 0
  BY EngineBounds DEF Init, EngineBounds
<1>2. snapshot \in LoadSet /\ snapshot.at = now
  BY <1>1 DEF Init, LoadsNow, LoadSet
<1>3. QueueOK
  BY <1>1, <1>2 DEF Init, QueueOK
<1>4. InOrder
  BY <1>1, <1>2, Parts DEF Init, InOrder, Waits
<1>5. WorkInv /\ FromOneLoad
  BY DEF Init, WorkInv, FromOneLoad
<1> QED BY <1>3, <1>4, <1>5 DEF EngineInv

\* A new load is the youngest.
LEMMA LoadKeeps == ASSUME EngineInv, LoadSucceeds PROVE EngineInv'
<1> USE DEF EngineInv
<1>1. PICK load \in LoadSet : refresher' = Telling(load) /\ load.at = now
  BY Parts DEF LoadSucceeds, LoadsNow
<1>2. UNCHANGED << now, rows, box, snapshot, work, decided >>
  BY DEF LoadSucceeds, engineVars
<1>3. QueueOK'
  BY <1>1, <1>2 DEF QueueOK, Tables
<1>4. InOrder'
  BY <1>1, <1>2, Parts DEF InOrder, Waits
<1>5. WorkInv' /\ FromOneLoad'
  BY <1>2 DEF WorkInv, FromOneLoad
<1> QED BY <1>3, <1>4, <1>5

\* Told, it goes to the end of the mailbox, behind all the older ones.
LEMMA TellKeeps == ASSUME EngineInv, Tell \/ Arrive PROVE EngineInv'
<1> USE DEF EngineInv
<1>1. UNCHANGED << now, rows, snapshot, work, decided >>
  BY DEF Tell, TellUpdate, TellUpdateFails, Arrive, engineVars
<1>2. WorkInv' /\ FromOneLoad'
  BY <1>1 DEF WorkInv, FromOneLoad
<1>3. ASSUME NEW mail \in Mail, box' = Append(box, mail),
             refresher' \in {refresher, Waiting},
             mail.kind = "UpdateRules" =>
                 /\ refresher.at = "tell" /\ mail.load = refresher.load
                 /\ refresher' = Waiting
      PROVE  QueueOK' /\ InOrder'
  <2>1. QueueOK'
    BY <1>1, <1>3 DEF QueueOK
  <2>2. \A i \in Nat :
            Waits(i)' => \/ Waits(i) /\ box'[i] = box[i] /\ i <= Len(box)
                         \/ i = Len(box) + 1 /\ box'[i] = mail
                              /\ mail.kind = "UpdateRules"
    BY <1>3 DEF QueueOK, Waits
  <2>3. \A i \in Nat : Waits(i)' => box'[i].load.at \in Nat
    BY <2>1, Parts DEF Waits, QueueOK
  <2>4. InOrder'
    BY <1>1, <1>3, <2>2, <2>3, Parts DEF InOrder, Waits
  <2> QED BY <2>1, <2>4
<1>4. CASE TellUpdate
  BY <1>2, <1>3, <1>4, Parts DEF TellUpdate
<1>5. CASE TellUpdateFails
  BY <1>1, <1>2, <1>5, Parts DEF TellUpdateFails, QueueOK, InOrder, Waits
<1>6. CASE Arrive
  <2>1. PICK mail \in Mail : mail.kind # "UpdateRules" /\ box' = Append(box, mail)
    BY <1>6, Parts DEF Arrive, Mail
  <2> QED BY <1>2, <1>3, <1>6, <2>1 DEF Arrive
<1> QED BY <1>4, <1>5, <1>6 DEF Tell

\* The engine takes its mail from the head: the oldest load first.
LEMMA TakeKeeps ==
    ASSUME EngineInv, box # << >>, box' = Tail(box),
           UNCHANGED << now, rows, refresher >>,
           \/ UNCHANGED snapshot
           \/ Head(box).kind = "UpdateRules" /\ snapshot' = Head(box).load
    PROVE  QueueOK' /\ InOrder' /\ snapshot'.at >= snapshot.at
<1> USE DEF EngineInv
<1>1. /\ box \in Seq(Mail) /\ Head(box) \in Mail /\ Head(box) = box[1]
      /\ Head(box).kind = "UpdateRules" => Waits(1)
  BY DEF QueueOK, Waits
<1>2. /\ \A i \in Nat : Waits(i)' => Waits(i + 1) /\ box'[i] = box[i + 1]
      /\ \A i \in Nat : Waits(i)' => i > 0
  BY <1>1 DEF Waits
<1>3. box' \in Seq(Mail)
  BY <1>1
<1>4. \A i, j \in Nat :
          Waits(i)' /\ Waits(j)' /\ i < j => box'[i].load.at <= box'[j].load.at
  <2> SUFFICES ASSUME NEW i \in Nat, NEW j \in Nat, Waits(i)', Waits(j)', i < j
               PROVE  box'[i].load.at <= box'[j].load.at
    OBVIOUS
  <2>1. i + 1 \in Nat /\ j + 1 \in Nat /\ i + 1 < j + 1
    OBVIOUS
  <2>2. /\ Waits(i + 1) /\ box'[i] = box[i + 1]
        /\ Waits(j + 1) /\ box'[j] = box[j + 1]
    BY <1>2
  <2>3. box[i + 1].load.at <= box[j + 1].load.at
    BY <2>1, <2>2 DEF InOrder
  <2> QED BY <2>2, <2>3
<1>5. CASE UNCHANGED snapshot
  <2>1. QueueOK'
    BY <1>3, <1>5 DEF QueueOK
  <2>2. InOrder'
    <3>1. \A i \in Nat :
            Waits(i)' =>
                /\ box'[i].load.at <= now'
                /\ snapshot'.at <= box'[i].load.at
                /\ refresher'.at = "tell" => box'[i].load.at <= refresher'.load.at
      <4> TAKE i \in Nat
      <4>1. i + 1 \in Nat
        OBVIOUS
      <4> QED BY <1>2, <1>5, <4>1 DEF InOrder
    <3> QED BY <1>5, <1>4, <3>1 DEF InOrder
  <2>3. snapshot.at \in Nat
    BY Parts DEF QueueOK
  <2> QED BY <1>5, <2>1, <2>3, <2>2
<1>6. CASE Head(box).kind = "UpdateRules" /\ snapshot' = Head(box).load
  <2>1. snapshot' \in LoadSet /\ Waits(1)
    BY <1>1, <1>6, Parts
  <2>2. QueueOK'
    BY <1>1, <2>1 DEF QueueOK
  <2>3. InOrder'
    <3>1. /\ snapshot' = box[1].load
          /\ \A i \in Nat : Waits(i)' => i > 0 /\ i + 1 > 1 /\ 1 \in Nat /\ i + 1 \in Nat
      BY <1>1, <1>2, <1>6
    <3>2. snapshot'.at <= now'
      BY <2>1, <3>1 DEF InOrder
    <3>3. refresher'.at = "tell" =>
              refresher'.load.at <= now' /\ snapshot'.at <= refresher'.load.at
      BY <2>1, <3>1 DEF InOrder
    <3>4. \A i \in Nat :
            Waits(i)' =>
                /\ box'[i].load.at <= now'
                /\ snapshot'.at <= box'[i].load.at
                /\ refresher'.at = "tell" => box'[i].load.at <= refresher'.load.at
      BY <1>2, <2>1, <3>1 DEF InOrder
    <3> QED BY <1>4, <3>2, <3>3, <3>4 DEF InOrder
  <2>4. snapshot'.at >= snapshot.at
    BY <1>1, <1>6, <2>1, Parts DEF InOrder, QueueOK
  <2> QED BY <2>2, <2>3, <2>4
<1> QED BY <1>5, <1>6

\* In the middle of an evaluation, and at its end, no mail is taken.
LEMMA EvaluationKeeps ==
    ASSUME EngineInv, EvaluateRule \/ Conclude
    PROVE  EngineInv' /\ UNCHANGED snapshot
<1> USE DEF EngineInv
<1>1. UNCHANGED << now, rows, refresher, box, snapshot >>
  BY DEF EvaluateRule, Conclude
<1>2. QueueOK' /\ InOrder'
  BY <1>1 DEF QueueOK, InOrder, Waits
<1>3. snapshot \in LoadSet /\ snapshot.rules \in Seq(Rows)
  BY LoadLists DEF QueueOK
<1>4. /\ work.tx \in Txs /\ Valid(work.tx) /\ work.load = snapshot
      /\ work.next \in 1 .. Len(snapshot.rules) + 1
      /\ PicksFrom(work.triggered, snapshot.rules, work.tx, work.next - 1)
  BY DEF EvaluateRule, Conclude, WorkInv
<1>5. CASE EvaluateRule
  <2> DEFINE n == work.next - 1
             rule == snapshot.rules[work.next]
             picked == IF Triggers(rule, work.tx)
                       THEN Append(work.triggered, rule) ELSE work.triggered
  <2>1. /\ work' = [work EXCEPT !.next = @ + 1, !.triggered = picked]
        /\ work.next <= Len(snapshot.rules) /\ UNCHANGED decided
    BY <1>5 DEF EvaluateRule
  <2>2. n \in Nat /\ n < Len(snapshot.rules) /\ n + 1 = work.next
    BY <1>3, <1>4, <2>1
  <2> HIDE DEF n
  <2>3. PicksFrom(picked, snapshot.rules, work.tx, n + 1)
    BY <1>3, <1>4, <2>2, PickNext DEF n
  <2> HIDE DEF picked
  <2>4. WorkInv'
    <3>1. work' # NoWork =>
              /\ work'.tx = work.tx /\ work'.load = work.load
              /\ work'.next = work.next + 1 /\ work'.triggered = picked
      BY <1>4, <2>1 DEF WorkOn, NoWork
    <3>2. work.next + 1 \in 1 .. Len(snapshot.rules) + 1
          /\ (work.next + 1) - 1 = n + 1
      BY <1>3, <1>4, <2>1, <2>2
    <3> QED BY <1>1, <1>4, <2>3, <3>1, <3>2 DEF WorkInv
  <2> QED BY <1>1, <1>2, <2>1, <2>4 DEF FromOneLoad
<1>6. CASE Conclude
  <2>1. work.next - 1 = Len(snapshot.rules)
    BY <1>3, <1>4, <1>6 DEF Conclude
  <2>2. FromOneLoad'
    BY <1>3, <1>4, <1>6, <2>1 DEF Conclude, Decided, FromOneLoad, Outcome
  <2> QED BY <1>1, <1>2, <1>6, <2>2 DEF Conclude, WorkInv
<1> QED BY <1>5, <1>6

\* What the engine does, one message at a time.
LEMMA HandleKeeps ==
    ASSUME EngineInv, Handle
    PROVE  EngineInv' /\ snapshot'.at >= snapshot.at
<1> USE DEF EngineInv
<1>0. snapshot.at \in Nat /\ snapshot \in LoadSet
  BY Parts DEF QueueOK
<1>1. CASE HandleUpdateRules
  <2>1. QueueOK' /\ InOrder' /\ snapshot'.at >= snapshot.at
    BY <1>1, TakeKeeps DEF HandleUpdateRules, Handles
  <2>2. WorkInv' /\ FromOneLoad'
    BY <1>1 DEF HandleUpdateRules, Handles, WorkInv, FromOneLoad
  <2> QED BY <2>1, <2>2
<1>2. CASE DeclineInvalid \/ BeginEvaluation
  <2>1. /\ box # << >> /\ box' = Tail(box) /\ Head(box).kind = "Evaluate"
        /\ work = NoWork /\ UNCHANGED << now, rows, refresher, snapshot >>
    BY <1>2 DEF DeclineInvalid, BeginEvaluation, Handles
  <2>2. QueueOK' /\ InOrder' /\ snapshot'.at >= snapshot.at
    BY <2>1, TakeKeeps
  <2>3. Head(box).tx \in Txs
    <3>1. Head(box) \in Mail
      BY <2>1 DEF QueueOK
    <3> QED BY <2>1, <3>1 DEF Mail, Update, Evaluate, Stop
  <2>4. CASE DeclineInvalid
    BY <1>0, <2>1, <2>2, <2>3, <2>4
       DEF DeclineInvalid, Decided, WorkInv, FromOneLoad, Outcome
  <2>5. CASE BeginEvaluation
    <3>1. PicksFrom(<< >>, snapshot.rules, Head(box).tx, 0)
      BY DEF PicksFrom
    <3>2. Len(snapshot.rules) \in Nat
      BY <1>0, LoadLists, LenProperties
    <3>3. /\ work' = WorkOn(Head(box).tx) /\ Valid(Head(box).tx)
          /\ decided' = NoDecision
      BY <2>5 DEF BeginEvaluation
    <3>4. WorkInv'
      BY <2>1, <2>3, <3>1, <3>2, <3>3 DEF WorkInv, WorkOn
    <3> QED BY <2>2, <3>3, <3>4 DEF FromOneLoad
  <2> QED BY <1>2, <2>4, <2>5
<1>3. CASE EvaluateRule \/ Conclude
  BY <1>0, <1>3, EvaluationKeeps
<1>4. CASE HandleStop
  <2>1. box' = << >> /\ UNCHANGED << now, rows, refresher, snapshot, work, decided >>
    BY <1>4 DEF HandleStop
  <2> QED BY <1>0, <2>1, Parts
          DEF QueueOK, InOrder, Waits, WorkInv, FromOneLoad
<1> QED BY <1>1, <1>2, <1>3, <1>4 DEF Handle, HandleEvaluate

\* The table changes and time passes, and no load is in the future for it.
LEMMA WorldKeeps ==
    ASSUME EngineInv, EditTable \/ TimePasses \/ UNCHANGED vars
    PROVE  EngineInv'
<1> USE DEF EngineInv
<1>1. /\ UNCHANGED << refresher, box, snapshot, work, decided >>
      /\ now' \in 0 .. MaxTime /\ now' >= now /\ rows' \in Tables
  <2>1. MaxTime \in Nat
    BY EngineBounds DEF EngineBounds
  <2> QED BY <2>1 DEF EditTable, TimePasses, vars, engineVars, QueueOK
<1>2. QueueOK'
  BY <1>1 DEF QueueOK
<1>3. InOrder'
  <2>1. \A i \in Nat : Waits(i) => box[i].load.at \in Nat
    BY Parts DEF Waits, QueueOK
  <2>2. /\ now \in Nat /\ now' \in Nat /\ snapshot.at \in Nat
        /\ refresher.at = "tell" => refresher.load.at \in Nat
    BY <1>1, Parts, EngineBounds DEF QueueOK, EngineBounds
  <2>3. \A i \in Nat : (Waits(i) <=> Waits(i)') /\ box'[i] = box[i]
    BY <1>1 DEF Waits
  <2> QED BY <1>1, <2>1, <2>2, <2>3 DEF InOrder
<1>4. WorkInv' /\ FromOneLoad'
  BY <1>1 DEF WorkInv, FromOneLoad
<1> QED BY <1>2, <1>3, <1>4

\* A step that is not the engine's leaves its snapshot alone.
LEMMA SnapshotStep ==
    ASSUME EngineInv, [Next]_vars
    PROVE  EngineInv' /\ [snapshot'.at >= snapshot.at]_vars
<1>1. CASE Handle
  BY <1>1, HandleKeeps
<1>2. CASE \/ LoadSucceeds \/ LoadFails \/ Tell \/ Arrive \/ EditTable
           \/ TimePasses \/ UNCHANGED vars
  <2>1. UNCHANGED snapshot
    BY <1>2 DEF LoadSucceeds, LoadFails, Tell, TellUpdate, TellUpdateFails,
                Arrive, EditTable, TimePasses, vars, engineVars
  <2>2. snapshot.at \in Nat
    BY Parts DEF EngineInv, QueueOK
  <2> QED BY <1>2, <2>1, <2>2, LoadKeeps, TellKeeps, WorldKeeps DEF LoadFails
<1> QED BY <1>1, <1>2 DEF Next

\* The inductive invariant: loads are in the order of their age, an evaluation
\* has picked what it should so far, and decisions are made under one load.
THEOREM EngineInvariant == Spec => []EngineInv
<1> QED BY EngineInit, SnapshotStep, PTL DEF Spec

\* However long an update waits and however fast the table changes, the engine
\* never goes back to rules that were read before those it has.
THEOREM RulesNeverGoBack == Spec => SnapshotsInOrder
<1> QED BY EngineInit, SnapshotStep, PTL DEF Spec, SnapshotsInOrder

-----------------------------------------------------------------------------
(* What a decision lists.                                                  *)

\* The WHERE clause and is_active_at mean the same by `in force'.
LEMMA InForceAgrees ==
    \A row, at : /\ InForce(row, at) <=> /\ row.enabled
                                         /\ row.valid_from <= at
                                         /\ row.valid_until # Never => row.valid_until > at
                 /\ InForce(row, at) <=> IsActiveAt(row, at)
BY DEF InForce, IsActiveAt

\* The rows a transaction violates, on the table of one load.
Guilty(tx, load) ==
    { row \in load.from : /\ InForce(row, load.at)
                          /\ InForce(row, tx.timestamp)
                          /\ Parses(row) /\ Matches(row, tx) }

\* The loop over a load lists the rows the transaction violates, by priority.
LEMMA ReviewIsComplete ==
    ASSUME NEW load \in LoadSet, NEW tx, NEW listed,
           PicksFrom(listed, load.rules, tx, Len(load.rules))
    PROVE  /\ listed \in SetToSeqs(Guilty(tx, load))
           /\ ByPriority(listed)
           /\ listed = << >> <=> Guilty(tx, load) = {}
<1> DEFINE rules == load.rules
           guilty == Guilty(tx, load)
           selected == Selected(load.from, load.at)
<1>1. /\ IsFiniteSet(load.from) /\ load.from \subseteq Rows
      /\ rules \in Seq(Rows) /\ ByPriority(rules)
      /\ \A i \in 1 .. Len(rules) : rules[i] \in selected
      /\ \A i, j \in 1 .. Len(rules) : rules[i] = rules[j] => i = j
      /\ \A row \in selected : \E i \in 1 .. Len(rules) : rules[i] = row
  BY LoadLists, Zenon
<1>2. PicksFrom(listed, rules, tx, Len(rules))
  OBVIOUS
<1>3. \A row : row \in guilty <=> row \in selected /\ Triggers(row, tx)
  BY InForceAgrees, Zenon DEF Guilty, Selected, Triggers
<1>4. guilty \subseteq Rows /\ IsFiniteSet(guilty)
  <2>1. guilty \subseteq load.from
    BY DEF Guilty
  <2> QED BY <1>1, <2>1, FS_Subset
<1> HIDE DEF rules, guilty, selected
<1>5. listed \in Seq(Rows) /\ Len(listed) \in Nat /\ Len(rules) \in Nat
  BY <1>1, <1>2, LenProperties DEF PicksFrom
<1>6. \A i \in 1 .. Len(listed) : listed[i] \in guilty
  BY <1>1, <1>2, <1>3, Zenon DEF PicksFrom
<1>7. listed \in Seq(guilty)
  BY <1>5, <1>6
<1>8. \A row \in guilty : \E i \in 1 .. Len(listed) : listed[i] = row
  <2> SUFFICES ASSUME NEW row \in guilty
               PROVE  \E i \in 1 .. Len(listed) : listed[i] = row
    OBVIOUS
  <2>1. PICK k \in 1 .. Len(rules) : rules[k] = row /\ Triggers(row, tx)
    BY <1>1, <1>3, Zenon
  <2> QED BY <1>2, <2>1, Zenon DEF PicksFrom
<1>9. ASSUME NEW i \in 1 .. Len(listed), NEW j \in 1 .. Len(listed), i < j
      PROVE  listed[i] # listed[j] /\ listed[i].priority >= listed[j].priority
  <2>1. PICK k \in 1 .. Len(rules), l \in 1 .. Len(rules) :
            k < l /\ listed[i] = rules[k] /\ listed[j] = rules[l]
    BY <1>2, <1>9, Zenon DEF PicksFrom
  <2>2. k # l
    BY <1>5, <2>1
  <2>3. rules[k] # rules[l] /\ rules[k].priority >= rules[l].priority
    BY <1>1, <2>1, <2>2, Zenon DEF ByPriority
  <2> QED BY <2>1, <2>3, Zenon
<1>10. ByPriority(listed)
  BY <1>9 DEF ByPriority
<1>11. \A i, j \in 1 .. Len(listed) : listed[i] = listed[j] => i = j
  <2> SUFFICES ASSUME NEW i \in 1 .. Len(listed), NEW j \in 1 .. Len(listed), i # j
               PROVE  listed[i] # listed[j]
    OBVIOUS
  <2>1. i < j \/ j < i
    BY <1>5
  <2> QED BY <1>9, <2>1, Zenon
<1>12. listed \in SetToSeqs(guilty)
  BY <1>4, <1>7, <1>8, <1>11, SetLists
<1>13. listed = << >> <=> guilty = {}
  <2>1. listed = << >> <=> Len(listed) = 0
    BY <1>5, EmptySeq
  <2>2. ASSUME Len(listed) = 0 PROVE guilty = {}
    BY <1>8, <2>2
  <2>3. ASSUME Len(listed) # 0 PROVE guilty # {}
    <3>1. 1 \in 1 .. Len(listed)
      BY <1>5, <2>3
    <3> QED BY <1>6, <3>1
  <2> QED BY <2>1, <2>2, <2>3
<1> QED BY <1>10, <1>12, <1>13 DEF rules, guilty

\* A decision from one load is the one the table of that load calls for.
LEMMA Justified == ASSUME EngineInv PROVE DecisionJustified
<1> SUFFICES ASSUME decided # NoDecision PROVE DecisionJustified
  BY DEF DecisionJustified
<1> DEFINE tx == decided.tx
           load == decided.load
           guilty == Guilty(tx, load)
           invalid == tx.amount <= 0 \/ tx.source = tx.destination
<1>1. load \in LoadSet /\ Outcome(tx, load, decided.decision)
  BY DEF EngineInv, FromOneLoad
<1>2. invalid <=> ~ Valid(tx)
  BY TxsAssumption DEF EngineInv, FromOneLoad, Valid
<1>3. CASE invalid
  BY <1>1, <1>2, <1>3 DEF DecisionJustified, Outcome
<1>4. CASE ~ invalid
  <2>1. PICK listed :
            /\ PicksFrom(listed, load.rules, tx, Len(load.rules))
            /\ decided.decision = IF listed = << >> THEN Accept ELSE Review(listed)
    BY <1>1, <1>2, <1>4 DEF Outcome
  <2>2. /\ listed \in SetToSeqs(guilty) /\ ByPriority(listed)
        /\ listed = << >> <=> guilty = {}
    BY <1>1, <2>1, ReviewIsComplete
  <2>3. /\ guilty = {} => decided.decision = Accept
        /\ guilty # {} => \E l \in SetToSeqs(guilty) :
                              ByPriority(l) /\ decided.decision = Review(l)
    BY <2>1, <2>2, Zenon
  <2> QED BY <1>4, <2>3, Zenon DEF DecisionJustified, Guilty
<1> QED BY <1>3, <1>4

\* Every step keeps the types; the mailbox fills up to its capacity only.
LEMMA TypeStep ==
    ASSUME TypeOK, EngineInv, EngineInv', [Next]_vars
    PROVE  TypeOK'
<1>1. \A load \in LoadSet : load \in Snapshots
  <2> SUFFICES ASSUME NEW load \in LoadSet PROVE load \in Snapshots
    OBVIOUS
  <2>1. load.rules \in Seq(Rows)
    BY LoadLists
  <2>2. load = [rules |-> load.rules, at |-> load.at, from |-> load.from]
        /\ load.at \in 0 .. MaxTime /\ load.from \in Tables
    BY DEF LoadSet
  <2> QED BY <2>1, <2>2 DEF Snapshots
<1>2. /\ now' \in 0 .. MaxTime /\ rows' \in Tables /\ snapshot' \in Snapshots
      /\ \/ refresher' \in {Waiting, Ended}
         \/ refresher'.at = "tell" /\ refresher'.load \in Snapshots
  BY <1>1, Parts DEF EngineInv, QueueOK
<1>3. box' \in Seq(Mail) /\ box \in Seq(Mail)
  BY DEF EngineInv, QueueOK
<1>4. \A i \in 1 .. Len(box') :
          \/ box'[i].kind = "UpdateRules" /\ box'[i].load \in Snapshots
          \/ box'[i] \in { Evaluate(tx) : tx \in Txs } \cup {Stop}
  <2>1. \A i \in 1 .. Len(box') : box'[i] \in Mail
    BY <1>3
  <2>2. \A mail \in Mail :
            \/ mail.kind = "UpdateRules" /\ mail.load \in LoadSet
            \/ mail \in { Evaluate(tx) : tx \in Txs } \cup {Stop}
    BY Parts DEF Mail
  <2> QED BY <1>1, <2>1, <2>2
<1>5. Len(box') <= MailboxCap
  <2> USE <1>3
  <2>1. Len(box) <= MailboxCap /\ Len(box) \in Nat /\ MailboxCap \in Nat
    BY EngineBounds DEF TypeOK, EngineBounds
  <2>2. ASSUME NEW mail, box' = Append(box, mail), CanTell PROVE Len(box') <= MailboxCap
    BY <2>1, <2>2 DEF CanTell
  <2>3. ASSUME box' = Tail(box), box # << >> PROVE Len(box') <= MailboxCap
    BY <2>1, <2>3
  <2>4. ASSUME box' = box \/ box' = << >> PROVE Len(box') <= MailboxCap
    BY <2>1, <2>4
  <2>5. CASE TellUpdate \/ Arrive
    BY <2>2, <2>5 DEF TellUpdate, Arrive
  <2>6. CASE HandleUpdateRules \/ DeclineInvalid \/ BeginEvaluation
    BY <2>3, <2>6 DEF HandleUpdateRules, DeclineInvalid, BeginEvaluation, Handles
  <2>7. CASE \/ LoadSucceeds \/ LoadFails \/ TellUpdateFails \/ HandleStop
             \/ EvaluateRule \/ Conclude
             \/ EditTable \/ TimePasses \/ UNCHANGED vars
    BY <2>4, <2>7 DEF LoadSucceeds, LoadFails, TellUpdateFails, HandleStop,
                      EvaluateRule, Conclude, EditTable, TimePasses, vars
  <2> QED BY <2>5, <2>6, <2>7 DEF Next, Tell, Handle, HandleEvaluate
<1>6. edits' \in 0 .. MaxEdits
  <2>1. MaxEdits \in Nat
    BY EngineBounds DEF EngineBounds
  <2>2. CASE EditTable
    BY <2>1, <2>2 DEF EditTable, TypeOK
  <2>3. CASE ~ EditTable
    <3>1. edits' = edits
      BY <2>3 DEF Next, LoadSucceeds, LoadFails, Tell, TellUpdate, TellUpdateFails,
                  Handle, HandleUpdateRules, HandleEvaluate, DeclineInvalid,
                  BeginEvaluation, EvaluateRule, Conclude, HandleStop, Arrive,
                  TimePasses, vars
    <3> QED BY <3>1 DEF TypeOK
  <2> QED BY <2>2, <2>3
<1>7. engine' \in {"running", "stopped"}
  BY DEF TypeOK, Next, LoadSucceeds, LoadFails, Tell, TellUpdate, TellUpdateFails,
         Handle, HandleUpdateRules, HandleEvaluate, DeclineInvalid,
         BeginEvaluation, EvaluateRule, Conclude, HandleStop, Arrive,
         EditTable, TimePasses, vars, engineVars
<1>8. decided' = NoDecision \/ decided'.tx \in Txs
  BY DEF EngineInv, FromOneLoad
<1>9. \/ work' = NoWork
      \/ /\ work'.tx \in Txs /\ work'.load \in Snapshots
         /\ work'.next \in Nat \ {0} /\ work'.triggered \in Seq(Rows)
  <2>1. Len(snapshot'.rules) \in Nat
    BY <1>2, LenProperties DEF Snapshots
  <2>2. work' # NoWork =>
            /\ work'.tx \in Txs /\ work'.load = snapshot'
            /\ work'.next \in 1 .. Len(snapshot'.rules) + 1
            /\ work'.triggered \in Seq(Rows)
    BY DEF EngineInv, WorkInv, PicksFrom
  <2> QED BY <1>2, <2>1, <2>2
<1> QED BY <1>2, <1>4, <1>5, <1>6, <1>7, <1>8, <1>9 DEF TypeOK

\* The types hold when main has started the actors.
LEMMA TypeInit == Init => TypeOK
<1> SUFFICES ASSUME Init PROVE TypeOK
  OBVIOUS
<1>1. snapshot \in LoadSet
  BY EngineInit DEF EngineInv, QueueOK
<1>2. snapshot.rules \in Seq(Rows)
  BY <1>1, LoadLists
<1>3. snapshot \in Snapshots
  BY <1>1, <1>2 DEF LoadSet, Snapshots
<1> QED BY <1>3, EngineBounds DEF Init, TypeOK, EngineBounds

\* What the reload task, the mailbox and the snapshot hold are always loads of
\* tables, and the mailbox never has more mail than it has room for.
THEOREM EngineTypeCorrect == Spec => []TypeOK
<1>1. EngineInv /\ EngineInv' /\ TypeOK /\ [Next]_vars => TypeOK'
  BY TypeStep
<1> QED BY TypeInit, EngineInvariant, <1>1, PTL DEF Spec

\* For any rules, transactions and changes to the table: Review lists exactly the
\* rows that were in force when they were read and at the transaction's time and
\* that it violates, by priority; without any it is accepted, and an invalid
\* transaction is declined.
THEOREM DecisionsAreJustified == Spec => []DecisionJustified
<1>1. EngineInv => DecisionJustified
  BY Justified
<1> QED BY EngineInvariant, <1>1, PTL
=============================================================================
