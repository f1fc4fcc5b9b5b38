SPECIFICATION Spec
CONSTANTS
    alice = alice
    bob = bob
    Never = Never
    Rows <- MCRows
    Txs <- MCTxs
    MailboxCap = 2
    MaxTime = 1
    MaxEdits = 1
INVARIANTS
    TypeOK
    DecisionJustified
\* Once the engine has stopped and the reload task has ended nothing is left
\* to do.
CHECK_DEADLOCK FALSE
