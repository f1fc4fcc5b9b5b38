SPECIFICATION FairSpec
CONSTANTS
    alice = alice
    bob = bob
    Never = Never
    Rows <- FewRows
    Txs <- OneTx
    MailboxCap = 2
    MaxTime = 2
    MaxEdits = 1
PROPERTIES
    SnapshotsInOrder
    CatchesUp
    RefresherEnds
\* Once the engine has stopped and the reload task has ended nothing is left
\* to do.
CHECK_DEADLOCK FALSE
