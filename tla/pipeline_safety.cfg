SPECIFICATION Spec
CONSTANTS
    m1 = m1
    m2 = m2
    bad = bad
    Msgs = {m1, m2, bad}
    Parsable = {m1, m2}
    MailboxCap = 3
    CommandCap = 2
    MaxConn = 1
    Faults = {"insert", "lost", "cancel", "crash", "ctrl_c"}
SYMMETRY Symmetry
INVARIANTS
    TypeOK
    AckedIsPersisted
    DeadLetteredForCause
    AckNeverIgnored
    CommandsAreSettleable
    DecisionsStoredAtExit
PROPERTY
    KeepsDelivery
