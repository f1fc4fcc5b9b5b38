SPECIFICATION Spec
CONSTANTS
    m1 = m1
    m2 = m2
    bad = bad
    Msgs = {m1, m2, bad}
    Parsable = {m1, m2}
    MailboxCap = 3
    CommandCap = 2
    MaxConn = 2
    Faults = {"insert", "lost"}
SYMMETRY Symmetry
INVARIANTS
    SettledOnOwnResult
    NoDeliveryForgotten
PROPERTY
    KeepsDelivery
