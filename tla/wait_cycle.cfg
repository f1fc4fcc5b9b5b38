SPECIFICATION Spec
CONSTANTS
    m1 = m1
    m2 = m2
    m3 = m3
    m4 = m4
    Msgs = {m1, m2, m3, m4}
    Parsable = {m1, m2, m3, m4}
    MailboxCap = 1
    CommandCap = 1
    MaxConn = 1
    Faults = {}
SYMMETRY Symmetry
INVARIANT
    NoWaitCycle
