SPECIFICATION FairSpec
CONSTANTS
    m1 = m1
    Msgs = {m1}
    Parsable = {m1}
    MailboxCap = 2
    CommandCap = 1
    MaxConn = 2
    Faults = {"cancel"}
PROPERTY
    Reconnects
