SPECIFICATION OrderedSpec
CONSTANTS
    Msgs = {1, 2, 3}
    Parsable = {1, 2, 3}
    MailboxCap = 3
    CommandCap = 2
    MaxConn = 2
    Faults = {"lost"}
INVARIANT
    AckedIsPersisted
