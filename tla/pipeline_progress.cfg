SPECIFICATION OrderedFairSpec
CONSTANTS
    Msgs = {1, 2, 3, 4}
    Parsable = {1, 2, 3, 4}
    MailboxCap = 1
    CommandCap = 1
    MaxConn = 1
    Faults = {"insert", "ctrl_c"}
\* In a wait cycle the process really stops.
CHECK_DEADLOCK FALSE
INVARIANT
    BlocksOnlyUnderBacklog
PROPERTIES
    RefusesOnlyWhenStopping
    EverySettled
    ShutdownCompletes
