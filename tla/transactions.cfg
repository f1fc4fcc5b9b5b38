SPECIFICATION Spec
CONSTANTS
    alice = alice
    bob = bob
    t1 = t1
    t2 = t2
    Missing = Missing
    OutOfRange = OutOfRange
    Garbled = Garbled
    Ids = {t1, t2}
    Accounts = {alice, bob}
    Payloads <- MCPayloads
    MaxTime = 2
INVARIANTS
    TypeOK
    FoundByAccount
    HistoryFaithful
    WindowsJoin
PROPERTY
    FirstStays
