SPECIFICATION FairSpec
CONSTANTS
    t1 = t1
    t2 = t2
    c1 = c1
    c2 = c2
    s1 = s1
    s2 = s2
    Txs = {t1, t2}
    Contents = {c1, c2}
    Sessions = {s1, s2}
INVARIANTS
    TypeOK
    PairedRows
PROPERTIES
    KeepsLedger
    CallReturns
