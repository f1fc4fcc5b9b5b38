SPECIFICATION FairSpec
CONSTANTS
    Unset = Unset
    Garbage = Garbage
    Secs = {0, 30}
    MaxRepairs = 1
    MaxDeletions = 1
INVARIANTS
    TypeOK
    ConsumesUnderRules
    DeadLetterReady
    BackoffCounts
PROPERTIES
    RefresherGuards
    Serves
