SPECIFICATION Spec
CONSTANTS
    Unset = Unset
    Garbage = Garbage
    Secs = {30}
    MaxRepairs = 0
    MaxDeletions = 0
INVARIANT
    ReconnectsSoon
