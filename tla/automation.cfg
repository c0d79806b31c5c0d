SPECIFICATION LiveSpec
CONSTANTS
    Node = {a, b}
    None = None
    TermLimit = 2
    BootLimit = 2
    Changes = 3
    Ttl = 2
    Hold = 2
    Delay = 1
INVARIANT
    AvailableFresh
PROPERTIES
    Recovers
    NoRollback
