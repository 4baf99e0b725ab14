SPECIFICATION Spec
CONSTANTS
    http = http
    ftp = ftp
    PcbOrder <- MCPcbs
    Other <- MCOther
    TypeOf <- MCTypeOf
    Services <- MCServices
    Named <- MCNamed
    Delegated <- MCDelegated
    FastProbes = 1
    MaxQueue = 2
    MaxEvents = 2
INVARIANT NoStaleQuestions
CHECK_DEADLOCK FALSE
