SPECIFICATION FairSpec
CONSTANTS
    invoke = invoke
    retry = retry
    halt = halt
    Request <- MCRequest
    StopRequest <- halt
    Limited <- MCLimited
    Invocation <- MCInvocation
    PipeSize = 1
INVARIANTS
    OneCommentPerInvocation
    OneHandlerPerInvocation
    ResultsAreEarned
PROPERTIES
    RequestsEnd
