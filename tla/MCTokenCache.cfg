\* Processes that share one entry, crashes, failed reads and writes and a clock
\* that may be set back.
SPECIFICATION FairSpec
CONSTANTS
    Proc = {p1, p2}
    NoProc = NoProc
    Window = 1
    Lives = {3}
    MaxNow = 2
    MaxTokens = 2
PROPERTIES
    LoginsApart
    SharedTokenSpec
    LoginHasCause
    CancelledGetReturns
