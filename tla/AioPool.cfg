SPECIFICATION FairSpec
CONSTANTS
    Block = {b1, b2, b3, b4}
    Thread = {t1, t2}
    NoBlock = NoBlock
    max_threads = 2
    Workloads <- MCWorkloads
    MaxContext = 2
    MaxFollowUps = 1
INVARIANTS AioTypeOK CountersMatch NoRequestStranded OneOwner ContextsIsolate CompletionIsNoticed
PROPERTIES ServiceSafe RequestsEnd MainReturns
