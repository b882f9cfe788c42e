\* Two replicas contend for the keys of one log; every transaction ends.
CONSTANTS
    LogId = {l1}
    NoLog = NoLog
    Record = {a}
    Replica = {r1, r2}
    MaxLeaves = 2
    MaxDoubt = 0
SPECIFICATION FairSpec
PROPERTY TransactionsEnd
