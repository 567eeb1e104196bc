\* Three block versions in chunks of three cells, two threads.
CONSTANTS
    t1 = t1
    t2 = t2
    a = a
    b = b
    c = c
    NoOne = NoOne
    Threads = {t1, t2}
    Versions = {a, b, c}
    Entries = {a}
    Code <- Loop
    Page = 3
    MaxCalls = 2
SPECIFICATION FairSpec
CHECK_DEADLOCK FALSE
INVARIANTS RunsTheProgram PreparedOnce
PROPERTIES PublishedStays StubAnswered
